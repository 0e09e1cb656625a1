----------------------------- MODULE EdgeProofs -----------------------------
(***************************************************************************)
(* More proofs about the parts of ProvedComponents, of the same form, at   *)
(* the edges of a service: the replica it keeps of a directory, who a      *)
(* request is made by, what the service tells of the requests it answers,  *)
(* and the values it takes, stores and gives.                              *)
(***************************************************************************)
EXTENDS ComponentsProofs

-----------------------------------------------------------------------------
(* Sequences *)

\* r is the sequence s with e after it.
Adds(T, r, s, e) ==
  /\ r \in Seq(T) /\ Len(r) = Len(s) + 1 /\ r[Len(s) + 1] = e
  /\ \A i \in 1..Len(s) : r[i] = s[i]

\* A sequence of one element joined to another adds it there.
LEMMA Joined ==
  ASSUME NEW T, NEW s \in Seq(T), NEW t \in Seq(T), Len(t) = 1
  PROVE  Adds(T, s \o t, s, t[1])
<1> DEFINE r == s \o t
           n == Len(s)
<1>1. /\ r \in Seq(T) /\ Len(r) = n + 1
      /\ \A i \in 1..n + 1 : r[i] = IF i <= n THEN s[i] ELSE t[i - n]
  <2>1. /\ r \in Seq(T) /\ Len(r) = Len(s) + Len(t)
        /\ \A i \in 1..Len(s) + Len(t) : r[i] = IF i <= Len(s) THEN s[i] ELSE t[i - Len(s)]
    BY ConcatProperties
  <2> HIDE DEF r
  <2>2. QED
    BY <2>1 DEF n
<1>2. n \in Nat
  BY LenProperties
<1> HIDE DEF r, n
<1>3. r[n + 1] = t[1]
  <2>1. \A k \in 1..n + 1 : k = n + 1 => ~ (k <= n) /\ k - n = 1
    BY <1>2
  <2>2. \A k \in 1..n + 1 : k = n + 1 => r[k] = t[1]
    BY <1>1, <2>1
  <2>3. n + 1 \in 1..n + 1
    BY <1>2
  <2>4. QED
    BY <2>2, <2>3
<1>4. \A i \in 1..n : r[i] = s[i]
  <2>1. \A i \in 1..n : i \in 1..n + 1 /\ i <= n
    BY <1>2
  <2>2. QED
    BY <1>1, <2>1
<1>5. QED
  BY <1>1, <1>3, <1>4 DEF Adds, r, n

\* What \o has at each place, the two sequences apart.
LEMMA Concatenated ==
  ASSUME NEW S, NEW p \in Seq(S), NEW q \in Seq(S)
  PROVE  /\ p \o q \in Seq(S) /\ Len(p \o q) = Len(p) + Len(q)
         /\ \A i \in 1..Len(p) : (p \o q)[i] = p[i]
         /\ \A i \in 1..Len(q) : (p \o q)[Len(p) + i] = q[i]
<1> DEFINE r == p \o q
<1>1. /\ r \in Seq(S) /\ Len(r) = Len(p) + Len(q)
      /\ \A i \in 1..Len(p) + Len(q) : r[i] = IF i <= Len(p) THEN p[i] ELSE q[i - Len(p)]
  BY ConcatProperties
<1> HIDE DEF r
<1>2. Len(p) \in Nat /\ Len(q) \in Nat
  BY LenProperties
<1>3. \A i \in 1..Len(p) : r[i] = p[i]
  BY <1>1, <1>2
<1>4. \A i \in 1..Len(q) : r[Len(p) + i] = q[i]
  <2>1. TAKE i \in 1..Len(q)
  <2>2. Len(p) + i \in 1..Len(p) + Len(q) /\ ~ (Len(p) + i <= Len(p)) /\ (Len(p) + i) - Len(p) = i
    BY <1>2
  <2>3. QED
    BY <1>1, <2>2
<1>5. QED
  BY <1>1, <1>3, <1>4 DEF r

-----------------------------------------------------------------------------
(* DirectoryProjection: per key s1 published; s2 declared, s3 stages; per replica s4 phase, *)
(* s5 follows, s6 taken, s7 todo, s8 tx; per key s9 locked, s10 rows; s11 links, s12        *)
(* impacts; per user s13 derived; s14 gap, s15 failures.                                    *)

ProjectionInv == part = "projection" => Projection!Inv

LEMMA ProjectionFacts ==
  ASSUME Projection!Typed
  PROVE  /\ \A k \in Projection!Key : /\ s1[k] \in Seq(Projection!Roster(k) \cup {Void})
                                      /\ Len(s1[k]) \in Nat
         /\ DOMAIN s1 = Projection!Key /\ DOMAIN s10 = Projection!Key
         /\ s4 \in [Actors -> {"down", "reconciling", "watching"}]
         /\ s5 \in [Actors -> SUBSET Projection!Key]
         /\ s6 \in [Actors -> [Projection!Key -> Nat]]
         /\ s7 \in [Actors -> SUBSET Projection!Key]
         /\ s8 \in [Actors -> {Projection!Idle} \cup Projection!SinkCall]
         /\ s9 \in [Projection!Key -> Actors \cup {NoOne}]
         /\ \A k \in Projection!Key :
              s10[k] \in (IF k \in Group THEN Name ELSE Content) \cup {Void}
         /\ s11 \subseteq Group \X User
<1>1. Projection!TypeOK
  BY DEF Projection!Typed
<1>2. \A k \in Projection!Key : s1[k] \in Seq(Projection!Roster(k) \cup {Void})
  BY <1>1 DEF Projection!TypeOK
<1>3. \A k \in Projection!Key : Len(s1[k]) \in Nat
  BY <1>2, LenProperties
<1>4. QED
  BY <1>1, <1>2, <1>3 DEF Projection!Typed, Projection!TypeOK

\* A sink call is idle or a record of its key, its value and what it has read.
LEMMA CallFacts ==
  ASSUME Projection!Typed, NEW r \in Actors
  PROVE  /\ s8[r].at \in {"idle", "begun", "locked", "read"}
         /\ s8[r].at = "idle" => s8[r] = Projection!Idle
         /\ s8[r].at # "idle" => /\ s8[r] \in Projection!SinkCall
                                 /\ s8[r].key \in Projection!Key
                                 /\ s8[r].read \subseteq User \cup Group
<1>1. s8[r] \in {Projection!Idle} \cup Projection!SinkCall
  BY DEF Projection!Typed
<1>2. CASE s8[r] = Projection!Idle
  BY <1>2 DEF Projection!Idle
<1>3. CASE s8[r] \in Projection!SinkCall
  BY <1>3 DEF Projection!SinkCall
<1>4. QED
  BY <1>1, <1>2, <1>3

\* What a key's n-th value makes of its row.
LEMMA Images ==
  ASSUME Projection!Typed, NEW k \in Projection!Key, NEW n \in 0..Len(s1[k])
  PROVE  /\ Projection!At(k, n) \in Projection!Roster(k) \cup {Void}
         /\ Projection!Image(k, Projection!At(k, n)) \in Projection!Roster(k) \cup {Void}
         /\ Projection!Image(k, Projection!At(k, n)) \in Projection!Value
<1>1. s1[k] \in Seq(Projection!Roster(k) \cup {Void}) /\ Len(s1[k]) \in Nat
  BY ProjectionFacts
<1>2. n # 0 => s1[k][n] \in Projection!Roster(k) \cup {Void}
  BY <1>1, ElementOfSeq
<1>3. Projection!At(k, n) \in Projection!Roster(k) \cup {Void}
  BY <1>2 DEF Projection!At
<1>4. Projection!Image(k, Projection!At(k, n)) \in Projection!Roster(k) \cup {Void}
  BY <1>3 DEF Projection!Image
<1>5. Projection!Roster(k) \cup {Void} \subseteq Projection!Value
  BY DEF Projection!Value, Projection!Roster
<1>6. QED
  BY <1>3, <1>4, <1>5

LEMMA ProjectionInit == ProvedInit => ProjectionInv
<1> SUFFICES ASSUME ProvedInit, part = "projection" PROVE Projection!Inv
  BY DEF ProjectionInv
<1>1. Projection!Init
  BY DEF ProvedInit
<1>2. /\ s1 = [k \in Projection!Key |-> <<>>]
      /\ s4 = [r \in Actors |-> "down"] /\ s5 = [r \in Actors |-> {}]
      /\ s6 = [r \in Actors |-> [k \in Projection!Key |-> 0]] /\ s7 = [r \in Actors |-> {}]
      /\ s8 = [r \in Actors |-> Projection!Idle] /\ s10 = [k \in Projection!Key |-> Void]
      /\ s11 = {} /\ s12 = {} /\ s13 = [u \in User |-> {}] /\ s14 = {}
  BY <1>1 DEF Projection!Init
<1>3. \A k \in Projection!Key : s1[k] = <<>> /\ Len(s1[k]) = 0
                                /\ s1[k] \in Seq(Projection!Roster(k) \cup {Void})
  BY <1>2, EmptySeq
<1>4. Projection!Typed
  <2>1. Projection!TypeOK
    BY <1>1, <1>2, <1>3, ProjectionConstants DEF Projection!Init, Projection!TypeOK, Projection!Idle
  <2>2. QED
    BY <1>2, <2>1 DEF Projection!Typed
<1>5. \A r \in Actors : s8[r].at = "idle"
  BY <1>2 DEF Projection!Idle
<1>6. Projection!Consumes
  BY <1>2, <1>3, <1>5 DEF Projection!Consumes
<1>7. Projection!LockHeld /\ Projection!LinksHaveAGroup /\ Projection!MirroredOrOwed
  BY <1>2, <1>5 DEF Projection!LockHeld, Projection!LinksHaveAGroup, Projection!MirroredOrOwed,
                    Projection!Members
<1>8. Projection!DerivedOrTold
  BY <1>2 DEF Projection!DerivedOrTold, Projection!GroupsOf
<1>9. QED
  BY <1>4, <1>6, <1>7, <1>8 DEF Projection!Inv

\* What every replica but r is at is what it was at, its locks included.
AsideFrom(r) ==
  \A q \in Actors \ {r} :
    /\ s4'[q] = s4[q] /\ s5'[q] = s5[q] /\ s6'[q] = s6[q] /\ s7'[q] = s7[q] /\ s8'[q] = s8[q]
    /\ \A k \in Projection!Key : s9[k] = q => s9'[k] = q

\* What the invariant says of one replica's call.
Goes(r) ==
  /\ \A k \in Projection!Key : s6[r][k] <= Len(s1[k])
  /\ s7[r] \subseteq s5[r] /\ (s4[r] # "reconciling" => s7[r] = {})
  /\ s8[r].at # "idle" =>
       /\ s4[r] # "down" /\ s8[r].key \in s5[r]
       /\ s8[r].value = Projection!Image(s8[r].key, Projection!At(s8[r].key, s6[r][s8[r].key]))

Holds(r) ==
  /\ s8[r].at \in {"locked", "read"} => /\ s9[s8[r].key] = r
                                        /\ s8[r].value = Void => s10[s8[r].key] # Void
  /\ s8[r].at = "read" /\ s8[r].key \in Group => s8[r].read = Projection!Members(s8[r].key)

LEMMA ReplicaFacts ==
  ASSUME Projection!Inv
  PROVE  /\ Projection!Typed /\ Projection!Consumes /\ Projection!LockHeld
         /\ Projection!LinksHaveAGroup /\ Projection!MirroredOrOwed /\ Projection!DerivedOrTold
         /\ \A r \in Actors : Goes(r) /\ Holds(r)
BY DEF Projection!Inv, Projection!Consumes, Projection!LockHeld, Goes, Holds

\* A step of r that writes no row: what r owed is still owed, or was done.
LEMMA RowsStay ==
  ASSUME Projection!Inv, NEW r \in Actors, AsideFrom(r), Projection!Typed', Goes(r)', Holds(r)',
         UNCHANGED <<s1, s3, s10, s11, s12, s13>>,
         \A k \in Projection!Key \ s14' :
           Projection!Mirrors(k) \/ /\ k \notin s14
                                    /\ Projection!Owes(r, k) => Projection!Owes(r, k)'
                                    /\ k \in s5'[r] => k \in s5[r] \/ Projection!Owes(r, k)'
  PROVE  Projection!Inv'
<1>1. Projection!Consumes'
  <2> SUFFICES ASSUME NEW q \in Actors PROVE Goes(q)'
    BY DEF Projection!Consumes, Goes
  <2>1. CASE q # r
    BY <2>1, ReplicaFacts DEF AsideFrom, Goes, Projection!Image, Projection!At, Projection!KeepUser,
                          Projection!KeepAll
  <2>2. QED
    BY <2>1
<1>2. Projection!LockHeld'
  <2> SUFFICES ASSUME NEW q \in Actors PROVE Holds(q)'
    BY DEF Projection!LockHeld, Holds
  <2>1. CASE q # r
    <3>1. s8[q].at # "idle" => s8[q].key \in Projection!Key
      BY ReplicaFacts, CallFacts
    <3>2. QED
      BY <2>1, <3>1, ReplicaFacts DEF AsideFrom, Holds, Projection!Members
  <2>2. QED
    BY <2>1
<1>3. Projection!LinksHaveAGroup' /\ Projection!DerivedOrTold'
  BY ReplicaFacts DEF Projection!LinksHaveAGroup, Projection!DerivedOrTold, Projection!Members,
                  Projection!GroupsOf
<1>4. Projection!MirroredOrOwed'
  <2> SUFFICES ASSUME NEW k \in Projection!Key \ s14', NEW q \in Actors, k \in s5'[q]
               PROVE  Projection!Mirrors(k)' \/ \E p \in Actors : Projection!Owes(p, k)'
    BY DEF Projection!MirroredOrOwed
  <2>1. Projection!Mirrors(k)' <=> Projection!Mirrors(k)
    BY DEF Projection!Mirrors, Projection!Image, Projection!KeepUser, Projection!KeepAll,
           Projection!Last, Projection!At, Projection!RowOf, Projection!Members,
           Projection!MemberRows
  <2>2. \A p \in Actors \ {r} : Projection!Owes(p, k) => Projection!Owes(p, k)'
    BY DEF AsideFrom, Projection!Owes
  <2>3. k \in s5[q] \/ Projection!Owes(r, k)' \/ Projection!Mirrors(k)
    BY DEF AsideFrom
  <2>4. QED
    BY <2>1, <2>2, <2>3, ReplicaFacts DEF Projection!MirroredOrOwed
<1>5. QED
  BY <1>1, <1>2, <1>3, <1>4 DEF Projection!Inv

LEMMA ReconcileKeeps ==
  ASSUME Projection!Inv, NEW r \in Actors, Projection!Reconcile(r)
  PROVE  Projection!Inv'
<1>1. /\ s4[r] = "down" /\ s4' = [s4 EXCEPT ![r] = "reconciling"]
      /\ s5' = [s5 EXCEPT ![r] = Projection!Consumed]
      /\ s6' = [s6 EXCEPT ![r] = [k \in Projection!Key |-> Len(s1[k])]]
      /\ s7' = [s7 EXCEPT ![r] = Projection!Consumed]
      /\ s14' = s14 \cup (s5[r] \ Projection!Consumed)
      /\ UNCHANGED <<s1, s2, s3, s8, s9, s10, s11, s12, s13, s15>>
  BY DEF Projection!Reconcile, Projection!bucket, Projection!database, Projection!adopter
<1>2. Projection!Consumed \subseteq Projection!Key
  BY DEF Projection!Consumed, Projection!Key
<1>3. /\ s4'[r] = "reconciling" /\ s5'[r] = Projection!Consumed /\ s7'[r] = Projection!Consumed
      /\ s6'[r] = [k \in Projection!Key |-> Len(s1[k])] /\ s8[r].at = "idle" /\ s8' = s8
      /\ AsideFrom(r)
  BY <1>1, ProjectionFacts, ReplicaFacts DEF AsideFrom, Goes
<1>4. Projection!Typed'
  <2>1. [k \in Projection!Key |-> Len(s1[k])] \in [Projection!Key -> Nat]
    BY ProjectionFacts, ReplicaFacts
  <2>2. Projection!TypeOK'
    BY <1>1, <1>2, <2>1, ReplicaFacts, ProjectionFacts DEF Projection!Typed, Projection!TypeOK
  <2>3. QED
    BY <1>1, <2>2, ReplicaFacts DEF Projection!Typed
<1>5. Goes(r)' /\ Holds(r)'
  BY <1>1, <1>3, ProjectionFacts, ReplicaFacts DEF Goes, Holds
<1>6. ASSUME NEW k \in Projection!Key \ s14'
      PROVE  /\ k \notin s14
             /\ Projection!Owes(r, k) => Projection!Owes(r, k)'
             /\ k \in s5'[r] => k \in s5[r] \/ Projection!Owes(r, k)'
  BY <1>1, <1>3 DEF Projection!Owes
<1>7. QED
  BY <1>1, <1>3, <1>4, <1>5, <1>6, RowsStay

LEMMA WatchKeeps ==
  ASSUME Projection!Inv, NEW r \in Actors, Projection!Watch(r)
  PROVE  Projection!Inv'
<1>1. /\ s4[r] = "reconciling" /\ s8[r].at = "idle" /\ s7[r] = {}
      /\ s4' = [s4 EXCEPT ![r] = "watching"]
      /\ s5' = [s5 EXCEPT ![r] = Projection!Consumed]
      /\ s6' = [s6 EXCEPT ![r] = [k \in Projection!Key |-> Len(s1[k])]]
      /\ s14' = s14 \cup (s5[r] \ Projection!Consumed)
                \cup {k \in Projection!Consumed : k \notin s5[r] \/ s6[r][k] < Len(s1[k])}
      /\ UNCHANGED <<s1, s2, s3, s7, s8, s9, s10, s11, s12, s13, s15>>
  BY DEF Projection!Watch, Projection!bucket, Projection!database, Projection!adopter
<1>2. Projection!Consumed \subseteq Projection!Key
  BY DEF Projection!Consumed, Projection!Key
<1>3. /\ s4'[r] = "watching" /\ s5'[r] = Projection!Consumed
      /\ s6'[r] = [k \in Projection!Key |-> Len(s1[k])]
      /\ AsideFrom(r)
  BY <1>1, ProjectionFacts, ReplicaFacts DEF AsideFrom
<1>4. Projection!Typed'
  <2>1. [k \in Projection!Key |-> Len(s1[k])] \in [Projection!Key -> Nat]
    BY ProjectionFacts, ReplicaFacts
  <2>2. Projection!TypeOK'
    BY <1>1, <1>2, <2>1, ReplicaFacts, ProjectionFacts DEF Projection!Typed, Projection!TypeOK
  <2>3. QED
    BY <1>1, <2>2, ReplicaFacts DEF Projection!Typed
<1>5. Goes(r)' /\ Holds(r)'
  BY <1>1, <1>3, ProjectionFacts, ReplicaFacts DEF Goes, Holds
<1>6. ASSUME NEW k \in Projection!Key \ s14'
      PROVE  /\ k \notin s14
             /\ Projection!Owes(r, k) => Projection!Owes(r, k)'
             /\ k \in s5'[r] => k \in s5[r] \/ Projection!Owes(r, k)'
  BY <1>1, <1>3 DEF Projection!Owes
<1>7. QED
  BY <1>1, <1>3, <1>4, <1>5, <1>6, RowsStay

LEMMA FailsKeeps ==
  ASSUME Projection!Inv, NEW r \in Actors, Projection!Fails(r)
  PROVE  Projection!Inv'
<1>1. /\ s15 < Faults /\ s15' = s15 + 1
      /\ s4' = [s4 EXCEPT ![r] = "down"] /\ s8' = [s8 EXCEPT ![r] = Projection!Idle]
      /\ s9' = [k \in Projection!Key |-> IF s9[k] = r THEN NoOne ELSE s9[k]]
      /\ s7' = [s7 EXCEPT ![r] = {}]
      /\ UNCHANGED <<s1, s2, s3, s5, s6, s10, s11, s12, s13, s14>>
  BY DEF Projection!Fails, Projection!Free, Projection!bucket, Projection!database,
         Projection!adopter
<1>2. /\ s4'[r] = "down" /\ s7'[r] = {} /\ s8'[r] = Projection!Idle /\ s8'[r].at = "idle"
      /\ AsideFrom(r)
  BY <1>1, ProjectionFacts, ReplicaFacts DEF AsideFrom, Projection!Idle
<1>3. Projection!Typed'
  <2>1. s15' \in 0..Faults
    BY <1>1, ReplicaFacts, ProjectionConstants DEF Projection!Typed, Projection!TypeOK
  <2>2. s8' \in [Actors -> {Projection!Idle} \cup Projection!SinkCall]
    BY <1>1, ProjectionFacts, ReplicaFacts
  <2>3. \A q \in Actors : s8'[q].at \in {"idle", "begun", "locked", "read"}
    BY <1>2, ReplicaFacts, CallFacts DEF AsideFrom
  <2>4. Projection!TypeOK'
    BY <1>1, <2>1, <2>3, ReplicaFacts, ProjectionFacts DEF Projection!Typed, Projection!TypeOK
  <2>5. QED
    BY <1>1, <2>2, <2>4, ReplicaFacts DEF Projection!Typed, Projection!Key, Projection!SinkCall,
      Projection!Value, Projection!Roster
<1>4. Goes(r)' /\ Holds(r)'
  BY <1>1, <1>2, ProjectionFacts, ReplicaFacts DEF Goes, Holds
<1>5. ASSUME NEW k \in Projection!Key \ s14'
      PROVE  /\ k \notin s14
             /\ Projection!Owes(r, k) => Projection!Owes(r, k)'
             /\ k \in s5'[r] => k \in s5[r] \/ Projection!Owes(r, k)'
  BY <1>1, <1>2, ReplicaFacts DEF Projection!Owes, Goes
<1>6. QED
  BY <1>1, <1>2, <1>3, <1>4, <1>5, RowsStay

\* The start of a sink call of r, with what it found of a key.
LEMMA SinkCallKeeps ==
  ASSUME Projection!Inv, NEW r \in Actors, NEW k \in Projection!Key, NEW n \in 0..Len(s1[k]),
         Projection!Call(r, k, n), s8[r].at = "idle", s4[r] # "down", k \in s5[r],
         s6' = [s6 EXCEPT ![r][k] = n], s7' = [s7 EXCEPT ![r] = s7'[r]], s7'[r] \subseteq s7[r],
         s7[r] \subseteq s7'[r] \cup {k},
         UNCHANGED <<s1, s2, s3, s4, s5, s9, s10, s11, s12, s13, s14, s15>>
  PROVE  Projection!Inv'
<1> DEFINE t == [at |-> "begun", key |-> k, value |-> Projection!Image(k, Projection!At(k, n)),
                 read |-> {}]
<1>1. s8' = [s8 EXCEPT ![r] = t]
  BY DEF Projection!Call
<1>2. /\ t \in Projection!SinkCall /\ t.at = "begun" /\ t.key = k /\ t \in Projection!SinkCall
      /\ t.value = Projection!Image(k, Projection!At(k, n))
  BY ReplicaFacts, Images DEF Projection!SinkCall
<1> HIDE DEF t
<1>3. /\ s8'[r] = t /\ s6'[r] = [s6[r] EXCEPT ![k] = n] /\ s6'[r][k] = n
      /\ \A j \in Projection!Key \ {k} : s6'[r][j] = s6[r][j]
      /\ AsideFrom(r)
  BY <1>1, ProjectionFacts, ReplicaFacts DEF AsideFrom
<1>4. Projection!Typed'
  <2>1. s6' \in [Actors -> [Projection!Key -> Nat]]
    <3>1. Len(s1[k]) \in Nat /\ n \in Nat
      BY ReplicaFacts, ProjectionFacts
    <3>2. QED
      BY <3>1, ReplicaFacts, ProjectionFacts
  <2>2. s8' \in [Actors -> {Projection!Idle} \cup Projection!SinkCall]
    BY <1>1, <1>2, ProjectionFacts, ReplicaFacts
  <2>3. \A q \in Actors : s8'[q].at \in {"idle", "begun", "locked", "read"}
    BY <1>2, <1>3, ReplicaFacts, CallFacts DEF AsideFrom
  <2>4. s7' \in [Actors -> SUBSET Projection!Key]
    BY ReplicaFacts, ProjectionFacts
  <2>5. Projection!TypeOK'
    BY <2>1, <2>3, <2>4, ReplicaFacts, ProjectionFacts DEF Projection!Typed, Projection!TypeOK
  <2>6. QED
    BY <2>2, <2>5, ReplicaFacts DEF Projection!Typed
<1>5. Goes(r)'
  <2>1. Len(s1[k]) \in Nat /\ n <= Len(s1[k])
    BY ReplicaFacts, ProjectionFacts
  <2>2. \A j \in Projection!Key : s6'[r][j] <= Len(s1[j])
    BY <1>3, <2>1, ReplicaFacts DEF Goes
  <2>3. s7'[r] \subseteq s5[r] /\ (s4[r] # "reconciling" => s7'[r] = {})
    BY ReplicaFacts DEF Goes
  <2>4. s8'[r].key = k /\ s8'[r].value = Projection!Image(k, Projection!At(k, n))
    BY <1>2, <1>3
  <2>5. QED
    BY <1>3, <2>2, <2>3, <2>4 DEF Goes, Projection!Image, Projection!At, Projection!KeepUser,
                                 Projection!KeepAll
<1>6. Holds(r)'
  BY <1>2, <1>3 DEF Holds
<1>7. ASSUME NEW j \in Projection!Key \ s14'
      PROVE  /\ j \notin s14
             /\ Projection!Owes(r, j) => Projection!Owes(r, j)'
             /\ j \in s5'[r] => j \in s5[r] \/ Projection!Owes(r, j)'
  BY <1>2, <1>3 DEF Projection!Owes
<1>8. QED
  BY <1>3, <1>4, <1>5, <1>6, <1>7, RowsStay

\* A key the bootstrap settles without a call has no row, and no links.
LEMMA BootstrapKeeps ==
  ASSUME Projection!Inv, NEW r \in Actors, NEW k \in Projection!Key, NEW n \in 0..Len(s1[k]),
         Projection!Bootstrap(r, k, n)
  PROVE  Projection!Inv'
<1>1. /\ s4[r] = "reconciling" /\ s8[r].at = "idle" /\ k \in s7[r] /\ n >= s6[r][k]
      /\ s6' = [s6 EXCEPT ![r][k] = n] /\ s7' = [s7 EXCEPT ![r] = s7[r] \ {k}]
      /\ UNCHANGED <<s1, s2, s3, s4, s5, s9, s10, s11, s12, s13, s15>>
  BY DEF Projection!Bootstrap, Projection!Scanned, Projection!bucket, Projection!database,
         Projection!adopter
<1>2. k \in s5[r] /\ s7'[r] = s7[r] \ {k}
  BY <1>1, ProjectionFacts, ReplicaFacts DEF Goes
<1>3. CASE Projection!Call(r, k, n) /\ UNCHANGED s14
  <2>1. /\ s4[r] # "down" /\ s7' = [s7 EXCEPT ![r] = s7'[r]] /\ s7'[r] \subseteq s7[r]
        /\ s7[r] \subseteq s7'[r] \cup {k}
    BY <1>1, <1>2
  <2>2. QED
    BY <1>1, <1>2, <1>3, <2>1, SinkCallKeeps
<1>4. CASE /\ Projection!Image(k, Projection!At(k, n)) = Void
           /\ ~Projection!Orphan(k, Projection!At(k, n))
           /\ s14' = IF Projection!Image(k, Projection!Last(k)) = Void THEN s14 \ {k} ELSE s14
           /\ UNCHANGED s8
  <2>1. /\ s6'[r] = [s6[r] EXCEPT ![k] = n] /\ s6'[r][k] = n
        /\ \A j \in Projection!Key \ {k} : s6'[r][j] = s6[r][j]
        /\ AsideFrom(r)
    BY <1>1, <1>4, ProjectionFacts, ReplicaFacts DEF AsideFrom
  <2>2. n \in Nat /\ n <= Len(s1[k]) /\ Len(s1[k]) \in Nat
    BY ReplicaFacts, ProjectionFacts
  <2>3. Projection!Typed'
    <3>1. s6' \in [Actors -> [Projection!Key -> Nat]]
      BY <1>1, <2>2, ReplicaFacts, ProjectionFacts
    <3>2. Projection!TypeOK'
      BY <1>1, <1>4, <3>1, ReplicaFacts, ProjectionFacts DEF Projection!Typed, Projection!TypeOK
    <3>3. QED
      BY <1>1, <1>4, <3>2, ReplicaFacts DEF Projection!Typed
  <2>4. Goes(r)' /\ Holds(r)'
    BY <1>1, <1>2, <1>4, <2>1, <2>2, ReplicaFacts DEF Goes, Holds
  <2>5. s10[k] = Void
    BY <1>4, ReplicaFacts
       DEF Projection!Orphan, Projection!KnownUsers, Projection!KnownGroups,
           Projection!KnownAccounts, Projection!Key
  <2>6. Projection!Image(k, Projection!Last(k)) = Void => Projection!Mirrors(k)
    BY <2>5, ReplicaFacts DEF Projection!Mirrors, Projection!RowOf, Projection!LinksHaveAGroup
  <2>7. ASSUME NEW j \in Projection!Key \ s14', ~Projection!Mirrors(j)
        PROVE  /\ j \notin s14
               /\ Projection!Owes(r, j) => Projection!Owes(r, j)'
               /\ j \in s5'[r] => j \in s5[r] \/ Projection!Owes(r, j)'
    <3>1. j = k => Projection!Image(k, Projection!Last(k)) # Void
      BY <2>6, <2>7
    <3>2. j \notin s14 /\ (j = k => n # Len(s1[k]))
      BY <1>4, <3>1 DEF Projection!Last
    <3>3. j = k => n < Len(s1[k])
      BY <2>2, <3>2
    <3>4. QED
      BY <1>1, <1>2, <1>4, <2>1, <3>2, <3>3 DEF Projection!Owes
  <2>8. QED
    BY <1>1, <2>1, <2>3, <2>4, <2>7, RowsStay
<1>5. QED
  BY <1>3, <1>4 DEF Projection!Bootstrap

LEMMA FollowKeeps ==
  ASSUME Projection!Inv, NEW r \in Actors, NEW k \in Projection!Key, NEW n \in 0..Len(s1[k]),
         Projection!Follow(r, k, n)
  PROVE  Projection!Inv'
<1>1. /\ s4[r] = "watching" /\ s8[r].at = "idle" /\ k \in s5[r] /\ Projection!Call(r, k, n)
      /\ s6' = [s6 EXCEPT ![r][k] = n]
      /\ UNCHANGED <<s1, s2, s3, s4, s5, s7, s9, s10, s11, s12, s13, s14, s15>>
  BY DEF Projection!Follow, Projection!bucket, Projection!database, Projection!adopter
<1>2. s7' = [s7 EXCEPT ![r] = s7'[r]]
  BY <1>1, ProjectionFacts, ReplicaFacts
<1>3. QED
  BY <1>1, <1>2, SinkCallKeeps

\* The end of a call that leaves its row as the value wants it, or that read an older one.
LEMMA SettledRow ==
  ASSUME Projection!Inv, NEW r \in Actors, s8[r].at # "idle"
  PROVE  \/ s8[r].value = Projection!Image(s8[r].key, Projection!Last(s8[r].key))
         \/ s8[r].key \in s5[r] /\ s6[r][s8[r].key] < Len(s1[s8[r].key])
<1> DEFINE k == s8[r].key
<1>1. /\ k \in Projection!Key /\ k \in s5[r] /\ s6[r][k] <= Len(s1[k])
      /\ s8[r].value = Projection!Image(k, Projection!At(k, s6[r][k]))
      /\ s6[r][k] \in Nat /\ Len(s1[k]) \in Nat
  BY ReplicaFacts, CallFacts, ProjectionFacts DEF Goes
<1>2. QED
  BY <1>1 DEF Projection!Last

\* A step that only takes a call further.
LEMMA CallGoesOn ==
  ASSUME Projection!Inv, NEW r \in Actors, NEW t, s8' = [s8 EXCEPT ![r] = t],
         t \in Projection!SinkCall, s8[r].at # "idle", t.key = s8[r].key, t.value = s8[r].value,
         s9' \in [Projection!Key -> Actors \cup {NoOne}],
         \A q \in Actors \ {r}, k \in Projection!Key : s9[k] = q => s9'[k] = q,
         t.at \in {"locked", "read"} => /\ s9'[t.key] = r
                                        /\ t.value = Void => s10[t.key] # Void,
         t.at = "read" /\ t.key \in Group => t.read = Projection!Members(t.key),
         UNCHANGED <<s1, s2, s3, s4, s5, s6, s7, s10, s11, s12, s13, s14, s15>>
  PROVE  Projection!Inv'
<1>1. s8'[r] = t /\ AsideFrom(r) /\ t.at \in {"begun", "locked", "read"}
  BY ProjectionFacts, ReplicaFacts DEF AsideFrom, Projection!SinkCall
<1>2. Projection!Typed'
  <2>1. s8' \in [Actors -> {Projection!Idle} \cup Projection!SinkCall]
    BY ProjectionFacts, ReplicaFacts
  <2>2. \A q \in Actors : s8'[q].at \in {"idle", "begun", "locked", "read"}
    BY <1>1, ReplicaFacts, CallFacts DEF AsideFrom
  <2>3. Projection!TypeOK'
    BY <2>2, ReplicaFacts, ProjectionFacts DEF Projection!Typed, Projection!TypeOK
  <2>4. QED
    BY <2>1, <2>3, ReplicaFacts DEF Projection!Typed
<1>3. Goes(r)'
  BY <1>1, ReplicaFacts DEF Goes, Projection!Image, Projection!At, Projection!KeepUser,
                        Projection!KeepAll
<1>4. Holds(r)'
  BY <1>1 DEF Holds, Projection!Members
<1>5. ASSUME NEW j \in Projection!Key \ s14'
      PROVE  /\ j \notin s14
             /\ Projection!Owes(r, j) => Projection!Owes(r, j)'
             /\ j \in s5'[r] => j \in s5[r] \/ Projection!Owes(r, j)'
  BY <1>1 DEF Projection!Owes
<1>6. QED
  BY <1>1, <1>2, <1>3, <1>4, <1>5, RowsStay

LEMMA FirstKeeps ==
  ASSUME Projection!Inv, NEW r \in Actors, Projection!First(r)
  PROVE  Projection!Inv'
<1> DEFINE k == s8[r].key
           t == [s8[r] EXCEPT !.at = "locked"]
<1>1. /\ s8[r].at = "begun" /\ ~Projection!Absent(r) /\ s9[k] = NoOne
      /\ s9' = [s9 EXCEPT ![k] = r] /\ s8' = [s8 EXCEPT ![r].at = "locked"]
      /\ UNCHANGED <<s1, s2, s3, s4, s5, s6, s7, s10, s11, s12, s13, s14, s15>>
  BY DEF Projection!First, Projection!Lock, Projection!bucket, Projection!replica,
         Projection!database, Projection!adopter
<1>2. s8[r] \in Projection!SinkCall /\ k \in Projection!Key
  BY <1>1, CallFacts, ReplicaFacts
<1>3. /\ t \in Projection!SinkCall /\ t.at = "locked" /\ t.key = k /\ t.value = s8[r].value
      /\ s8' = [s8 EXCEPT ![r] = t]
  BY <1>1, <1>2 DEF Projection!SinkCall
<1>4. s9' \in [Projection!Key -> Actors \cup {NoOne}] /\ s9'[k] = r
      /\ \A q \in Actors \ {r}, j \in Projection!Key : s9[j] = q => s9'[j] = q
  BY <1>1, <1>2, ReplicaFacts, ProjectionFacts, ProjectionConstants
<1>5. s8[r].value = Void => s10[k] # Void
  BY <1>1 DEF Projection!Absent, Projection!Retracts
<1> HIDE DEF t, k
<1>6. t.at \in {"locked", "read"} => s9'[t.key] = r /\ (t.value = Void => s10[t.key] # Void)
  BY <1>3, <1>4, <1>5
<1>7. QED
  BY <1>1, <1>3, <1>4, <1>6, CallGoesOn, ZenonT(40) DEF k

LEMMA ReadLinksKeeps ==
  ASSUME Projection!Inv, NEW r \in Actors, Projection!ReadLinks(r)
  PROVE  Projection!Inv'
<1> DEFINE k == s8[r].key
           found == IF k \in Group THEN Projection!Members(k)
                    ELSE IF k \in User /\ Projection!Retracts(r) THEN Projection!GroupsOf(k)
                    ELSE {}
           t == [s8[r] EXCEPT !.at = "read", !.read = found]
<1>1. /\ s8[r].at = "locked" /\ s8' = [s8 EXCEPT ![r].at = "read", ![r].read = found]
      /\ UNCHANGED <<s1, s2, s3, s4, s5, s6, s7, s9, s10, s11, s12, s13, s14, s15>>
  BY DEF Projection!ReadLinks, Projection!bucket, Projection!replica, Projection!database,
         Projection!adopter
<1>2. s8[r] \in Projection!SinkCall /\ k \in Projection!Key
  BY <1>1, CallFacts, ReplicaFacts
<1>3. found \subseteq User \cup Group /\ (k \in Group => found = Projection!Members(k))
  BY DEF Projection!Members, Projection!GroupsOf
<1> HIDE DEF found
<1>4. /\ t \in Projection!SinkCall /\ t.at = "read" /\ t.key = k /\ t.value = s8[r].value
      /\ t.read = found /\ s8' = [s8 EXCEPT ![r] = t]
  BY <1>1, <1>2, <1>3 DEF Projection!SinkCall
<1>5. s9[k] = r /\ (s8[r].value = Void => s10[k] # Void)
  BY <1>1, ReplicaFacts DEF Holds
<1> HIDE DEF t, k
<1>6. /\ t.at \in {"locked", "read"} => s9'[t.key] = r /\ (t.value = Void => s10[t.key] # Void)
      /\ t.at = "read" /\ t.key \in Group => t.read = Projection!Members(t.key)
  BY <1>1, <1>3, <1>4, <1>5
<1>7. QED
  BY <1>1, <1>4, <1>6, ReplicaFacts, ProjectionFacts, CallGoesOn DEF k

LEMMA NothingToRetractKeeps ==
  ASSUME Projection!Inv, NEW r \in Actors, Projection!NothingToRetract(r)
  PROVE  Projection!Inv'
<1> DEFINE k == s8[r].key
<1>1. /\ s8[r].at = "begun" /\ s8[r].value = Void /\ s10[k] = Void
      /\ s8' = [s8 EXCEPT ![r] = Projection!Idle]
      /\ s14' = IF s8[r].value = Projection!Image(k, Projection!Last(k)) THEN s14 \ {k} ELSE s14
      /\ UNCHANGED <<s1, s2, s3, s4, s5, s6, s7, s9, s10, s11, s12, s13, s15>>
  BY DEF Projection!NothingToRetract, Projection!Absent, Projection!Retracts, Projection!Finish,
         Projection!bucket, Projection!replica, Projection!database, Projection!adopter
<1>2. s8'[r] = Projection!Idle /\ s8'[r].at = "idle" /\ AsideFrom(r) /\ k \in Projection!Key
  BY <1>1, ProjectionFacts, ReplicaFacts, CallFacts DEF AsideFrom, Projection!Idle
<1>3. Projection!Typed'
  <2>1. s8' \in [Actors -> {Projection!Idle} \cup Projection!SinkCall]
    BY <1>1, ProjectionFacts, ReplicaFacts
  <2>2. \A q \in Actors : s8'[q].at \in {"idle", "begun", "locked", "read"}
    BY <1>2, ReplicaFacts, CallFacts DEF AsideFrom
  <2>3. Projection!TypeOK'
    BY <1>1, <2>2, ReplicaFacts, ProjectionFacts DEF Projection!Typed, Projection!TypeOK
  <2>4. QED
    BY <1>1, <2>1, <2>3, ReplicaFacts DEF Projection!Typed
<1>4. Goes(r)' /\ Holds(r)'
  BY <1>1, <1>2, ReplicaFacts DEF Goes, Holds
<1>5. s8[r].value = Projection!Image(k, Projection!Last(k)) => Projection!Mirrors(k)
  BY <1>1, ReplicaFacts DEF Projection!Mirrors, Projection!RowOf, Projection!LinksHaveAGroup
<1>6. \/ s8[r].value = Projection!Image(k, Projection!Last(k))
      \/ k \in s5[r] /\ s6[r][k] < Len(s1[k])
  BY <1>1, SettledRow
<1>7. ASSUME NEW j \in Projection!Key \ s14', ~Projection!Mirrors(j)
      PROVE  /\ j \notin s14
             /\ Projection!Owes(r, j) => Projection!Owes(r, j)'
             /\ j \in s5'[r] => j \in s5[r] \/ Projection!Owes(r, j)'
  BY <1>1, <1>2, <1>5, <1>6, <1>7 DEF Projection!Owes
<1>8. QED
  BY <1>1, <1>2, <1>3, <1>4, <1>7, RowsStay

\* What a sink makes of the row and the links of its key, whatever the kind.
LEMMA ResultFacts ==
  ASSUME Projection!Inv, NEW r \in Actors, s8[r].at # "idle",
         s8[r].key \in Group => \/ s8[r].value = Void
                                \/ s8[r].read = Projection!Members(s8[r].key)
  PROVE  LET k == s8[r].key
             v == s8[r].value
             w == Projection!Result(r) IN
         /\ w.row = Projection!RowOf(k, v)
         /\ w.row \in (IF k \in Group THEN Name ELSE Content) \cup {Void}
         /\ w.links \subseteq Group \X User /\ w.impacts \subseteq Projection!Key
         /\ k \notin Group => w.links = s11
         /\ \A g \in Group \ {k}, u \in User : <<g, u>> \in w.links <=> <<g, u>> \in s11
         /\ k \in Group => \A u \in User : <<k, u>> \in w.links <=> v # Void /\ u \in v.members
<1> DEFINE k == s8[r].key
           v == s8[r].value
           w == Projection!Result(r)
<1>1. /\ k \in Projection!Key /\ s8[r].read \subseteq User \cup Group
      /\ v \in Projection!Roster(k) \cup {Void}
  <2>1. k \in Projection!Key /\ s8[r].read \subseteq User \cup Group
    BY ReplicaFacts, CallFacts
  <2>2. v = Projection!Image(k, Projection!At(k, s6[r][k])) /\ s6[r][k] \in 0..Len(s1[k])
    BY <2>1, ReplicaFacts, ProjectionFacts DEF Goes
  <2>3. QED
    BY <2>1, <2>2, ReplicaFacts, Images
<1>2. /\ k \in Group => v = Void \/ (v.name \in Name /\ v.members \subseteq User /\ v # Void)
      /\ k \notin Group => v \in Content \cup {Void}
  BY <1>1, ProjectionConstants DEF Projection!Roster
<1>3. s11 \subseteq Group \X User
  BY ReplicaFacts, ProjectionFacts
<1>4. CASE k \in User \cup Account
  <2>1. k \notin Group
    BY <1>4, ProjectionConstants
  <2>2. /\ w.row = v /\ w.links = s11 /\ w.impacts \subseteq {k} \cup s8[r].read
    BY <1>4, ProjectionConstants
       DEF Projection!Result, Projection!UserProject, Projection!UserRetract,
           Projection!AccountProject, Projection!AccountRetract, Projection!Write,
           Projection!Retracts
  <2>3. {k} \cup s8[r].read \subseteq Projection!Key
    BY <1>1 DEF Projection!Key
  <2>4. QED
    BY <1>2, <1>3, <2>1, <2>2, <2>3 DEF Projection!RowOf
<1>5. CASE k \in Group /\ v = Void
  <2>1. w = Projection!GroupRetract(r)
    BY <1>5, ProjectionConstants DEF Projection!Result, Projection!Retracts
  <2>2. w.row = Void /\ w.impacts = {k} \cup s8[r].read /\ w.links = {l \in s11 : l[1] # k}
    BY <2>1 DEF Projection!GroupRetract, Projection!Write, Projection!WithoutGroup
  <2>3. {k} \cup s8[r].read \subseteq Projection!Key
    BY <1>1 DEF Projection!Key
  <2>4. QED
    BY <1>3, <1>5, <2>2, <2>3 DEF Projection!RowOf
<1>6. CASE k \in Group /\ v # Void
  <2>1. w = Projection!GroupProject(r)
    BY <1>6, ProjectionConstants DEF Projection!Result, Projection!Retracts
  <2>2. /\ w.row = v.name /\ w.links = Projection!Rewritten(r)
        /\ w.impacts \subseteq {k} \cup s8[r].read
    BY <1>6, <2>1 DEF Projection!GroupProject, Projection!Write, Projection!RowOf,
                      Projection!Removed
  <2>3. {k} \cup s8[r].read \subseteq Projection!Key
    BY <1>1 DEF Projection!Key
  <2>4. \A u \in User : u \in s8[r].read <=> <<k, u>> \in s11
    BY <1>6 DEF Projection!Members
  <2>5. v.members \subseteq User /\ s8[r].read \subseteq User
    BY <1>2, <1>6 DEF Projection!Members
  <2>6. CASE ~Projection!Moved(r)
    BY <1>2, <1>3, <1>6, <2>2, <2>3, <2>4, <2>6
       DEF Projection!Moved, Projection!MemberRows, Projection!Rewritten, Projection!RowOf
  <2>7. CASE Projection!Moved(r)
    <3>1. w.links = (s11 \ {<<k, u>> : u \in s8[r].read \ v.members})
                    \cup {<<k, u>> : u \in v.members}
      BY <2>2, <2>7 DEF Projection!Rewritten, Projection!Removed, Projection!MemberRows
    <3>2. QED
      BY <1>2, <1>3, <1>6, <2>2, <2>3, <2>4, <2>5, <3>1 DEF Projection!RowOf
  <2>8. QED
    BY <2>6, <2>7
<1>7. QED
  BY <1>1, <1>4, <1>5, <1>6 DEF Projection!Key

\* Whose groups a write changes is told, or is now in a group that is.
LEMMA ImpactFacts ==
  ASSUME Projection!Inv, NEW r \in Actors, s8[r].at # "idle", s8[r].key \in Group,
         s8[r].read = Projection!Members(s8[r].key)
  PROVE  LET k == s8[r].key
             w == Projection!Result(r) IN
         \A u \in User : /\ <<k, u>> \in s11 /\ <<k, u>> \notin w.links => u \in w.impacts
                         /\ <<k, u>> \notin s11 /\ <<k, u>> \in w.links => k \in w.impacts
<1> DEFINE k == s8[r].key
           v == s8[r].value
           w == Projection!Result(r)
<1>1. \A u \in User : u \in s8[r].read <=> <<k, u>> \in s11
  BY DEF Projection!Members
<1>2. \A u \in User : <<k, u>> \in w.links <=> v # Void /\ u \in v.members
  BY ResultFacts
<1>3. CASE v = Void
  <2>1. w = Projection!GroupRetract(r)
    BY <1>3, ProjectionConstants DEF Projection!Result, Projection!Retracts
  <2>2. QED
    BY <1>1, <1>2, <1>3, <2>1 DEF Projection!GroupRetract, Projection!Write
<1>4. CASE v # Void
  <2>1. w = Projection!GroupProject(r)
    BY <1>4, ProjectionConstants DEF Projection!Result, Projection!Retracts
  <2>2. CASE ~Projection!Moved(r)
    BY <1>1, <1>2, <1>4, <2>2 DEF Projection!Moved, Projection!MemberRows
  <2>3. CASE Projection!Moved(r)
    <3>1. w.impacts = {k} \cup (s8[r].read \ v.members)
      BY <2>1, <2>3 DEF Projection!GroupProject, Projection!Write, Projection!Removed,
                        Projection!MemberRows
    <3>2. QED
      BY <1>1, <1>2, <1>4, <3>1
  <2>4. QED
    BY <2>2, <2>3
<1>5. QED
  BY <1>3, <1>4

\* A sink's write: nobody else is at the row, and its links are those that were read.
LEMMA SinkWriteKeeps ==
  ASSUME Projection!Inv, NEW r \in Actors, s8[r].at # "idle",
         NEW k, k = s8[r].key, NEW v, v = s8[r].value, NEW w, w = Projection!Result(r),
         Projection!Apply(r), Projection!Finish(r),
         k \in Group => v = Void \/ s8[r].read = Projection!Members(k),
         s3 /\ k \in Group => s8[r].read = Projection!Members(k),
         s12' = IF s3 THEN s12 \cup w.impacts ELSE s12,
         s9' \in [Projection!Key -> Actors \cup {NoOne}],
         \A q \in Actors \ {r} : /\ s9[k] # q
                                 /\ \A j \in Projection!Key : s9[j] = q => s9'[j] = q,
         UNCHANGED <<s1, s2, s3, s4, s5, s6, s7, s13, s15>>
  PROVE  Projection!Inv'
<1>1. /\ s10' = [s10 EXCEPT ![k] = w.row] /\ s11' = w.links
      /\ s8' = [s8 EXCEPT ![r] = Projection!Idle]
      /\ s14' = IF v = Projection!Image(k, Projection!Last(k)) THEN s14 \ {k} ELSE s14
  BY DEF Projection!Apply, Projection!Finish
<1>2. /\ w.row = Projection!RowOf(k, v)
      /\ w.row \in (IF k \in Group THEN Name ELSE Content) \cup {Void}
      /\ w.links \subseteq Group \X User /\ w.impacts \subseteq Projection!Key
      /\ k \notin Group => w.links = s11
      /\ \A g \in Group \ {k}, u \in User : <<g, u>> \in w.links <=> <<g, u>> \in s11
      /\ k \in Group => \A u \in User : <<k, u>> \in w.links <=> v # Void /\ u \in v.members
  BY ResultFacts
<1>3. k \in Projection!Key /\ (k \in Group /\ v # Void => v.members \subseteq User /\ v.name # Void)
  <2>1. k \in Projection!Key
    BY ReplicaFacts, CallFacts
  <2>2. v = Projection!Image(k, Projection!At(k, s6[r][k])) /\ s6[r][k] \in 0..Len(s1[k])
    BY <2>1, ReplicaFacts, ProjectionFacts DEF Goes
  <2>3. v \in Projection!Roster(k) \cup {Void}
    BY <2>1, <2>2, ReplicaFacts, Images
  <2>4. QED
    BY <2>1, <2>3, ProjectionConstants DEF Projection!Roster
<1>4. \/ v = Projection!Image(k, Projection!Last(k))
      \/ k \in s5[r] /\ s6[r][k] < Len(s1[k])
  BY SettledRow
<1>5. s3 /\ k \in Group =>
        \A u \in User : /\ <<k, u>> \in s11 /\ <<k, u>> \notin w.links => u \in w.impacts
                        /\ <<k, u>> \notin s11 /\ <<k, u>> \in w.links => k \in w.impacts
  BY ImpactFacts
<1>6. /\ s10'[k] = w.row /\ \A j \in Projection!Key \ {k} : s10'[j] = s10[j]
      /\ \A g \in Group \ {k} : Projection!Members(g)' = Projection!Members(g)
      /\ k \in Group => Projection!Members(k)' = IF v = Void THEN {} ELSE v.members
  <2>1. s10'[k] = w.row /\ \A j \in Projection!Key \ {k} : s10'[j] = s10[j]
    BY <1>1, <1>3, ReplicaFacts, ProjectionFacts
  <2>2. \A g \in Group \ {k} : Projection!Members(g)' = Projection!Members(g)
    BY <1>1, <1>2 DEF Projection!Members
  <2>3. k \in Group => Projection!Members(k)' = IF v = Void THEN {} ELSE v.members
    BY <1>1, <1>2, <1>3 DEF Projection!Members
  <2>4. QED
    BY <2>1, <2>2, <2>3
<1>7. s8'[r] = Projection!Idle /\ s8'[r].at = "idle" /\ \A q \in Actors \ {r} : s8'[q] = s8[q]
  BY <1>1, ReplicaFacts, ProjectionFacts DEF Projection!Idle
<1>8. Projection!Typed'
  <2>1. s8' \in [Actors -> {Projection!Idle} \cup Projection!SinkCall]
    BY <1>1, ProjectionFacts, ReplicaFacts
  <2>2. \A q \in Actors : s8'[q].at \in {"idle", "begun", "locked", "read"}
    BY <1>7, ReplicaFacts, CallFacts
  <2>3. \A j \in Projection!Key : s10'[j] \in (IF j \in Group THEN Name ELSE Content) \cup {Void}
    <3>1. s10'[k] \in (IF k \in Group THEN Name ELSE Content) \cup {Void}
      BY <1>2, <1>6
    <3>2. ASSUME NEW j \in Projection!Key \ {k}
          PROVE  s10'[j] \in (IF j \in Group THEN Name ELSE Content) \cup {Void}
      <4>1. s10[j] \in (IF j \in Group THEN Name ELSE Content) \cup {Void}
        BY ReplicaFacts, ProjectionFacts
      <4>2. QED
        BY <1>6, <4>1
    <3>3. QED
      BY <3>1, <3>2
  <2>4. s11' \subseteq Group \X User /\ s12' \subseteq Projection!Key /\ s14' \subseteq Projection!Key
    BY <1>1, <1>2, ReplicaFacts DEF Projection!Typed, Projection!TypeOK
  <2>5. Projection!TypeOK'
    BY <2>2, <2>3, <2>4, ReplicaFacts, ProjectionFacts DEF Projection!Typed, Projection!TypeOK
  <2>6. DOMAIN s10' = Projection!Key
    BY <1>1, ReplicaFacts, ProjectionFacts
  <2>7. QED
    BY <2>1, <2>5, <2>6, ReplicaFacts DEF Projection!Typed
<1>9. Projection!Consumes'
  <2> SUFFICES ASSUME NEW q \in Actors PROVE Goes(q)'
    BY DEF Projection!Consumes, Goes
  <2>1. QED
    BY <1>7, ReplicaFacts DEF Goes, Projection!Image, Projection!At, Projection!KeepUser,
                          Projection!KeepAll
<1>10. Projection!LockHeld'
  <2> SUFFICES ASSUME NEW q \in Actors PROVE Holds(q)'
    BY DEF Projection!LockHeld, Holds
  <2>1. CASE q # r
    <3>1. s8[q].at # "idle" => s8[q].key \in Projection!Key
      BY ReplicaFacts, CallFacts
    <3>2. s8[q].at \in {"locked", "read"} => s8[q].key # k
      BY <2>1, ReplicaFacts DEF Holds
    <3>3. QED
      BY <1>6, <1>7, <2>1, <3>1, <3>2, ReplicaFacts DEF Holds
  <2>2. CASE q = r
    BY <1>7, <2>2 DEF Holds
  <2>3. QED
    BY <2>1, <2>2
<1>11. Projection!LinksHaveAGroup'
  <2>1. k \in Group => (w.row = Void => v = Void)
    BY <1>2, <1>3 DEF Projection!RowOf
  <2>2. \A g \in Group \ {k} : s10'[g] = s10[g]
    BY <1>6 DEF Projection!Key
  <2>3. QED
    BY <1>6, <2>1, <2>2, ReplicaFacts DEF Projection!LinksHaveAGroup
<1>12. Projection!MirroredOrOwed'
  <2> SUFFICES ASSUME NEW j \in Projection!Key \ s14', NEW q \in Actors, j \in s5[q]
               PROVE  Projection!Mirrors(j)' \/ \E p \in Actors : Projection!Owes(p, j)'
    BY DEF Projection!MirroredOrOwed
  <2>1. /\ Projection!Last(j)' = Projection!Last(j)
        /\ Projection!Image(j, Projection!Last(j))' = Projection!Image(j, Projection!Last(j))
    BY DEF Projection!Last, Projection!At, Projection!Image, Projection!KeepUser,
           Projection!KeepAll
  <2>2. CASE j # k
    <3>1. j \notin s14
      BY <1>1, <2>2
    <3>2. Projection!Mirrors(j) => Projection!Mirrors(j)'
      <4>1. s10'[j] = s10[j] /\ (j \in Group => Projection!Members(j)' = Projection!Members(j))
        BY <1>6, <2>2
      <4>2. QED
        BY <2>1, <4>1 DEF Projection!Mirrors, Projection!RowOf, Projection!MemberRows
    <3>3. \A p \in Actors : Projection!Owes(p, j) => Projection!Owes(p, j)'
      BY <1>7, <2>2 DEF Projection!Owes
    <3>4. QED
      BY <3>1, <3>2, <3>3, ReplicaFacts DEF Projection!MirroredOrOwed
  <2>3. CASE j = k
    <3>1. CASE v = Projection!Image(k, Projection!Last(k))
      BY <1>2, <1>6, <2>1, <2>3, <3>1
         DEF Projection!Mirrors, Projection!RowOf, Projection!MemberRows
    <3>2. CASE k \in s5[r] /\ s6[r][k] < Len(s1[k])
      BY <2>3, <3>2 DEF Projection!Owes
    <3>3. QED
      BY <1>4, <3>1, <3>2
  <2>4. QED
    BY <2>2, <2>3
<1>13. Projection!DerivedOrTold'
  <2> SUFFICES ASSUME s3, NEW u \in User, u \notin s12',
                      \A g \in Group \cap s12' : u \notin Projection!Members(g)'
               PROVE  s13[u] = Projection!GroupsOf(u)'
    BY DEF Projection!DerivedOrTold
  <2>1. s12' = s12 \cup w.impacts
    OBVIOUS
  <2>2. k \in Group => (<<k, u>> \in w.links <=> <<k, u>> \in s11)
    <3>1. ASSUME k \in Group, <<k, u>> \in w.links, <<k, u>> \notin s11 PROVE FALSE
      <4>1. k \in s12'
        BY <1>5, <2>1, <3>1
      <4>2. u \in Projection!Members(k)'
        BY <1>1, <3>1 DEF Projection!Members
      <4>3. QED
        BY <3>1, <4>1, <4>2
    <3>2. QED
      BY <1>5, <2>1, <3>1
  <2>3. \A g \in Group : <<g, u>> \in w.links <=> <<g, u>> \in s11
    BY <1>2, <2>2
  <2>4. Projection!GroupsOf(u)' = Projection!GroupsOf(u)
    BY <1>1, <2>3 DEF Projection!GroupsOf
  <2>5. \A g \in Group \cap s12 : u \notin Projection!Members(g)
    BY <1>1, <2>1, <2>3 DEF Projection!Members
  <2>6. QED
    BY <2>1, <2>4, <2>5, ReplicaFacts DEF Projection!DerivedOrTold
<1>14. QED
  BY <1>8, <1>9, <1>10, <1>11, <1>12, <1>13 DEF Projection!Inv

LEMMA CommitKeeps ==
  ASSUME Projection!Inv, NEW r \in Actors, Projection!Commit(r)
  PROVE  Projection!Inv'
<1>1. /\ s8[r].at = "read" /\ Projection!Apply(r) /\ Projection!Finish(r)
      /\ s12' = IF s3 THEN s12 \cup Projection!Result(r).impacts ELSE s12
      /\ s9' = [k \in Projection!Key |-> IF s9[k] = r THEN NoOne ELSE s9[k]]
      /\ UNCHANGED <<s1, s2, s3, s4, s5, s6, s7, s13, s15>>
  BY DEF Projection!Commit, Projection!Free, Projection!bucket, Projection!replica
<1>2. /\ s9[s8[r].key] = r
      /\ s8[r].key \in Group => s8[r].read = Projection!Members(s8[r].key)
  BY <1>1, ReplicaFacts DEF Holds
<1>3. /\ s9' \in [Projection!Key -> Actors \cup {NoOne}]
      /\ \A q \in Actors \ {r} : /\ s9[s8[r].key] # q
                                 /\ \A j \in Projection!Key : s9[j] = q => s9'[j] = q
  BY <1>1, <1>2, ReplicaFacts, ProjectionFacts
<1>4. QED
  BY <1>1, <1>2, <1>3, SinkWriteKeeps

LEMMA ApplyAloneKeeps ==
  ASSUME Projection!Inv, NEW r \in Actors, Projection!ApplyAlone(r)
  PROVE  Projection!Inv'
<1>1. /\ s8[r].at = "begun" /\ ~Projection!Transactional(r) /\ s9[s8[r].key] = NoOne
      /\ Projection!Apply(r) /\ Projection!Finish(r)
      /\ UNCHANGED <<s1, s2, s3, s4, s5, s6, s7, s9, s12, s13, s15>>
  BY DEF Projection!ApplyAlone, Projection!bucket, Projection!replica, Projection!adopter
<1>2. /\ ~s3 /\ (s8[r].key \in Group => s8[r].value = Void)
  BY <1>1 DEF Projection!Transactional, Projection!Retracts
<1>3. /\ s9' \in [Projection!Key -> Actors \cup {NoOne}]
      /\ \A q \in Actors \ {r} : /\ s9[s8[r].key] # q
                                 /\ \A j \in Projection!Key : s9[j] = q => s9'[j] = q
  BY <1>1, ReplicaFacts, ProjectionFacts, ProjectionConstants
<1>4. QED
  BY <1>1, <1>2, <1>3, SinkWriteKeeps

\* A publication leaves what was read of the key alone, and everyone who follows it owes it.
LEMMA RosterKeeps ==
  ASSUME Projection!Inv, NEW k \in Projection!Key, NEW v \in Projection!Roster(k) \cup {Void},
         Projection!Publish(k, v)
  PROVE  Projection!Inv'
<1>1. /\ s1' = [s1 EXCEPT ![k] = Append(s1[k], v)]
      /\ UNCHANGED <<s2, s3, s4, s5, s6, s7, s8, s9, s10, s11, s12, s13, s14, s15>>
  BY DEF Projection!Publish, Projection!replica, Projection!database, Projection!adopter
<1>2. /\ s1'[k] = Append(s1[k], v) /\ \A j \in Projection!Key \ {k} : s1'[j] = s1[j]
      /\ s1[k] \in Seq(Projection!Roster(k) \cup {Void}) /\ Len(s1[k]) \in Nat
  BY <1>1, ReplicaFacts, ProjectionFacts
<1>3. /\ s1'[k] \in Seq(Projection!Roster(k) \cup {Void}) /\ Len(s1'[k]) = Len(s1[k]) + 1
      /\ \A n \in 1..Len(s1[k]) : s1'[k][n] = s1[k][n]
  BY <1>2, AppendProperties
<1>4. \A j \in Projection!Key : \A n \in 0..Len(s1[j]) :
        /\ Projection!At(j, n)' = Projection!At(j, n)
        /\ Projection!Image(j, Projection!At(j, n))' = Projection!Image(j, Projection!At(j, n))
  BY <1>2, <1>3 DEF Projection!At, Projection!Image, Projection!KeepUser, Projection!KeepAll
<1>5. Projection!Typed'
  <2>1. \A j \in Projection!Key : s1'[j] \in Seq(Projection!Roster(j) \cup {Void})
    BY <1>2, <1>3, ReplicaFacts, ProjectionFacts
  <2>2. Projection!TypeOK'
    BY <1>1, <2>1, ReplicaFacts DEF Projection!Typed, Projection!TypeOK, Projection!Roster
  <2>3. QED
    BY <1>1, <2>2, ReplicaFacts DEF Projection!Typed
<1>6. \A j \in Projection!Key : Len(s1[j]) <= Len(s1'[j])
  <2>1. \A j \in Projection!Key : Len(s1[j]) \in Nat
    BY ReplicaFacts, ProjectionFacts
  <2>2. \A j \in Projection!Key : s1'[j] = s1[j] \/ Len(s1'[j]) = Len(s1[j]) + 1
    BY <1>2, <1>3
  <2>3. QED
    BY <2>1, <2>2
<1>7. Projection!Consumes'
  <2> SUFFICES ASSUME NEW q \in Actors PROVE Goes(q)'
    BY DEF Projection!Consumes, Goes
  <2>1. \A j \in Projection!Key : s6[q][j] <= Len(s1'[j]) /\ s6[q][j] \in 0..Len(s1[j])
    <3>1. \A j \in Projection!Key : s6[q][j] <= Len(s1[j])
      BY ReplicaFacts DEF Goes
    <3>2. \A j \in Projection!Key : s6[q][j] \in Nat /\ Len(s1[j]) \in Nat
      BY ReplicaFacts, ProjectionFacts
    <3>3. \A j \in Projection!Key : Len(s1'[j]) \in Nat
      BY <1>2, <1>3, <3>2
    <3>4. QED
      BY <1>6, <3>1, <3>2, <3>3
  <2>2. s8[q].at # "idle" => s8[q].key \in Projection!Key
    BY ReplicaFacts, CallFacts
  <2>3. QED
    BY <1>1, <1>4, <2>1, <2>2, ReplicaFacts DEF Goes
<1>8. Projection!LockHeld' /\ Projection!LinksHaveAGroup' /\ Projection!DerivedOrTold'
  BY <1>1, ReplicaFacts
     DEF Projection!LockHeld, Projection!LinksHaveAGroup, Projection!DerivedOrTold,
         Projection!Members, Projection!GroupsOf
<1>9. Projection!MirroredOrOwed'
  <2> SUFFICES ASSUME NEW j \in Projection!Key \ s14, NEW q \in Actors, j \in s5[q]
               PROVE  Projection!Mirrors(j)' \/ \E p \in Actors : Projection!Owes(p, j)'
    BY <1>1 DEF Projection!MirroredOrOwed
  <2>1. CASE j = k
    <3>1. s6[q][j] <= Len(s1[j]) /\ s6[q][j] \in Nat
      BY ReplicaFacts, ProjectionFacts DEF Goes
    <3>2. s6'[q][j] < Len(s1'[j])
      BY <1>1, <1>2, <1>3, <2>1, <3>1
    <3>3. QED
      BY <1>1, <3>2 DEF Projection!Owes
  <2>2. CASE j # k
    <3>1. Projection!Image(j, Projection!Last(j))' = Projection!Image(j, Projection!Last(j))
          /\ s1'[j] = s1[j]
      BY <1>2, <2>2 DEF Projection!Last, Projection!At, Projection!Image, Projection!KeepUser,
                        Projection!KeepAll
    <3>2. Projection!Mirrors(j) => Projection!Mirrors(j)'
      BY <1>1, <3>1 DEF Projection!Mirrors, Projection!RowOf, Projection!Members,
                        Projection!MemberRows
    <3>3. \A p \in Actors : Projection!Owes(p, j) => Projection!Owes(p, j)'
      BY <1>1, <3>1 DEF Projection!Owes
    <3>4. QED
      BY <3>2, <3>3, ReplicaFacts DEF Projection!MirroredOrOwed
  <2>3. QED
    BY <2>1, <2>2
<1>10. QED
  BY <1>5, <1>7, <1>8, <1>9 DEF Projection!Inv

\* What neither the roster, the projectors nor the tables take part in.
LEMMA RosterStays ==
  ASSUME Projection!Inv, UNCHANGED <<s1, s3, s4, s5, s6, s7, s8, s9, s10, s11, s14, s15>>,
         s2' \in {"absent", "roster", "accounts"}, s12' \subseteq Projection!Key,
         s13' \in [User -> SUBSET Group], Projection!DerivedOrTold'
  PROVE  Projection!Inv'
<1>1. Projection!Typed'
  BY ReplicaFacts DEF Projection!Typed, Projection!TypeOK
<1>2. Projection!Consumes'
  BY ReplicaFacts DEF Projection!Consumes, Projection!Image, Projection!At, Projection!KeepUser,
                  Projection!KeepAll
<1>3. Projection!LockHeld' /\ Projection!LinksHaveAGroup'
  BY ReplicaFacts DEF Projection!LockHeld, Projection!LinksHaveAGroup, Projection!Members
<1>4. Projection!MirroredOrOwed'
  BY ReplicaFacts
     DEF Projection!MirroredOrOwed, Projection!Mirrors, Projection!Image, Projection!KeepUser,
         Projection!KeepAll, Projection!Last, Projection!At, Projection!RowOf,
         Projection!Members, Projection!MemberRows, Projection!Owes
<1>5. QED
  BY <1>1, <1>2, <1>3, <1>4 DEF Projection!Inv

LEMMA ReactKeeps ==
  ASSUME Projection!Inv, NEW i \in Projection!Key, Projection!React(i)
  PROVE  Projection!Inv'
<1>1. /\ s12' = s12 \ {i}
      /\ s13' = [u \in User |-> IF u = i \/ (i \in Group /\ u \in Projection!Members(i))
                                  THEN Projection!GroupsOf(u) ELSE s13[u]]
      /\ UNCHANGED <<s1, s2, s3, s4, s5, s6, s7, s8, s9, s10, s11, s14, s15>>
  BY DEF Projection!React, Projection!bucket, Projection!replica, Projection!database
<1>2. s2 \in {"absent", "roster", "accounts"} /\ s12' \subseteq Projection!Key
      /\ s13' \in [User -> SUBSET Group]
  BY <1>1, ReplicaFacts DEF Projection!Typed, Projection!TypeOK, Projection!GroupsOf
<1>3. Projection!DerivedOrTold'
  BY <1>1, ReplicaFacts DEF Projection!DerivedOrTold, Projection!GroupsOf, Projection!Members
<1>4. QED
  BY <1>1, <1>2, <1>3, RosterStays

LEMMA ManifestKeeps ==
  ASSUME Projection!Inv, NEW m \in {"roster", "accounts"}, Projection!WriteMeta(m)
  PROVE  Projection!Inv'
<1>1. /\ s2' = m
      /\ UNCHANGED <<s1, s3, s4, s5, s6, s7, s8, s9, s10, s11, s12, s13, s14, s15>>
  BY DEF Projection!WriteMeta, Projection!replica, Projection!database, Projection!adopter
<1>2. s12' \subseteq Projection!Key /\ s13' \in [User -> SUBSET Group]
  BY <1>1, ReplicaFacts DEF Projection!Typed, Projection!TypeOK
<1>3. Projection!DerivedOrTold'
  BY <1>1, ReplicaFacts DEF Projection!DerivedOrTold, Projection!GroupsOf, Projection!Members
<1>4. QED
  BY <1>1, <1>2, <1>3, RosterStays

LEMMA ProjectionStep ==
  ASSUME Projection!Inv, Projection!Next
  PROVE  Projection!Inv'
<1>1. ASSUME NEW r \in Actors,
             \/ Projection!Reconcile(r) \/ Projection!Watch(r) \/ Projection!Fails(r)
             \/ Projection!NothingToRetract(r) \/ Projection!First(r) \/ Projection!ReadLinks(r)
             \/ Projection!Commit(r) \/ Projection!ApplyAlone(r)
      PROVE  Projection!Inv'
  BY <1>1, ReconcileKeeps, WatchKeeps, FailsKeeps, NothingToRetractKeeps, FirstKeeps,
     ReadLinksKeeps, CommitKeeps, ApplyAloneKeeps
<1>2. ASSUME NEW r \in Actors, NEW k \in Projection!Key, NEW n \in 0..Len(s1[k]),
             Projection!Bootstrap(r, k, n) \/ Projection!Follow(r, k, n)
      PROVE  Projection!Inv'
  BY <1>2, BootstrapKeeps, FollowKeeps
<1>3. ASSUME NEW k \in Projection!Key, NEW v \in Projection!Roster(k) \cup {Void},
             Projection!Publish(k, v)
      PROVE  Projection!Inv'
  BY <1>3, RosterKeeps
<1>4. ASSUME NEW m \in {"roster", "accounts"}, Projection!WriteMeta(m)
      PROVE  Projection!Inv'
  BY <1>4, ManifestKeeps
<1>5. ASSUME NEW i \in Projection!Key, Projection!React(i)
      PROVE  Projection!Inv'
  BY <1>5, ReactKeeps
<1>6. QED
  BY <1>1, <1>2, <1>3, <1>4, <1>5 DEF Projection!Next

LEMMA ProjectionNext == ProjectionInv /\ [ProvedNext]_vars => ProjectionInv'
<1>1. SUFFICES ASSUME ProjectionInv, [ProvedNext]_vars, part' = "projection"
               PROVE  Projection!Inv'
  BY DEF ProjectionInv
<1>2. Projection!Inv /\ [Projection!Next]_(Projection!vars)
  BY <1>1 DEF ProjectionInv, ProvedNext, vars, Projection!vars, Projection!bucket,
              Projection!replica, Projection!database, Projection!adopter
<1>3. CASE Projection!Next
  BY <1>2, <1>3, ProjectionStep
<1>4. CASE UNCHANGED Projection!vars
  <2>1. UNCHANGED <<s1, s2, s3, s4, s5, s6, s7, s8, s9, s10, s11, s12, s13, s14, s15>>
    BY <1>4 DEF Projection!vars, Projection!bucket, Projection!replica, Projection!database,
                Projection!adopter
  <2>2. /\ s2' \in {"absent", "roster", "accounts"} /\ s12' \subseteq Projection!Key
        /\ s13' \in [User -> SUBSET Group]
    BY <1>2, <2>1, ReplicaFacts DEF Projection!Typed, Projection!TypeOK
  <2>3. Projection!DerivedOrTold'
    BY <1>2, <2>1, ReplicaFacts DEF Projection!DerivedOrTold, Projection!GroupsOf, Projection!Members
  <2>4. QED
    BY <1>2, <2>1, <2>2, <2>3, RosterStays
<1>5. QED
  BY <1>2, <1>3, <1>4

\* However many replicas project however many keys, and whatever fails: once all have caught up
\* the tables hold the roster, but for the keys on record as in a gap; and whoever recomputes
\* from the impacts alone is never left behind (sinks.rs, projector.rs).
THEOREM ReplicasCorrect == ProvedSpec => []ReplicasAgree
<1>1. ASSUME Projection!Inv, Projection!CaughtUp, NEW r \in Actors, NEW k \in s5[r] \ s14
      PROVE  Projection!Mirrors(k)
  <2>1. k \in Projection!Key
    BY ReplicaFacts, ProjectionFacts, <1>1
  <2>2. \A q \in Actors : ~Projection!Owes(q, k)
    <3> SUFFICES ASSUME NEW q \in Actors PROVE ~Projection!Owes(q, k)
      OBVIOUS
    <3>1. s4[q] = "watching" /\ s8[q].at = "idle" /\ s7[q] = {}
          /\ (k \in s5[q] => s6[q][k] = Len(s1[k]))
      BY <1>1, ReplicaFacts DEF Projection!CaughtUp, Goes
    <3>2. s6[q][k] \in Nat /\ Len(s1[k]) \in Nat
      BY <1>1, <2>1, ReplicaFacts, ProjectionFacts
    <3>3. QED
      BY <3>1, <3>2 DEF Projection!Owes
  <2>3. QED
    BY <1>1, <2>1, <2>2, ReplicaFacts DEF Projection!MirroredOrOwed
<1>2. ASSUME Projection!Inv
      PROVE  Projection!TypeOK /\ Projection!ReplicasConverge /\ Projection!ImpactsSuffice
  <2>1. Projection!TypeOK
    BY <1>2, ReplicaFacts DEF Projection!Typed
  <2>2. Projection!ReplicasConverge
    BY <1>1, <1>2 DEF Projection!ReplicasConverge
  <2>3. Projection!ImpactsSuffice
    BY <1>2, ReplicaFacts DEF Projection!ImpactsSuffice, Projection!DerivedOrTold
  <2>4. QED
    BY <2>1, <2>2, <2>3
<1>3. ProjectionInv => ReplicasAgree
  BY <1>2 DEF ProjectionInv, ReplicasAgree
<1>4. QED
  BY ProjectionInit, ProjectionNext, <1>3, PTL DEF ProvedSpec

\* A write that changes neither its row nor the links has nothing to tell.
LEMMA QuietWrites ==
  ASSUME Projection!Inv, NEW r \in Actors, Projection!Commit(r), UNCHANGED <<s10, s11>>
  PROVE  s12' \subseteq s12
<1> DEFINE k == s8[r].key
           v == s8[r].value
           w == Projection!Result(r)
<1>1. /\ s8[r].at = "read" /\ s10' = [s10 EXCEPT ![k] = w.row] /\ s11' = w.links
      /\ s12' = IF s3 THEN s12 \cup w.impacts ELSE s12
  BY DEF Projection!Commit, Projection!Apply
<1>2. /\ k \in Projection!Key /\ (v = Void => s10[k] # Void)
      /\ k \in Group => s8[r].read = Projection!Members(k)
  BY <1>1, ReplicaFacts, CallFacts DEF Holds
<1>3. /\ w.row = Projection!RowOf(k, v)
      /\ k \in Group => \A u \in User : <<k, u>> \in w.links <=> v # Void /\ u \in v.members
  BY <1>1, <1>2, ResultFacts
<1>4. s10[k] = w.row /\ s11 = w.links
  BY <1>1, <1>2, ReplicaFacts, ProjectionFacts
<1>5. v # Void
  BY <1>2, <1>3, <1>4 DEF Projection!RowOf
<1>6. CASE k \in User \cup Account
  <2>1. w.row = v
    BY <1>3, <1>6, ProjectionConstants DEF Projection!RowOf
  <2>2. w.impacts = {}
    BY <1>4, <1>5, <1>6, <2>1, ProjectionConstants
       DEF Projection!Result, Projection!UserProject, Projection!AccountProject,
           Projection!Write, Projection!Retracts
  <2>3. QED
    BY <1>1, <2>2
<1>7. CASE k \in Group
  <2>1. w = Projection!GroupProject(r)
    BY <1>5, <1>7, ProjectionConstants DEF Projection!Result, Projection!Retracts
  <2>2. v.members \subseteq User
    <3>1. v = Projection!Image(k, Projection!At(k, s6[r][k])) /\ s6[r][k] \in 0..Len(s1[k])
      BY <1>1, <1>2, ReplicaFacts, ProjectionFacts DEF Goes
    <3>2. v \in Projection!Roster(k) \cup {Void}
      BY <1>2, <3>1, ReplicaFacts, Images
    <3>3. QED
      BY <1>5, <1>7, <3>2 DEF Projection!Roster
  <2>3. s8[r].read = v.members
    BY <1>2, <1>3, <1>4, <1>5, <1>7, <2>2 DEF Projection!Members
  <2>4. w.impacts = {}
    BY <1>3, <1>4, <2>1, <2>3
       DEF Projection!GroupProject, Projection!Write, Projection!Moved, Projection!MemberRows
  <2>5. QED
    BY <1>1, <2>4
<1>8. QED
  BY <1>2, <1>6, <1>7 DEF Projection!Key

\* An impact in the outbox is always that of a row or of a link that did change (sinks.rs).
THEOREM ImpactsCorrect == ProvedSpec => StagedOnlyForAChange
<1>1. ASSUME ProjectionInv, [ProvedNext]_vars
      PROVE  [part = "projection" => Projection!StagedOnlyForAChange]_vars
  <2> SUFFICES ASSUME part = "projection", ~(s12' \subseteq s12), UNCHANGED <<s10, s11>>
               PROVE  FALSE
    BY DEF Projection!StagedOnlyForAChange
  <2>1. Projection!Inv /\ Projection!Next
    BY <1>1 DEF ProjectionInv, ProvedNext, vars
  <2>2. PICK r \in Actors : Projection!Commit(r)
    BY <2>1, ZenonT(40) DEF Projection!Next, Projection!Publish, Projection!WriteMeta, Projection!Reconcile,
      Projection!Watch, Projection!Bootstrap, Projection!Follow, Projection!NothingToRetract,
      Projection!First, Projection!ReadLinks, Projection!ApplyAlone, Projection!Fails,
      Projection!React, Projection!adopter
  <2>3. QED
    BY <2>1, <2>2, QuietWrites
<1>2. QED
  BY ProjectionInit, ProjectionNext, <1>1, PTL DEF ProvedSpec, StagedOnlyForAChange

-----------------------------------------------------------------------------
(* Identities: s1 draft, s2 request, s3 stage, s4 passport, s5 response, s6 session,       *)
(* s7 sent, s8 wire.                                                                        *)

LEMMA PassportKinds ==
  ASSUME NEW p, Requests!IsPassport(p)
  PROVE  /\ p.kind \in {"human", "service"}
         /\ p.kind = "human" => /\ p.auth \in {"jwt", "pat"}
                                /\ p = Requests!Human(p.id, p.super, p.active, p.auth,
                                                      p.impersonator, p.claims)
         /\ p.kind = "service" => p = Requests!Service(p.id, p.claims)
BY DEF Requests!IsPassport, Requests!Human, Requests!Service

\* A passport reads back from its own header.
LEMMA RoundTrip ==
  ASSUME NEW p, Requests!IsPassport(p)
  PROVE  Requests!Reads(Requests!ToHeader(p)) /\ Requests!PassportOf(Requests!ToHeader(p)) = p
<1> DEFINE doc == Requests!ToHeader(p)
<1>1. /\ doc.kind = p.kind /\ doc.bad = {} /\ doc.id = p.id /\ doc.super = p.super
      /\ doc.active = p.active /\ doc.impersonator = p.impersonator
      /\ doc.claims = Requests!ClaimsToValue(p.claims) /\ doc.auth.method = p.auth
      /\ doc.auth.bad = {}
      /\ doc.auth.has = (IF p.auth = "pat" THEN {"method", "token_id"} ELSE {"method"})
      /\ doc.has = (IF p.kind = "human" THEN Requests!HumanFields \cup {"impersonator"}
                                        ELSE Requests!ServiceFields)
  BY DEF Requests!ToHeader
<1> HIDE DEF doc
<1>2. Requests!ClaimsFromValue(doc.claims) = {p.claims}
  BY <1>1 DEF Requests!ClaimsFromValue, Requests!ClaimsToValue
<1>3. (CHOOSE map \in Requests!ClaimsFromValue(doc.claims) : TRUE) = p.claims
  BY <1>2
<1>4. CASE p.kind = "human"
  <2>1. doc.has = Requests!HumanFields \cup {"impersonator"} /\ doc.kind = "human"
    BY <1>1, <1>4
  <2>2. Requests!AuthReads(doc.auth)
    BY <1>1, <1>4, PassportKinds DEF Requests!AuthReads
  <2>3. Requests!ReadsClaims(doc)
    BY <1>2, <2>1 DEF Requests!ReadsClaims, Requests!HumanFields
  <2>4. Requests!Reads(doc)
    BY <1>1, <2>1, <2>2, <2>3 DEF Requests!Reads
  <2>5. Requests!PassportOf(doc) = p
    BY <1>1, <1>3, <2>1, <1>4, PassportKinds DEF Requests!PassportOf
  <2>6. QED
    BY <2>4, <2>5 DEF doc
<1>5. CASE p.kind = "service"
  <2>1. doc.has = Requests!ServiceFields /\ doc.kind = "service"
    BY <1>1, <1>5
  <2>2. Requests!ReadsClaims(doc)
    BY <1>2, <2>1 DEF Requests!ReadsClaims, Requests!ServiceFields
  <2>3. Requests!Reads(doc)
    BY <1>1, <2>1, <2>2 DEF Requests!Reads
  <2>4. Requests!PassportOf(doc) = p
    BY <1>1, <1>3, <2>1, <1>5, PassportKinds DEF Requests!PassportOf
  <2>5. QED
    BY <2>3, <2>4 DEF doc
<1>6. QED
  BY <1>4, <1>5, PassportKinds

\* What reads is a passport of the kind the document says, with all the fields it has.
LEMMA ReadsToPassport ==
  ASSUME NEW doc, Requests!Reads(doc)
  PROVE  /\ Requests!IsPassport(Requests!PassportOf(doc))
         /\ Requests!PassportOf(doc).kind = doc.kind
         /\ doc.has \subseteq Requests!ToHeader(Requests!PassportOf(doc)).has
<1> DEFINE p == Requests!PassportOf(doc)
           claims == CHOOSE map \in Requests!ClaimsFromValue(doc.claims) : TRUE
<1>1. CASE doc.kind = "human"
  <2>1. p = Requests!Human(doc.id, doc.super, doc.active, doc.auth.method,
              IF "impersonator" \in doc.has THEN doc.impersonator ELSE NoId, claims)
    BY <1>1 DEF Requests!PassportOf
  <2>2. doc.auth.method \in {"jwt", "pat"}
    BY <1>1 DEF Requests!Reads, Requests!AuthReads
  <2>3. doc.has \subseteq Requests!HumanFields \cup {"impersonator"}
    BY <1>1 DEF Requests!Reads
  <2> HIDE DEF p, claims
  <2>4. p.kind = "human" /\ Requests!IsPassport(p)
    BY <2>1, <2>2 DEF Requests!Human, Requests!IsPassport
  <2>5. Requests!ToHeader(p).has = Requests!HumanFields \cup {"impersonator"}
    BY <2>4 DEF Requests!ToHeader
  <2>6. QED
    BY <1>1, <2>3, <2>4, <2>5 DEF p
<1>2. CASE doc.kind = "service"
  <2>1. p = Requests!Service(doc.id, claims)
    BY <1>2 DEF Requests!PassportOf
  <2>2. doc.has = Requests!ServiceFields
    BY <1>2 DEF Requests!Reads
  <2> HIDE DEF p, claims
  <2>3. p.kind = "service" /\ Requests!IsPassport(p)
    BY <2>1 DEF Requests!Service, Requests!IsPassport
  <2>4. Requests!ToHeader(p).has = Requests!ServiceFields
    BY <2>3 DEF Requests!ToHeader
  <2>5. QED
    BY <1>2, <2>2, <2>3, <2>4 DEF p
<1>3. QED
  BY <1>1, <1>2 DEF Requests!Reads

\* What a builder builds is a passport, of the fields it was given.
LEMMA Builds2Passport ==
  ASSUME NEW b, Requests!Builder(b), NEW service \in BOOLEAN
  PROVE  LET p == Requests!Build(b, service) IN
         /\ Requests!IsPassport(p) /\ p.kind = IF service THEN "service" ELSE "human"
         /\ p.id = b.id /\ p.claims = b.claims
         /\ p.kind = "human" => /\ p.super = b.super /\ p.active = b.active /\ p.auth = b.auth
                                /\ p.impersonator = b.impersonator
BY DEF Requests!Builder, Requests!IsPassport, Requests!Build, Requests!Human, Requests!Service

LEMMA AppendToOne == ASSUME NEW x, NEW y PROVE Append(<<x>>, y) = <<x, y>>
<1>1. <<x>> \in Seq({x, y}) /\ <<x, y>> \in Seq({x, y}) /\ y \in {x, y}
  OBVIOUS
<1>2. /\ Append(<<x>>, y) \in Seq({x, y}) /\ Len(Append(<<x>>, y)) = 2
      /\ Append(<<x>>, y)[1] = x /\ Append(<<x>>, y)[2] = y
  BY <1>1, AppendProperties
<1>3. \A i \in 1..2 : Append(<<x>>, y)[i] = <<x, y>>[i]
  BY <1>2
<1>4. QED
  BY <1>1, <1>2, <1>3, SeqEqual

\* The instance counts as FiniteSets does.
LEMMA RequestsCount == \A S : Requests!Cardinality(S) = Cardinality(S)
BY DEF Cardinality, Requests!Cardinality

\* At most one session; and the one of the documented rule, but where all cookies of the name but one
\* are empty.
LEMMA SessionIsTheOne ==
  ASSUME NEW cookies \in Seq([name : STRING, value : STRING]), NEW secure
  PROVE  LET found  == Requests!ExtractSession(cookies, secure)
             named  == Requests!SessionCookies(cookies, secure)
             valued == Requests!ValuedCookies(cookies, secure) IN
         /\ found = {} \/ \E id : found = {id}
         /\ found = IF Requests!Cardinality(named) > 1 /\ Requests!Cardinality(valued) = 1
                      THEN {cookies[n].value : n \in valued}
                      ELSE Requests!DocumentedSession(cookies, secure)
<1> DEFINE found  == Requests!ExtractSession(cookies, secure)
           named  == Requests!SessionCookies(cookies, secure)
           valued == Requests!ValuedCookies(cookies, secure)
<1>1. /\ found = IF Cardinality(valued) = 1 THEN {cookies[n].value : n \in valued} ELSE {}
      /\ Requests!DocumentedSession(cookies, secure)
           = IF Cardinality(named) = 1 THEN {cookies[n].value : n \in named} \ {Requests!NoValue} ELSE {}
  BY RequestsCount DEF Requests!ExtractSession, Requests!DocumentedSession
<1>2. valued = {n \in named : cookies[n].value # Requests!NoValue}
  BY DEF Requests!ValuedCookies
<1>3. named \subseteq 1..Len(cookies) /\ IsFiniteSet(1..Len(cookies))
  <2>1. Len(cookies) \in Nat /\ DOMAIN cookies = 1..Len(cookies)
    BY LenProperties
  <2>2. QED
    BY <2>1, FS_Interval DEF Requests!SessionCookies
<1> HIDE DEF found, named, valued
<1>4. IsFiniteSet(named) /\ IsFiniteSet(valued)
  <2>1. IsFiniteSet(named)
    BY <1>3, FS_Subset
  <2>2. QED
    BY <1>2, <2>1, FS_Subset
<1>5. Cardinality(named) \in Nat
  BY <1>4, FS_CardinalityType
<1>6. found = {} \/ \E id : found = {id}
  <2>1. CASE Cardinality(valued) = 1
    <3>1. PICK m : valued = {m}
      BY <1>4, <2>1, FS_Singleton
    <3>2. found = {cookies[m].value}
      BY <1>1, <2>1, <3>1
    <3>3. QED
      BY <3>2
  <2>2. QED
    BY <1>1, <2>1
<1>7. found = IF Cardinality(named) > 1 /\ Cardinality(valued) = 1
                THEN {cookies[n].value : n \in valued}
                ELSE Requests!DocumentedSession(cookies, secure)
  <2>1. CASE Cardinality(named) > 1
    BY <1>1, <1>5, <2>1
  <2>2. CASE Cardinality(named) = 1
    <3>1. PICK m : named = {m}
      BY <1>4, <2>2, FS_Singleton
    <3>2. Requests!DocumentedSession(cookies, secure) = {cookies[m].value} \ {Requests!NoValue}
      BY <1>1, <2>2, <3>1
    <3>3. CASE cookies[m].value = Requests!NoValue
      <4>1. valued = {}
        BY <1>2, <3>1, <3>3
      <4>2. found = {}
        BY <1>1, <4>1
      <4>3. QED
        BY <2>2, <3>2, <3>3, <4>2
    <3>4. CASE cookies[m].value # Requests!NoValue
      <4>1. valued = {m}
        BY <1>2, <3>1, <3>4
      <4>2. Cardinality(valued) = 1
        BY <4>1, FS_Singleton
      <4>3. found = {cookies[m].value}
        BY <1>1, <4>1, <4>2
      <4>4. QED
        BY <2>2, <3>2, <3>4, <4>3
    <3>5. QED
      BY <3>3, <3>4
  <2>3. CASE Cardinality(named) = 0
    <3>1. named = {}
      BY <1>4, <2>3, FS_EmptySet
    <3>2. valued = {} /\ Requests!DocumentedSession(cookies, secure) = {}
      BY <1>1, <1>2, <2>3, <3>1
    <3>3. found = {}
      BY <1>1, <3>2
    <3>4. QED
      BY <2>3, <3>2, <3>3
  <2>4. QED
    BY <1>5, <2>1, <2>2, <2>3
<1>8. QED
  BY <1>6, <1>7, RequestsCount DEF found, named, valued

LEMMA OnTheWire ==
  ASSUME NEW p, Requests!IsPassport(p), NEW m, Requests!Names(p, m)
  PROVE  Requests!Deserialized(Requests!Serialized(m)) = m
<1>1. m.actor = [kind |-> p.kind, id |-> p.id]
  BY DEF Requests!Names, Requests!ToActor, Requests!Actor
<1>2. m.actor.kind = p.kind /\ m.actor.id = p.id
  BY <1>1
<1>3. Requests!Deserialized(Requests!Serialized(m))
        = [actor |-> [kind |-> p.kind, id |-> p.id], correlation |-> m.correlation,
           causation |-> m.causation]
  BY <1>2, PassportKinds DEF Requests!Deserialized, Requests!Serialized, Requests!Actor
<1>4. QED
  BY <1>1, <1>3 DEF Requests!Names, Requests!ToActor, Requests!Actor

-----------------------------------------------------------------------------

RequestsInv == part = "identities" => Requests!Inv

LEMMA RequestsInit == ProvedInit => RequestsInv
<1> SUFFICES ASSUME ProvedInit, part = "identities" PROVE RequestsInv
  BY DEF RequestsInv
<1>1. Requests!Init
  BY DEF ProvedInit
<1>2. /\ s2 \in Incoming /\ s4 = {} /\ s5 = "none" /\ s6 = {} /\ s7 = <<>> /\ s8 = <<>>
      /\ \/ s3 = "arrived" /\ s1 = {}
         \/ s3 = "building" /\ \E id \in UserIds : s1 = {Requests!NewBuilder(id)}
  BY <1>1 DEF Requests!Init
<1>3. \A id : Requests!Builder(Requests!NewBuilder(id))
  BY DEF Requests!Builder, Requests!NewBuilder
<1>4. Requests!Typed
  BY <1>2, <1>3, RequestsConstants DEF Requests!Typed
<1>5. Requests!Presented /\ Requests!Behind /\ Requests!OnItsWay
  BY <1>2 DEF Requests!Presented, Requests!Behind, Requests!OnItsWay
<1>6. Requests!BuiltArrives /\ Requests!OneSession
  BY <1>2 DEF Requests!BuiltArrives, Requests!OneSession
<1>7. QED
  BY <1>4, <1>5, <1>6 DEF RequestsInv, Requests!Inv

LEMMA PrepareKeeps ==
  ASSUME RequestsInv, part = "identities", part' = part, Requests!Prepare
  PROVE  RequestsInv'
<1>1. /\ Requests!Typed /\ Requests!Behind /\ Requests!OnItsWay
      /\ s3 = "building"
      /\ UNCHANGED <<s2, s3, s4, s5, s6, s7, s8>>
      /\ \E b \in s1 : \E n \in Requests!Setting(b) \cup Requests!Claiming(b) : s1' = {n}
  BY DEF RequestsInv, Requests!Inv, Requests!Prepare
<1>2. PICK b \in s1 : \E n \in Requests!Setting(b) \cup Requests!Claiming(b) : s1' = {n}
  BY <1>1
<1>3. PICK n \in Requests!Setting(b) \cup Requests!Claiming(b) : s1' = {n}
  BY <1>2
<1>4. Requests!Builder(b)
  BY <1>1 DEF Requests!Typed
<1>5. Requests!Builder(n)
  <2>1. DOMAIN n = DOMAIN b /\ n.auth \in {b.auth, "pat"}
    BY <1>4 DEF Requests!Builder, Requests!Setting, Requests!Claiming
  <2>2. QED
    BY <2>1, <1>4 DEF Requests!Builder
<1>6. s4 = {} /\ s6 = {}
  BY <1>1 DEF Requests!Behind
<1>7. Requests!Typed' /\ Requests!Presented' /\ Requests!Behind' /\ Requests!OnItsWay'
  BY <1>1, <1>3, <1>5 DEF Requests!Typed, Requests!Presented, Requests!Behind, Requests!OnItsWay
<1>8. Requests!BuiltArrives' /\ Requests!OneSession'
  BY <1>1, <1>6 DEF Requests!BuiltArrives, Requests!OneSession
<1>9. QED
  BY <1>7, <1>8 DEF RequestsInv, Requests!Inv

LEMMA PresentKeeps ==
  ASSUME RequestsInv, part = "identities", part' = part, Requests!Present
  PROVE  RequestsInv'
<1>1. /\ Requests!Typed /\ Requests!Behind /\ Requests!OnItsWay
      /\ s3 = "building" /\ s3' = "arrived"
      /\ UNCHANGED <<s4, s5, s6, s7, s8>>
  BY DEF RequestsInv, Requests!Inv, Requests!Present
<1>2. PICK b \in s1, service \in BOOLEAN :
        /\ s2' = [s2 EXCEPT !.headers = <<[is |-> "document",
                            doc |-> Requests!ToHeader(Requests!Build(b, service))]>>]
        /\ s1' = {[b EXCEPT !.as = IF service THEN "service" ELSE "human"]}
  BY DEF Requests!Present
<1>3. Requests!Builder(b)
  BY <1>1 DEF Requests!Typed
<1> DEFINE c == [b EXCEPT !.as = IF service THEN "service" ELSE "human"]
<1>4. /\ Requests!Builder(c) /\ c.as = (IF service THEN "service" ELSE "human")
      /\ c.id = b.id /\ c.claims = b.claims /\ c.super = b.super /\ c.active = b.active
      /\ c.auth = b.auth /\ c.impersonator = b.impersonator
  BY <1>3 DEF Requests!Builder
<1>5. s1' = {c}
  BY <1>2
<1> HIDE DEF c
<1>6. Requests!Build(c, c.as = "service") = Requests!Build(b, service)
  BY <1>4 DEF Requests!Build
<1>7. /\ DOMAIN s2' = DOMAIN s2 /\ s2'.cookies = s2.cookies
      /\ s2'.headers = <<[is |-> "document", doc |-> Requests!ToHeader(Requests!Build(b, service))]>>
  BY <1>1, <1>2 DEF Requests!Typed
<1>8. s4 = {} /\ s6 = {}
  BY <1>1 DEF Requests!Behind
<1>9. Requests!Typed'
  BY <1>1, <1>4, <1>5, <1>7 DEF Requests!Typed
<1>10. Requests!Presented'
  BY <1>4, <1>5, <1>6, <1>7 DEF Requests!Presented
<1>11. Requests!Behind' /\ Requests!OnItsWay'
  BY <1>1, <1>8 DEF Requests!Behind, Requests!OnItsWay
<1>12. Requests!BuiltArrives' /\ Requests!OneSession'
  BY <1>1, <1>8 DEF Requests!BuiltArrives, Requests!OneSession
<1>13. QED
  BY <1>9, <1>10, <1>11, <1>12 DEF RequestsInv, Requests!Inv

LEMMA AdmitKeeps ==
  ASSUME RequestsInv, part = "identities", part' = part, Requests!Admit
  PROVE  RequestsInv'
<1>1. /\ Requests!Typed /\ Requests!Presented /\ Requests!Behind /\ Requests!OnItsWay
      /\ s3 = "arrived"
      /\ UNCHANGED <<s1, s2, s7, s8>>
      /\ s4' = Requests!DecodePassport(s2.headers)
      /\ s6' = Requests!ExtractSession(s2.cookies, s2.secure)
      /\ s4' # {} => s3' = "admitted" /\ s5' = s5
      /\ s4' = {} => s3' = "refused" /\ s5' = Requests!Refusal(s2.graphql)
  BY DEF RequestsInv, Requests!Inv, Requests!Admit
<1>2. \/ s4' = {}
      \/ /\ Requests!Reads(Head(s2.headers).doc)
         /\ s4' = {Requests!PassportOf(Head(s2.headers).doc)}
  BY <1>1 DEF Requests!DecodePassport
<1>3. s4' # {} => \E p : /\ s4' = {p} /\ Requests!IsPassport(p)
                         /\ Head(s2.headers).doc.has \subseteq Requests!ToHeader(p).has
  BY <1>2, ReadsToPassport
<1> DEFINE named  == Requests!SessionCookies(s2.cookies, s2.secure)
           valued == Requests!ValuedCookies(s2.cookies, s2.secure)
<1>4. /\ s6' = {} \/ \E id : s6' = {id}
      /\ s6' = IF Requests!Cardinality(named) > 1 /\ Requests!Cardinality(valued) = 1
                 THEN {s2.cookies[n].value : n \in valued}
                 ELSE Requests!DocumentedSession(s2.cookies, s2.secure)
  BY <1>1, SessionIsTheOne DEF Requests!Typed
<1>5. Requests!Refusal(s2.graphql) \in {"text_unauthorized", "graphql_unauthorized"}
  BY DEF Requests!Refusal
<1>6. s5 = "none"
  BY <1>1 DEF Requests!Behind, Requests!Typed
<1>7. Requests!Typed'
  BY <1>1, <1>3, <1>4, <1>5 DEF Requests!Typed
<1>8. Requests!Presented' /\ Requests!Behind' /\ Requests!OnItsWay'
  BY <1>1, <1>3, <1>5, <1>6 DEF Requests!Presented, Requests!Behind, Requests!OnItsWay
<1>9. Requests!OneSession'
  BY <1>1, <1>4 DEF Requests!OneSession
<1>10. Requests!BuiltArrives'
  <2>1. SUFFICES ASSUME NEW b \in s1
                 PROVE  /\ s3' # "refused"
                        /\ \A p \in s4' :
                             /\ p.id = b.id /\ p.claims = b.claims
                             /\ p.kind = "human" =>
                                  /\ p.super = b.super /\ p.active = b.active /\ p.auth = b.auth
                                  /\ p.impersonator \in {b.impersonator, AdminId}
                             /\ p.kind = b.as
    BY <1>1 DEF Requests!BuiltArrives
  <2> DEFINE q == Requests!Build(b, b.as = "service")
  <2>2. Requests!Builder(b) /\ b.as \in {"human", "service"}
        /\ s2.headers = <<[is |-> "document", doc |-> Requests!ToHeader(q)]>>
    BY <1>1 DEF Requests!Typed, Requests!Presented
  <2>3. /\ Requests!IsPassport(q) /\ q.kind = b.as /\ q.id = b.id /\ q.claims = b.claims
        /\ q.kind = "human" => /\ q.super = b.super /\ q.active = b.active /\ q.auth = b.auth
                               /\ q.impersonator = b.impersonator
    BY <2>2, Builds2Passport
  <2> HIDE DEF q
  <2>4. s2.headers # <<>> /\ Head(s2.headers) = [is |-> "document", doc |-> Requests!ToHeader(q)]
    BY <2>2
  <2>5. s4' = {q}
    BY <1>1, <2>3, <2>4, RoundTrip DEF Requests!DecodePassport
  <2>6. QED
    BY <1>1, <2>3, <2>5
<1>11. QED
  BY <1>7, <1>8, <1>9, <1>10 DEF RequestsInv, Requests!Inv

LEMMA ImpersonateKeeps ==
  ASSUME RequestsInv, part = "identities", part' = part, Requests!Impersonate
  PROVE  RequestsInv'
<1>1. /\ Requests!Typed /\ Requests!Presented /\ Requests!Behind /\ Requests!OnItsWay
      /\ s3 = "admitted"
      /\ UNCHANGED <<s1, s2, s3, s5, s6, s7, s8>>
      /\ Requests!BuiltArrives /\ Requests!OneSession
      /\ s4' = {Requests!WithImpersonator(p, AdminId) : p \in s4}
  BY DEF RequestsInv, Requests!Inv, Requests!Impersonate
<1>2. PICK p : s4 = {p} /\ Requests!IsPassport(p)
  BY <1>1 DEF Requests!Typed, Requests!Behind
<1> DEFINE q == Requests!WithImpersonator(p, AdminId)
<1>3. /\ Requests!IsPassport(q) /\ q.kind = p.kind /\ q.id = p.id /\ q.claims = p.claims
      /\ q.super = p.super /\ q.active = p.active /\ q.auth = p.auth
      /\ q.impersonator \in {p.impersonator, AdminId}
  <2>1. CASE p.kind = "human"
    BY <1>2, <2>1, PassportKinds DEF Requests!IsPassport, Requests!Human, Requests!WithImpersonator
  <2>2. CASE p.kind # "human"
    BY <1>2, <2>2 DEF Requests!WithImpersonator
  <2>3. QED
    BY <2>1, <2>2
<1>4. s4' = {q}
  BY <1>1, <1>2
<1> HIDE DEF q
<1>5. Requests!ToHeader(q).has = Requests!ToHeader(p).has
  BY <1>3 DEF Requests!ToHeader
<1>6. Requests!Typed' /\ Requests!Presented' /\ Requests!Behind' /\ Requests!OnItsWay'
  BY <1>1, <1>2, <1>3, <1>4, <1>5 DEF Requests!Typed, Requests!Presented, Requests!Behind, Requests!OnItsWay
<1>7. Requests!BuiltArrives'
  <2>1. SUFFICES ASSUME NEW b \in s1
                 PROVE  /\ q.id = b.id /\ q.claims = b.claims
                        /\ q.kind = "human" =>
                             /\ q.super = b.super /\ q.active = b.active /\ q.auth = b.auth
                             /\ q.impersonator \in {b.impersonator, AdminId}
                        /\ q.kind = b.as
    BY <1>1, <1>4 DEF Requests!BuiltArrives
  <2>2. /\ p.id = b.id /\ p.claims = b.claims /\ p.kind = b.as
        /\ p.kind = "human" => /\ p.super = b.super /\ p.active = b.active /\ p.auth = b.auth
                               /\ p.impersonator \in {b.impersonator, AdminId}
    BY <1>1, <1>2 DEF Requests!BuiltArrives
  <2>3. QED
    BY <1>3, <2>2
<1>8. Requests!OneSession'
  BY <1>1 DEF Requests!OneSession
<1>9. QED
  BY <1>6, <1>7, <1>8 DEF RequestsInv, Requests!Inv

LEMMA SendCommandKeeps ==
  ASSUME RequestsInv, part = "identities", part' = part, Requests!SendCommand
  PROVE  RequestsInv'
<1>1. /\ Requests!Typed /\ Requests!Presented /\ Requests!Behind /\ Requests!OnItsWay
      /\ s3 = "admitted" /\ s3' = "commanded"
      /\ UNCHANGED <<s1, s2, s4, s5, s6>>
      /\ Requests!BuiltArrives /\ Requests!OneSession
  BY DEF RequestsInv, Requests!Inv, Requests!SendCommand
<1>2. PICK p \in s4, c \in Correlations :
        /\ s7' = <<Requests!Metadata(Requests!ToActor(p), c)>>
        /\ s8' = <<Requests!Deserialized(Requests!Serialized(Requests!Metadata(Requests!ToActor(p), c)))>>
  BY DEF Requests!SendCommand
<1>3. Requests!IsPassport(p) /\ s4 = {p}
  BY <1>1 DEF Requests!Typed
<1> DEFINE m == Requests!Metadata(Requests!ToActor(p), c)
<1>4. Requests!Names(p, m)
  BY DEF Requests!Names, Requests!Metadata
<1>5. s7' = <<m>> /\ s8' = <<m>>
  BY <1>2, <1>3, <1>4, OnTheWire
<1> HIDE DEF m
<1>6. Requests!Typed' /\ Requests!Presented' /\ Requests!Behind' /\ Requests!OnItsWay'
  BY <1>1, <1>3, <1>4, <1>5 DEF Requests!Typed, Requests!Presented, Requests!Behind, Requests!OnItsWay
<1>7. Requests!BuiltArrives' /\ Requests!OneSession'
  BY <1>1 DEF Requests!BuiltArrives, Requests!OneSession
<1>8. QED
  BY <1>6, <1>7 DEF RequestsInv, Requests!Inv

LEMMA AnswerKeeps ==
  ASSUME RequestsInv, part = "identities", part' = part, Requests!Answer
  PROVE  RequestsInv'
<1>1. /\ Requests!Typed /\ Requests!Presented /\ Requests!Behind /\ Requests!OnItsWay
      /\ s3 = "commanded" /\ s3' = "answered"
      /\ UNCHANGED <<s1, s2, s4, s5, s6>>
      /\ Requests!BuiltArrives /\ Requests!OneSession
  BY DEF RequestsInv, Requests!Inv, Requests!Answer
<1>2. PICK p : s4 = {p} /\ Requests!IsPassport(p)
  BY <1>1 DEF Requests!Typed, Requests!Behind
<1>3. PICK m : Requests!Names(p, m) /\ s7 = <<m>> /\ s8 = <<m>>
  BY <1>1, <1>2 DEF Requests!OnItsWay
<1>4. PICK id \in Correlations :
        LET a == Requests!WithCausation(Requests!Metadata(s8[1].actor, s8[1].correlation), id) IN
        s7' = Append(s7, a) /\ s8' = Append(s8, Requests!Deserialized(Requests!Serialized(a)))
  BY DEF Requests!Answer
<1> DEFINE a == Requests!WithCausation(Requests!Metadata(s8[1].actor, s8[1].correlation), id)
<1>5. a = [actor |-> m.actor, correlation |-> m.correlation, causation |-> id]
  BY <1>3 DEF Requests!WithCausation, Requests!Metadata
<1>6. s7' = Append(s7, a) /\ s8' = Append(s8, Requests!Deserialized(Requests!Serialized(a)))
  BY <1>4
<1> HIDE DEF a
<1>7. Requests!Names(p, a) /\ a.correlation = m.correlation
  BY <1>3, <1>5 DEF Requests!Names
<1>8. s7' = <<m, a>> /\ s8' = <<m, a>>
  <2>1. Requests!Deserialized(Requests!Serialized(a)) = a
    BY <1>2, <1>7, OnTheWire
  <2>2. s7' = Append(<<m>>, a) /\ s8' = Append(<<m>>, a)
    BY <1>3, <1>6, <2>1
  <2>3. QED
    BY <2>2, AppendToOne
<1>9. Requests!Typed' /\ Requests!Presented' /\ Requests!Behind' /\ Requests!OnItsWay'
  BY <1>1, <1>2, <1>3, <1>7, <1>8 DEF Requests!Typed, Requests!Presented, Requests!Behind, Requests!OnItsWay
<1>10. Requests!BuiltArrives' /\ Requests!OneSession'
  BY <1>1 DEF Requests!BuiltArrives, Requests!OneSession
<1>11. QED
  BY <1>9, <1>10 DEF RequestsInv, Requests!Inv

LEMMA RequestsNext == RequestsInv /\ [ProvedNext]_vars => RequestsInv'
<1> SUFFICES ASSUME RequestsInv, [ProvedNext]_vars, part' = "identities" PROVE RequestsInv'
  BY DEF RequestsInv
<1>1. part = "identities" /\ part' = part
      /\ (Requests!Next \/ UNCHANGED <<s1, s2, s3, s4, s5, s6, s7, s8>>)
  BY DEF ProvedNext, vars
<1>2. CASE Requests!Next
  BY <1>1, <1>2, PrepareKeeps, PresentKeeps, AdmitKeeps, ImpersonateKeeps, SendCommandKeeps,
     AnswerKeeps DEF Requests!Next
<1>3. CASE UNCHANGED <<s1, s2, s3, s4, s5, s6, s7, s8>>
  BY <1>1, <1>3
     DEF RequestsInv, Requests!Inv, Requests!Typed, Requests!Presented, Requests!Behind, Requests!OnItsWay, Requests!BuiltArrives,
         Requests!OneSession
<1>4. QED
  BY <1>1, <1>2, <1>3

\* Singletons have at most one element.
LEMMA AtMostOne ==
  ASSUME NEW S, S = {} \/ \E x : S = {x}
  PROVE  Cardinality(S) <= 1
<1>1. CASE S = {}
  BY <1>1, FS_EmptySet
<1>2. CASE \E x : S = {x}
  BY <1>2, FS_Singleton
<1>3. QED
  BY <1>1, <1>2

\* Behind the guard there is one passport, all that its header said, and the session is the one cookie
\* with a value, whatever the headers and cookies are; the passport comes as it was built, and the
\* answer names who asked, any builders and ids (br-core-auth, br-util-axum-auth, br-core-events).
THEOREM IdentityCorrect == ProvedSpec => []IdentityHolds
<1>1. RequestsInv => IdentityHolds
  <2>1. SUFFICES ASSUME RequestsInv, part = "identities"
                 PROVE  Requests!TypeOK /\ Requests!IdentityHolds
    BY DEF IdentityHolds
  <2>2. /\ Requests!Typed /\ Requests!Presented /\ Requests!Behind /\ Requests!BuiltArrives /\ Requests!OneSession
        /\ Requests!OnItsWay
    BY <2>1 DEF RequestsInv, Requests!Inv
  <2>3. Requests!TypeOK
    <3>1. Cardinality(s1) <= 1 /\ Cardinality(s4) <= 1 /\ Cardinality(s6) <= 1
      BY <2>2, AtMostOne DEF Requests!Typed
    <3>2. QED
      BY <2>2, <3>1, RequestsCount DEF Requests!Typed, Requests!TypeOK
  <2>4. Requests!OnePassport
    <3>1. \A p \in s4 : Requests!IsPassport(p)
      BY <2>2 DEF Requests!Typed
    <3>2. ASSUME NEW p \in s4
          PROVE  /\ Cardinality(Requests!UserId(p) \cup Requests!ServiceAccountId(p)) = 1
                 /\ p.kind = "service" =>
                      /\ ~Requests!IsSuperAdmin(p) /\ ~Requests!IsPat(p)
                      /\ Requests!ImpersonatorId(p) = NoId /\ Requests!IsActive(p)
      <4>1. p.kind \in {"human", "service"}
        BY <3>1, PassportKinds
      <4>2. Requests!UserId(p) \cup Requests!ServiceAccountId(p) = {p.id}
        BY <4>1 DEF Requests!UserId, Requests!ServiceAccountId
      <4>3. Cardinality({p.id}) = 1
        BY FS_Singleton
      <4>4. QED
        BY <4>2, <4>3 DEF Requests!IsSuperAdmin, Requests!IsPat, Requests!ImpersonatorId,
                          Requests!IsActive
    <3>3. \A p \in s4 : /\ Requests!Reads(Requests!ToHeader(p))
                        /\ Requests!PassportOf(Requests!ToHeader(p)) = p
      BY <3>1, RoundTrip
    <3>4. QED
      BY <2>2, <3>2, <3>3, RequestsCount DEF Requests!Behind, Requests!OnePassport
  <2>5. Requests!ScopesAgree
    BY RequestsConstants DEF Requests!ScopesAgree, Requests!HasScope, Requests!Scopes
  <2>6. Requests!SameActorThroughout
    <3>1. SUFFICES ASSUME NEW n \in DOMAIN s8, NEW p \in s4
                   PROVE  s8[n].actor = Requests!ToActor(p) /\ s8[n].correlation = s7[1].correlation
      BY <2>2 DEF Requests!OnItsWay, Requests!SameActorThroughout
    <3>2. CASE s3 = "commanded"
      <4>1. PICK m : Requests!Names(p, m) /\ s7 = <<m>> /\ s8 = <<m>>
        BY <2>2, <3>2 DEF Requests!OnItsWay
      <4>2. n = 1
        BY <4>1
      <4>3. QED
        BY <4>1, <4>2 DEF Requests!Names
    <3>3. CASE s3 = "answered"
      <4>1. PICK m, a : /\ Requests!Names(p, m) /\ Requests!Names(p, a) /\ s7 = <<m, a>> /\ s8 = <<m, a>>
                        /\ a.correlation = m.correlation
        BY <2>2, <3>3 DEF Requests!OnItsWay
      <4>2. n \in {1, 2}
        BY <4>1
      <4>3. QED
        BY <4>1, <4>2 DEF Requests!Names
    <3>4. CASE s3 \notin {"commanded", "answered"}
      BY <2>2, <3>4 DEF Requests!OnItsWay
    <3>5. QED
      BY <3>2, <3>3, <3>4
  <2>7. QED
    BY <2>2, <2>3, <2>4, <2>5, <2>6 DEF Requests!IdentityHolds
<1>2. QED
  BY RequestsInit, RequestsNext, <1>1, PTL DEF ProvedSpec

-----------------------------------------------------------------------------
(* ServiceEdge: per request s1 stage, s2 target, s3 reply; s4 gauge, s5 total, s6 readiness; *)
(* per task s7 owed; s8 lines, s9 turns, s10 sets; per request s11 seen.                     *)

(* The visitor of a log line folds the fields of an event: it takes them by their largest    *)
(* index, so what it has after k of them is proved by induction on k.                        *)

\* The module's own cardinality is that of the library.
LEMMA EdgeCount == \A S : Edge!Cardinality(S) = Cardinality(S)
BY DEF Cardinality, Edge!Cardinality

NoneYet == [message |-> "none", fields |-> <<>>]

\* it folds the fields, the last of them last.
Folding(fields, k, it) ==
  it = [T \in SUBSET (1..k) |->
          IF T = {} THEN NoneYet ELSE Edge!Record(it[T \ {Edge!Max(T)}], fields[Edge!Max(T)])]

\* A set of the first numbers has a largest.
LEMMA LargestOf ==
  ASSUME NEW k \in Nat, NEW T \in SUBSET (1..k), T # {}
  PROVE  /\ Edge!Max(T) \in T /\ \A y \in T : y <= Edge!Max(T)
<1> DEFINE D == {k - y : y \in T}
<1>1. D \in SUBSET Nat /\ D # {}
  <2>1. \A y \in T : k - y \in Nat
    OBVIOUS
  <2>2. PICK y \in T : TRUE
    OBVIOUS
  <2>3. k - y \in D
    OBVIOUS
  <2>4. QED
    BY <2>1, <2>3
<1>2. PICK d \in D : \A e \in D : d <= e
  <2> HIDE DEF D
  <2> QED BY <1>1, LeastNat
<1>3. PICK x \in T : d = k - x
  OBVIOUS
<1>4. \A y \in T : x >= y
  <2>1. TAKE y \in T
  <2>2. d <= k - y /\ x \in Nat /\ y \in Nat
    BY <1>2
  <2>3. QED
    BY <1>3, <2>2
<1>5. \E z \in T : \A y \in T : z >= y
  BY <1>4
<1>6. Edge!Max(T) \in T /\ \A y \in T : Edge!Max(T) >= y
  BY <1>5 DEF Edge!Max
<1>7. QED
  BY <1>6

LEMMA FoldingExists ==
  ASSUME NEW fields, NEW n \in Nat
  PROVE  \E it : Folding(fields, n, it)
<1> DEFINE N == {k \in Nat : \E it : Folding(fields, k, it)}
<1>1. 0 \in N
  <2> DEFINE it == [T \in SUBSET (1..0) |-> NoneYet]
  <2>1. \A T \in SUBSET (1..0) : T = {}
    OBVIOUS
  <2>2. it = [T \in SUBSET (1..0) |->
          IF T = {} THEN NoneYet ELSE Edge!Record(it[T \ {Edge!Max(T)}], fields[Edge!Max(T)])]
    BY <2>1
  <2> HIDE DEF it
  <2>3. Folding(fields, 0, it)
    BY <2>2 DEF Folding
  <2>4. QED
    BY <2>3
<1>2. ASSUME NEW k \in N PROVE k + 1 \in N
  <2>1. PICK it : Folding(fields, k, it)
    OBVIOUS
  <2>2. k \in Nat
    OBVIOUS
  <2> DEFINE h == [T \in SUBSET (1..(k + 1)) |->
                     IF k + 1 \in T THEN Edge!Record(it[T \ {k + 1}], fields[k + 1]) ELSE it[T]]
  <2>3. ASSUME NEW T \in SUBSET (1..(k + 1))
        PROVE  h[T] = IF T = {} THEN NoneYet
                      ELSE Edge!Record(h[T \ {Edge!Max(T)}], fields[Edge!Max(T)])
    <3>1. CASE k + 1 \in T
      <4>1. Edge!Max(T) \in T /\ \A y \in T : y <= Edge!Max(T)
        BY <2>2, <3>1, LargestOf
      <4>2. Edge!Max(T) = k + 1
        <5>1. Edge!Max(T) \in 1..(k + 1) /\ k + 1 <= Edge!Max(T)
          BY <3>1, <4>1
        <5>2. QED
          BY <2>2, <5>1
      <4>3. T \ {k + 1} \in SUBSET (1..(k + 1)) /\ k + 1 \notin T \ {k + 1} /\ T # {}
        BY <3>1
      <4>4. h[T \ {k + 1}] = it[T \ {k + 1}]
        BY <4>3
      <4>5. h[T] = Edge!Record(it[T \ {k + 1}], fields[k + 1])
        BY <3>1
      <4> HIDE DEF h
      <4>6. QED
        BY <4>2, <4>3, <4>4, <4>5
    <3>2. CASE k + 1 \notin T
      <4>1. T \in SUBSET (1..k) /\ h[T] = it[T]
        BY <2>2, <3>2
      <4>2. CASE T = {}
        BY <2>1, <4>1, <4>2 DEF Folding
      <4>3. CASE T # {}
        <5>1. T \ {Edge!Max(T)} \in SUBSET (1..(k + 1)) /\ k + 1 \notin T \ {Edge!Max(T)}
          BY <3>2
        <5>2. h[T \ {Edge!Max(T)}] = it[T \ {Edge!Max(T)}]
          BY <5>1
        <5>3. it[T] = Edge!Record(it[T \ {Edge!Max(T)}], fields[Edge!Max(T)])
          BY <2>1, <4>1, <4>3 DEF Folding
        <5> HIDE DEF h
        <5>4. QED
          BY <4>1, <4>3, <5>2, <5>3
      <4>4. QED
        BY <4>2, <4>3
    <3>3. QED
      BY <3>1, <3>2
  <2>4. h = [T \in SUBSET (1..(k + 1)) |-> h[T]]
    OBVIOUS
  <2> HIDE DEF h
  <2>5. Folding(fields, k + 1, h)
    BY <2>3, <2>4 DEF Folding
  <2>6. QED
    BY <2>2, <2>5
<1>3. N \in SUBSET Nat
  OBVIOUS
<1>4. N = Nat
  <2> HIDE DEF N
  <2> QED BY <1>1, <1>2, <1>3, SetInduction
<1>5. QED
  BY <1>4

LEMMA VisitedFolds ==
  ASSUME NEW event, NEW n \in Nat, DOMAIN event.fields = 1..n
  PROVE  \E it : Folding(event.fields, n, it) /\ Edge!Visited(event) = it[1..n]
<1> DEFINE it == CHOOSE it : Folding(event.fields, n, it)
<1>1. Folding(event.fields, n, it)
  BY FoldingExists
<1>2. Edge!Visited(event) = it[1..n]
  BY DEF Edge!Visited, Edge!FoldLeft, Edge!MapThenFoldSet, Folding, NoneYet, Edge!NoMessage
<1>3. QED
  BY <1>1, <1>2

-----------------------------------------------------------------------------
(* Log lines *)

\* What the fields of an event are, and what is text among them.
Fields(f, n) ==
  /\ n \in Nat /\ DOMAIN f = 1..n
  /\ \A i \in 1..n : f[i].kind = "number" \/ f[i].value \notin {"none", "NaN"}

Texts(f, k) == {i \in 1..k : f[i].name = "message" /\ f[i].kind \in {"str", "debug"}}
Shown(field) == IF field.value = "NaN" THEN "null" ELSE field.value

\* What the visitor v has after the first k of the fields.
HasVisited(f, k, v) ==
  /\ v = [message |-> v.message, fields |-> v.fields]
  /\ Texts(f, k) = {} => v.message = "none"
  /\ Texts(f, k) # {} => v.message # "none"
  /\ \A i \in Texts(f, k) : (\A j \in Texts(f, k) : i <= j) => v.message = f[i].value
  /\ \A i \in 1..k :
       f[i].name # "message" /\ (\A j \in 1..k : j > i => f[j].name # f[i].name) =>
         f[i].name \in DOMAIN v.fields /\ v.fields[f[i].name] = Shown(f[i])

LEMMA RecordHolds ==
  ASSUME NEW f, NEW n \in Nat, Fields(f, n), NEW k \in 0..(n - 1), NEW v, HasVisited(f, k, v)
  PROVE  HasVisited(f, k + 1, Edge!Record(v, f[k + 1]))
<1> DEFINE field == f[k + 1]
           w == Edge!Record(v, field)
<1>1. /\ k \in Nat /\ k + 1 \in 1..n /\ 1..(k + 1) = (1..k) \cup {k + 1}
      /\ \A i \in 1..k : i < k + 1 /\ i \in Nat /\ i \in 1..n
  OBVIOUS
<1>2. field.kind = "number" \/ field.value \notin {"none", "NaN"}
  BY <1>1 DEF Fields
<1>3. Shown(field) = IF field.value = "NaN" THEN "null" ELSE field.value
  BY DEF Shown
<1>4. v = [message |-> v.message, fields |-> v.fields]
  BY DEF HasVisited
<1>5. Texts(f, k + 1) = IF field.name = "message" /\ field.kind \in {"str", "debug"}
                          THEN Texts(f, k) \cup {k + 1} ELSE Texts(f, k)
  BY <1>1 DEF Texts
<1>6. Texts(f, k) \subseteq 1..k
  BY DEF Texts
<1> HIDE DEF field
<1>7. CASE field.name = "message" /\ field.kind \in {"str", "debug"} /\ v.message = "none"
  <2>1. w = [v EXCEPT !.message = Shown(field)]
    BY <1>3, <1>7 DEF Edge!Record, Edge!NoMessage
  <2>2. w.message = field.value /\ w.fields = v.fields
        /\ w = [message |-> w.message, fields |-> w.fields]
    BY <1>2, <1>3, <1>4, <1>7, <2>1
  <2>3. field.value # "none"
    BY <1>2, <1>7
  <2>4. Texts(f, k) = {}
    BY <1>7 DEF HasVisited
  <2>5. Texts(f, k + 1) = {k + 1}
    BY <1>5, <1>7, <2>4
  <2> HIDE DEF w
  <2>6. ASSUME NEW i \in 1..(k + 1), f[i].name # "message",
               \A j \in 1..(k + 1) : j > i => f[j].name # f[i].name
        PROVE  f[i].name \in DOMAIN w.fields /\ w.fields[f[i].name] = Shown(f[i])
    <3>1. i \in 1..k
      BY <1>1, <1>7, <2>6 DEF field
    <3>2. \A j \in 1..k : j > i => f[j].name # f[i].name
      BY <1>1, <2>6
    <3>3. QED
      BY <2>2, <2>6, <3>1, <3>2 DEF HasVisited
  <2>7. HasVisited(f, k + 1, w)
    BY <2>2, <2>3, <2>5, <2>6 DEF HasVisited, field
  <2>8. QED
    BY <2>7 DEF w, field
<1>8. CASE ~(field.name = "message" /\ field.kind \in {"str", "debug"} /\ v.message = "none")
  <2> DEFINE one == [name \in {field.name} |-> Shown(field)]
  <2>1. w = [v EXCEPT !.fields = Edge!Over(one, @)]
    BY <1>3, <1>8 DEF Edge!Record, Edge!NoMessage
  <2>2. w.message = v.message /\ w.fields = Edge!Over(one, v.fields)
        /\ w = [message |-> w.message, fields |-> w.fields]
    BY <1>4, <2>1
  <2> HIDE DEF w
  <2>3. /\ DOMAIN w.fields = {field.name} \cup DOMAIN v.fields
        /\ w.fields[field.name] = Shown(field)
        /\ \A name \in DOMAIN v.fields : name # field.name => w.fields[name] = v.fields[name]
    BY <2>2 DEF Edge!Over
  <2>4. w.message # "none" <=> Texts(f, k + 1) # {}
    <3>1. v.message # "none" <=> Texts(f, k) # {}
      BY DEF HasVisited
    <3>2. QED
      BY <1>5, <1>8, <2>2, <3>1
  <2>5. ASSUME NEW i \in Texts(f, k + 1), \A j \in Texts(f, k + 1) : i <= j
        PROVE  w.message = f[i].value
    <3>1. i \in Texts(f, k)
      <4>1. CASE Texts(f, k) = {}
        BY <1>5, <1>8, <4>1 DEF HasVisited
      <4>2. CASE Texts(f, k) # {}
        <5>1. PICK j \in Texts(f, k) : TRUE
          BY <4>2
        <5>2. j \in Texts(f, k + 1) /\ j < k + 1 /\ i <= j
          BY <1>1, <1>5, <1>6, <2>5
        <5>3. i # k + 1
          <6>1. j \in Nat /\ j < k + 1
            BY <1>1, <1>6, <5>1, <5>2
          <6>2. QED
            BY <1>1, <5>2, <6>1
        <5>4. QED
          BY <1>5, <5>3
      <4>3. QED
        BY <4>1, <4>2
    <3>2. \A j \in Texts(f, k) : i <= j
      BY <1>5, <2>5
    <3>3. QED
      BY <2>2, <3>1, <3>2 DEF HasVisited
  <2>6. ASSUME NEW i \in 1..(k + 1), f[i].name # "message",
               \A j \in 1..(k + 1) : j > i => f[j].name # f[i].name
        PROVE  f[i].name \in DOMAIN w.fields /\ w.fields[f[i].name] = Shown(f[i])
    <3>1. CASE i = k + 1
      BY <2>3, <3>1 DEF field
    <3>2. CASE i # k + 1
      <4>1. i \in 1..k
        BY <1>1, <3>2
      <4>2. \A j \in 1..k : j > i => f[j].name # f[i].name
        BY <1>1, <2>6
      <4>3. f[i].name \in DOMAIN v.fields /\ v.fields[f[i].name] = Shown(f[i])
        BY <2>6, <4>1, <4>2 DEF HasVisited
      <4>4. field.name # f[i].name
        BY <1>1, <2>6, <4>1 DEF field
      <4>5. QED
        BY <2>3, <4>3, <4>4
    <3>3. QED
      BY <3>1, <3>2
  <2>7. HasVisited(f, k + 1, w)
    BY <2>2, <2>4, <2>5, <2>6 DEF HasVisited
  <2>8. QED
    BY <2>7 DEF w, field
<1>9. QED
  BY <1>7, <1>8

LEMMA VisitedHolds ==
  ASSUME NEW event, NEW n \in Nat, Fields(event.fields, n)
  PROVE  HasVisited(event.fields, n, Edge!Visited(event))
<1> DEFINE f == event.fields
<1>1. DOMAIN f = 1..n
  BY DEF Fields
<1>2. PICK it : Folding(f, n, it) /\ Edge!Visited(event) = it[1..n]
  BY <1>1, VisitedFolds
<1> DEFINE N == {k \in Nat : k <= n => HasVisited(f, k, it[1..k])}
<1> HIDE DEF f
<1>3. 0 \in N
  <2>1. it[1..0] = NoneYet /\ 1..0 = {}
    BY <1>2 DEF Folding
  <2>2. Texts(f, 0) = {}
    BY <2>1 DEF Texts
  <2>3. HasVisited(f, 0, NoneYet)
    BY <2>1, <2>2 DEF HasVisited, NoneYet
  <2>4. QED
    BY <2>1, <2>3
<1>4. ASSUME NEW k \in N PROVE k + 1 \in N
  <2>1. SUFFICES ASSUME k + 1 <= n PROVE HasVisited(f, k + 1, it[1..(k + 1)])
    OBVIOUS
  <2>2. k \in Nat /\ k <= n /\ k \in 0..(n - 1) /\ HasVisited(f, k, it[1..k])
    BY <2>1
  <2>3. 1..(k + 1) \in SUBSET (1..n) /\ k + 1 \in 1..(k + 1) /\ (1..(k + 1)) \ {k + 1} = 1..k
    BY <2>1, <2>2
  <2>4. Edge!Max(1..(k + 1)) = k + 1
    <3>1. /\ Edge!Max(1..(k + 1)) \in 1..(k + 1)
          /\ \A y \in 1..(k + 1) : y <= Edge!Max(1..(k + 1))
      BY <2>2, <2>3, LargestOf
    <3>2. Edge!Max(1..(k + 1)) \in Nat /\ Edge!Max(1..(k + 1)) <= k + 1
          /\ k + 1 <= Edge!Max(1..(k + 1))
      BY <2>3, <3>1
    <3>3. QED
      BY <2>2, <3>2
  <2>5. it[1..(k + 1)] = Edge!Record(it[1..k], f[k + 1])
    <3>1. 1..(k + 1) # {}
      BY <2>3
    <3>2. it[1..(k + 1)] = Edge!Record(it[(1..(k + 1)) \ {Edge!Max(1..(k + 1))}],
                                       f[Edge!Max(1..(k + 1))])
      BY <1>2, <2>3, <3>1 DEF Folding
    <3>3. QED
      BY <2>3, <2>4, <3>2
  <2>6. QED
    BY <2>2, <2>5, RecordHolds DEF f
<1>5. N \in SUBSET Nat
  OBVIOUS
<1>6. N = Nat
  <2> HIDE DEF N
  <2> QED BY <1>3, <1>4, <1>5, SetInduction
<1>7. HasVisited(f, n, it[1..n])
  BY <1>6
<1>8. QED
  BY <1>2, <1>7 DEF f

LEMMA FormattedIsOurs ==
  ASSUME NEW event, NEW n \in Nat, Fields(event.fields, n)
  PROVE  Edge!LineIsOurs(event, Edge!FormatEvent(event))
<1> DEFINE f == event.fields
           v == Edge!Visited(event)
           own == [ts |-> "now", level |-> event.level, component |-> Component]
           msg == IF v.message = "none" THEN <<>> ELSE [msg |-> v.message]
           kept == [name \in DOMAIN v.fields \ Edge!Reserved |-> v.fields[name]]
           line == Edge!FormatEvent(event)
<1>1. HasVisited(f, n, v) /\ DOMAIN f = 1..n
  BY VisitedHolds DEF Fields
<1>2. line = Edge!Over(Edge!Over(own, msg), kept)
  BY DEF Edge!FormatEvent, Edge!RenderLine, Edge!NoMessage
<1> HIDE DEF f, v, line
<1>3. DOMAIN own = {"ts", "level", "component"}
      /\ DOMAIN msg = (IF v.message = "none" THEN {} ELSE {"msg"})
      /\ DOMAIN kept = DOMAIN v.fields \ {"ts", "level", "component", "msg"}
  BY DEF Edge!Reserved
<1>4. /\ own["ts"] = "now" /\ own["level"] = event.level /\ own["component"] = Component
      /\ v.message # "none" => msg["msg"] = v.message
      /\ \A name \in DOMAIN kept : kept[name] = v.fields[name]
  OBVIOUS
<1> HIDE DEF own, msg, kept
<1> DEFINE head == Edge!Over(own, msg)
<1>5. /\ DOMAIN head = DOMAIN own \cup DOMAIN msg
      /\ head["ts"] = "now" /\ head["level"] = event.level /\ head["component"] = Component
      /\ v.message # "none" => head["msg"] = v.message
  BY <1>3, <1>4 DEF Edge!Over
<1> HIDE DEF head
<1>6. /\ DOMAIN line = DOMAIN head \cup DOMAIN kept
      /\ \A name \in DOMAIN head : line[name] = head[name]
      /\ \A name \in DOMAIN kept \ DOMAIN head : line[name] = kept[name]
  <2>1. line = Edge!Over(head, kept)
    BY <1>2 DEF head
  <2>2. QED
    BY <2>1 DEF Edge!Over
<1>7. /\ line["level"] = event.level /\ line["component"] = Component /\ line["ts"] = "now"
      /\ "msg" \in DOMAIN line <=> v.message # "none"
      /\ v.message # "none" => line["msg"] = v.message
  BY <1>3, <1>5, <1>6
<1>8. Texts(f, n) # {} => line["msg"] = f[Edge!Min(Texts(f, n))].value
  <2>1. SUFFICES ASSUME Texts(f, n) # {} PROVE line["msg"] = f[Edge!Min(Texts(f, n))].value
    OBVIOUS
  <2>2. Texts(f, n) \in SUBSET Nat
    BY DEF Texts
  <2>3. \E i \in Texts(f, n) : \A j \in Texts(f, n) : i <= j
    BY <2>1, <2>2, LeastNat
  <2>4. /\ Edge!Min(Texts(f, n)) \in Texts(f, n)
        /\ \A j \in Texts(f, n) : Edge!Min(Texts(f, n)) <= j
    BY <2>3 DEF Edge!Min
  <2>5. v.message = f[Edge!Min(Texts(f, n))].value /\ v.message # "none"
    BY <1>1, <2>1, <2>4 DEF HasVisited
  <2>6. QED
    BY <1>7, <2>5
<1>9. ASSUME NEW i \in 1..n, f[i].name \notin Edge!Reserved \cup {"message"},
             \A j \in 1..n : j > i => f[j].name # f[i].name
      PROVE  line[f[i].name] = IF f[i].value = "NaN" THEN "null" ELSE f[i].value
  <2>1. f[i].name \in DOMAIN v.fields /\ v.fields[f[i].name] = Shown(f[i])
    BY <1>1, <1>9 DEF HasVisited
  <2>2. f[i].name \in DOMAIN kept /\ f[i].name \notin DOMAIN head
    BY <1>3, <1>5, <1>9, <2>1 DEF Edge!Reserved
  <2>3. QED
    BY <1>4, <1>6, <2>1, <2>2 DEF Shown
<1>10. v.message # "none" <=> Texts(f, n) # {}
  BY <1>1 DEF HasVisited
<1> HIDE DEF f
<1>11. Texts(f, n) = {i \in DOMAIN f : f[i].name = "message" /\ f[i].kind \in {"str", "debug"}}
  BY <1>1 DEF Texts
<1>12. QED
  BY <1>1, <1>7, <1>8, <1>9, <1>10, <1>11 DEF Edge!LineIsOurs, f, line

-----------------------------------------------------------------------------
(* Counting: who is being answered, who was answered with a status, which lines are of the  *)
(* gate, and which tasks owe one.                                                           *)

LEMMA CountsOne ==
  ASSUME NEW S, IsFiniteSet(S), NEW x
  PROVE  /\ Edge!Cardinality(S) \in Nat
         /\ x \notin S => Edge!Cardinality(S \cup {x}) = Edge!Cardinality(S) + 1
         /\ x \in S => /\ Edge!Cardinality(S \ {x}) = Edge!Cardinality(S) - 1
                       /\ Edge!Cardinality(S) \in Nat \ {0}
<1>1. Cardinality(S) \in Nat
  BY FS_CardinalityType
<1>2. x \notin S => Cardinality(S \cup {x}) = Cardinality(S) + 1
  BY FS_AddElement
<1>3. x \in S => Cardinality(S \ {x}) = Cardinality(S) - 1 /\ Cardinality(S) # 0
  BY FS_RemoveElement, FS_EmptySet
<1>4. QED
  BY <1>1, <1>2, <1>3, EdgeCount

InFlight(stage, target, l) ==
  {r \in Actors : stage[r] \in {"entered", "counted"} /\ Edge!Label(target[r]) = l}
Answered(reply, target, l, status) ==
  {r \in Actors : reply[r] = status /\ Edge!Label(target[r]) = l}
Told(log) == {n \in DOMAIN log : log[n].event \notin LogEvents}
Owing(owed) == {t \in WatchKey : owed[t] # "none"}
Rendered ==
  {[event |-> event, line |-> Edge!FormatEvent(event)] : event \in LogEvents \cup Edge!GateEvents}

LEMMA EdgeSays ==
  /\ Edge!GaugeFollowsRequests <=>
       \A l \in Edge!Labels :
         /\ s4[l] = Edge!Cardinality(InFlight(s1, s2, l))
         /\ \A status \in Edge!Answers :
              s5[<<l, status>>] = Edge!Cardinality(Answered(s3, s2, l, status))
  /\ Edge!EveryTransitionLoggedOnce <=>
       s9 = Edge!Cardinality(Told(s8)) + Edge!Cardinality(Owing(s7))
  /\ Edge!Typed <=> Edge!TypeOK /\ s9 \in Nat /\ s8 \in Seq(Rendered)
BY DEF Edge!GaugeFollowsRequests, Edge!EveryTransitionLoggedOnce, Edge!Typed, InFlight, Answered,
       Told, Owing, Rendered

LEMMA EdgeSays2 ==
  /\ Edge!GaugeFollowsRequests' <=>
       \A l \in Edge!Labels :
         /\ s4'[l] = Edge!Cardinality(InFlight(s1', s2', l))
         /\ \A status \in Edge!Answers :
              s5'[<<l, status>>] = Edge!Cardinality(Answered(s3', s2', l, status))
  /\ Edge!EveryTransitionLoggedOnce' <=>
       s9' = Edge!Cardinality(Told(s8')) + Edge!Cardinality(Owing(s7'))
  /\ Edge!Typed' <=> Edge!TypeOK' /\ s9' \in Nat /\ s8' \in Seq(Rendered)
BY DEF Edge!GaugeFollowsRequests, Edge!EveryTransitionLoggedOnce, Edge!Typed, InFlight, Answered,
       Told, Owing, Rendered

LEMMA EdgeFinite ==
  ASSUME NEW stage, NEW target, NEW reply, NEW l, NEW status, NEW owed
  PROVE  /\ IsFiniteSet(InFlight(stage, target, l)) /\ IsFiniteSet(Answered(reply, target, l, status))
         /\ IsFiniteSet(Owing(owed))
<1>1. /\ InFlight(stage, target, l) \in SUBSET Actors /\ Answered(reply, target, l, status) \in SUBSET Actors
      /\ Owing(owed) \in SUBSET WatchKey
  BY DEF InFlight, Answered, Owing
<1>2. QED
  BY <1>1, FS_Subset, EdgeConstants

LEMMA ToldFinite ==
  ASSUME NEW log \in Seq(Rendered)
  PROVE  IsFiniteSet(Told(log)) /\ Edge!Cardinality(Told(log)) \in Nat
<1>1. Len(log) \in Nat /\ DOMAIN log = 1..Len(log)
  BY LenProperties
<1>2. IsFiniteSet(1..Len(log)) /\ Told(log) \in SUBSET (1..Len(log))
  BY <1>1, FS_Interval DEF Told
<1>3. IsFiniteSet(Told(log))
  BY <1>2, FS_Subset
<1>4. QED
  BY <1>3, CountsOne

\* A line more: it counts when it is of the gate.
LEMMA ToldGrows ==
  ASSUME NEW log \in Seq(Rendered), NEW entry \in Rendered
  PROVE  /\ Append(log, entry) \in Seq(Rendered)
         /\ Edge!Cardinality(Told(log)) \in Nat
         /\ entry.event \in LogEvents =>
              Edge!Cardinality(Told(Append(log, entry))) = Edge!Cardinality(Told(log))
         /\ entry.event \notin LogEvents =>
              Edge!Cardinality(Told(Append(log, entry))) = Edge!Cardinality(Told(log)) + 1
<1> DEFINE more == Append(log, entry)
           n == Len(log)
<1>1. /\ n \in Nat /\ DOMAIN log = 1..n
      /\ more \in Seq(Rendered) /\ DOMAIN more = 1..(n + 1)
      /\ \A i \in 1..n : more[i] = log[i]
      /\ more[n + 1] = entry
  BY LenProperties, AppendProperties
<1>2. 1..(n + 1) = (1..n) \cup {n + 1} /\ n + 1 \notin 1..n
  BY <1>1
<1> HIDE DEF more, n
<1>3. Told(more) = IF entry.event \in LogEvents THEN Told(log) ELSE Told(log) \cup {n + 1}
  BY <1>1, <1>2 DEF Told
<1>4. n + 1 \notin Told(log)
  BY <1>1, <1>2 DEF Told
<1>5. QED
  BY <1>1, <1>3, <1>4, ToldFinite, CountsOne DEF more

-----------------------------------------------------------------------------
EdgeInv == part = "edge" => Edge!Inv

LEMMA EdgeInit == ProvedInit => EdgeInv
<1>1. SUFFICES ASSUME Edge!Init PROVE Edge!Inv
  BY DEF ProvedInit, EdgeInv
<1>3. Edge!TypeOK /\ s9 \in Nat /\ s8 \in Seq(Rendered)
  BY <1>1, EmptySeq DEF Edge!Init, Edge!InitMetrics, Edge!TypeOK, Edge!Gate
<1>4. Edge!Asked
  BY <1>1 DEF Edge!Init, Edge!Asked
<1>5. Edge!Cardinality({}) = 0
  BY EdgeCount, FS_EmptySet
<1>6. Edge!GaugeFollowsRequests
  <2>1. ASSUME NEW l \in Edge!Labels
        PROVE  s4[l] = Edge!Cardinality(InFlight(s1, s2, l))
    <3>1. InFlight(s1, s2, l) = {}
      BY <1>1 DEF Edge!Init, InFlight
    <3>2. QED
      BY <1>1, <1>5, <3>1 DEF Edge!Init, Edge!InitMetrics
  <2>2. ASSUME NEW l \in Edge!Labels, NEW status \in Edge!Answers
        PROVE  s5[<<l, status>>] = Edge!Cardinality(Answered(s3, s2, l, status))
    <3>1. status # 0
      BY EdgeConstants DEF Edge!Answers
    <3>2. Answered(s3, s2, l, status) = {}
      BY <1>1, <3>1 DEF Edge!Init, Answered
    <3>3. QED
      BY <1>1, <1>5, <3>2 DEF Edge!Init, Edge!InitMetrics
  <2>3. QED
    BY <2>1, <2>2, EdgeSays
<1>7. Edge!EveryTransitionLoggedOnce
  <2>1. Told(s8) = {} /\ Owing(s7) = {} /\ s9 = 0
    BY <1>1 DEF Edge!Init, Told, Owing
  <2>2. QED
    BY <1>5, <2>1, EdgeSays
<1>8. QED
  BY <1>3, <1>4, <1>6, <1>7, EdgeSays DEF Edge!Inv

LEMMA LogKeeps ==
  ASSUME Edge!Inv, NEW event \in LogEvents, Edge!Log(event)
  PROVE  Edge!Inv'
<1>1. /\ Edge!Typed /\ Edge!Asked /\ Edge!GaugeFollowsRequests /\ Edge!EveryTransitionLoggedOnce
      /\ Edge!TypeOK /\ s9 \in Nat /\ s8 \in Seq(Rendered)
  BY EdgeSays DEF Edge!Inv
<1>2. /\ s8' = Append(s8, [event |-> event, line |-> Edge!FormatEvent(event)])
      /\ UNCHANGED <<s1, s2, s3, s4, s5, s6, s7, s9, s10, s11>>
  BY DEF Edge!Log, Edge!Write, Edge!http, Edge!gate
<1>3. [event |-> event, line |-> Edge!FormatEvent(event)] \in Rendered
  BY DEF Rendered
<1>4. s8' \in Seq(Rendered) /\ Edge!Cardinality(Told(s8')) = Edge!Cardinality(Told(s8))
  BY <1>1, <1>2, <1>3, ToldGrows
<1>5. Edge!Typed' /\ Edge!Asked'
  BY <1>1, <1>2, <1>4, EdgeSays2 DEF Edge!TypeOK, Edge!Asked
<1>6. Edge!GaugeFollowsRequests'
  BY <1>1, <1>2, EdgeSays, EdgeSays2
<1>7. Edge!EveryTransitionLoggedOnce'
  BY <1>1, <1>2, <1>4, EdgeSays, EdgeSays2
<1>8. QED
  BY <1>5, <1>6, <1>7 DEF Edge!Inv

LEMMA TurnKeeps ==
  ASSUME Edge!Inv, NEW t \in WatchKey, NEW to \in Edge!Gate, Edge!Turn(t, to)
  PROVE  Edge!Inv'
<1>1. /\ Edge!Typed /\ Edge!Asked /\ Edge!GaugeFollowsRequests /\ Edge!EveryTransitionLoggedOnce
      /\ Edge!TypeOK /\ s9 \in Nat /\ s8 \in Seq(Rendered)
  BY EdgeSays DEF Edge!Inv
<1>2. /\ s7[t] = "none" /\ s6' = to
      /\ s7' = [s7 EXCEPT ![t] = IF s6 = to THEN "none" ELSE to]
      /\ s9' = IF s6 = to THEN s9 ELSE s9 + 1
      /\ UNCHANGED <<s1, s2, s3, s4, s5, s8>>
  BY DEF Edge!Turn, Edge!http
<1>3. s7 \in [WatchKey -> Edge!Gate \cup {"none"}] /\ s7' \in [WatchKey -> Edge!Gate \cup {"none"}]
  BY <1>1, <1>2 DEF Edge!TypeOK
<1>4. Edge!Typed' /\ Edge!Asked'
  BY <1>1, <1>2, <1>3, EdgeSays2 DEF Edge!TypeOK, Edge!Asked
<1>5. Edge!GaugeFollowsRequests'
  BY <1>1, <1>2, EdgeSays, EdgeSays2
<1>6. Edge!EveryTransitionLoggedOnce'
  <2>1. s9 = Edge!Cardinality(Told(s8)) + Edge!Cardinality(Owing(s7))
    BY <1>1, EdgeSays
  <2>2. Edge!Cardinality(Owing(s7)) \in Nat /\ Edge!Cardinality(Told(s8)) \in Nat
    <3>1. Edge!Cardinality(Owing(s7)) \in Nat
      BY EdgeFinite, CountsOne
    <3>2. Edge!Cardinality(Told(s8)) \in Nat
      BY <1>1, ToldFinite
    <3>3. QED
      BY <3>1, <3>2
  <2>3. CASE s6 = to
    <3>1. Owing(s7') = Owing(s7)
      BY <1>2, <1>3, <2>3 DEF Owing
    <3>2. QED
      BY <1>2, <2>1, <2>3, <3>1, EdgeSays2
  <2>4. CASE s6 # to
    <3>1. to # "none"
      BY EdgeConstants DEF Edge!Gate, Edge!Ready
    <3>2. Owing(s7') = Owing(s7) \cup {t} /\ t \notin Owing(s7)
      BY <1>2, <1>3, <2>4, <3>1 DEF Owing
    <3>3. Edge!Cardinality(Owing(s7')) = Edge!Cardinality(Owing(s7)) + 1
      BY <3>2, EdgeFinite, CountsOne
    <3>4. s8' = s8 /\ s9' = s9 + 1
      BY <1>2, <2>4
    <3>5. QED
      BY <2>1, <2>2, <3>3, <3>4, EdgeSays2
  <2>5. QED
    BY <2>3, <2>4
<1>7. QED
  BY <1>4, <1>5, <1>6 DEF Edge!Inv

LEMMA TurnedKeeps ==
  ASSUME Edge!Inv, NEW t \in WatchKey, Edge!Turned(t)
  PROVE  Edge!Inv'
<1>1. /\ Edge!Typed /\ Edge!Asked /\ Edge!GaugeFollowsRequests /\ Edge!EveryTransitionLoggedOnce
      /\ Edge!TypeOK /\ s9 \in Nat /\ s8 \in Seq(Rendered)
  BY EdgeSays DEF Edge!Inv
<1> DEFINE event == IF s7[t] = Edge!Ready THEN Edge!Up ELSE Edge!Down(s7[t])
           entry == [event |-> event, line |-> Edge!FormatEvent(event)]
<1>2. /\ s7[t] # "none" /\ s8' = Append(s8, entry)
      /\ s7' = [s7 EXCEPT ![t] = "none"]
      /\ UNCHANGED <<s1, s2, s3, s4, s5, s6, s9>>
  BY DEF Edge!Turned, Edge!Write, Edge!http
<1>3. s7 \in [WatchKey -> Edge!Gate \cup {"none"}] /\ s7' \in [WatchKey -> Edge!Gate \cup {"none"}]
  BY <1>1, <1>2 DEF Edge!TypeOK
<1>4. event \in Edge!GateEvents /\ event \notin LogEvents
  BY <1>2, <1>3, EdgeConstants DEF Edge!GateEvents, Edge!Gate
<1> HIDE DEF event
<1>5. entry \in Rendered /\ entry.event \notin LogEvents
  BY <1>4 DEF Rendered
<1> HIDE DEF entry
<1>6. /\ s8' \in Seq(Rendered)
      /\ Edge!Cardinality(Told(s8)) \in Nat
      /\ Edge!Cardinality(Told(s8')) = Edge!Cardinality(Told(s8)) + 1
  BY <1>1, <1>2, <1>5, ToldGrows
<1>7. Edge!Typed' /\ Edge!Asked'
  BY <1>1, <1>2, <1>3, <1>6, EdgeSays2 DEF Edge!TypeOK, Edge!Asked
<1>8. Edge!GaugeFollowsRequests'
  BY <1>1, <1>2, EdgeSays, EdgeSays2
<1>9. Edge!EveryTransitionLoggedOnce'
  <2>1. s9 = Edge!Cardinality(Told(s8)) + Edge!Cardinality(Owing(s7))
    BY <1>1, EdgeSays
  <2>2. Owing(s7') = Owing(s7) \ {t} /\ t \in Owing(s7)
    BY <1>2, <1>3 DEF Owing
  <2>3. /\ Edge!Cardinality(Owing(s7')) = Edge!Cardinality(Owing(s7)) - 1
        /\ Edge!Cardinality(Owing(s7)) \in Nat
    BY <2>2, EdgeFinite, CountsOne
  <2>4. s9' = s9
    BY <1>2
  <2>5. QED
    BY <1>6, <2>1, <2>3, <2>4, EdgeSays2
<1>10. QED
  BY <1>7, <1>8, <1>9 DEF Edge!Inv

-----------------------------------------------------------------------------
(* A request *)

LEMMA NoAnswer == 0 \notin Edge!Answers
BY EdgeConstants DEF Edge!Answers

LEMMA AskKeeps ==
  ASSUME Edge!Inv, NEW r \in Actors, NEW t \in Routes, Edge!Call(r, t)
  PROVE  Edge!Inv'
<1>1. /\ Edge!Typed /\ Edge!Asked /\ Edge!GaugeFollowsRequests /\ Edge!EveryTransitionLoggedOnce
      /\ Edge!TypeOK /\ s9 \in Nat /\ s8 \in Seq(Rendered)
  BY EdgeSays DEF Edge!Inv
<1>2. /\ s1 \in [Actors -> {"idle", "called", "entered", "counted", "left"}]
      /\ s2 \in [Actors -> Routes \cup {Edge!NoTarget}]
      /\ s3 \in [Actors -> Edge!Answers \cup {0}]
      /\ s4 \in [Edge!Labels -> Nat] /\ s5 \in [Edge!Labels \X Edge!Answers -> Nat]
  BY <1>1 DEF Edge!TypeOK
<1>3. /\ s1[r] = "idle" /\ s1' = [s1 EXCEPT ![r] = "called"] /\ s2' = [s2 EXCEPT ![r] = t]
      /\ UNCHANGED <<s3, s4, s5, s6, s7, s8, s9>>
  BY DEF Edge!Call, Edge!gate
<1>4. s3[r] = 0
  BY <1>1, <1>3 DEF Edge!Asked
<1>5. Edge!Typed'
  BY <1>1, <1>2, <1>3, EdgeSays2 DEF Edge!TypeOK
<1>6. Edge!Asked'
  BY <1>1, <1>2, <1>3 DEF Edge!Asked
<1>7. Edge!GaugeFollowsRequests'
  <2>1. ASSUME NEW l \in Edge!Labels PROVE InFlight(s1', s2', l) = InFlight(s1, s2, l)
    BY <1>2, <1>3 DEF InFlight
  <2>2. ASSUME NEW l \in Edge!Labels, NEW status \in Edge!Answers
        PROVE  Answered(s3', s2', l, status) = Answered(s3, s2, l, status)
    BY <1>2, <1>3, <1>4, NoAnswer DEF Answered
  <2>3. QED
    BY <1>1, <1>3, <2>1, <2>2, EdgeSays, EdgeSays2
<1>8. Edge!EveryTransitionLoggedOnce'
  BY <1>1, <1>3, EdgeSays, EdgeSays2
<1>9. QED
  BY <1>5, <1>6, <1>7, <1>8 DEF Edge!Inv

LEMMA EnterKeeps ==
  ASSUME Edge!Inv, NEW r \in Actors, Edge!Enter(r)
  PROVE  Edge!Inv'
<1>1. /\ Edge!Typed /\ Edge!Asked /\ Edge!GaugeFollowsRequests /\ Edge!EveryTransitionLoggedOnce
      /\ Edge!TypeOK /\ s9 \in Nat /\ s8 \in Seq(Rendered)
  BY EdgeSays DEF Edge!Inv
<1>2. /\ s1 \in [Actors -> {"idle", "called", "entered", "counted", "left"}]
      /\ s2 \in [Actors -> Routes \cup {Edge!NoTarget}]
      /\ s3 \in [Actors -> Edge!Answers \cup {0}]
      /\ s4 \in [Edge!Labels -> Nat] /\ s5 \in [Edge!Labels \X Edge!Answers -> Nat]
  BY <1>1 DEF Edge!TypeOK
<1> DEFINE own == Edge!Label(s2[r])
<1>3. /\ s1[r] = "called" /\ s1' = [s1 EXCEPT ![r] = "entered"] /\ s4' = [s4 EXCEPT ![own] = @ + 1]
      /\ UNCHANGED <<s2, s3, s5, s6, s7, s8, s9>>
  BY DEF Edge!Enter, Edge!gate
<1>4. own \in Edge!Labels
  BY <1>1, <1>3 DEF Edge!Asked, Edge!Labels
<1> HIDE DEF own
<1>5. Edge!Typed'
  BY <1>1, <1>2, <1>3, <1>4, EdgeSays2 DEF Edge!TypeOK
<1>6. Edge!Asked'
  BY <1>1, <1>2, <1>3 DEF Edge!Asked
<1>7. Edge!GaugeFollowsRequests'
  <2>1. ASSUME NEW l \in Edge!Labels PROVE s4'[l] = Edge!Cardinality(InFlight(s1', s2', l))
    <3>1. s4[l] = Edge!Cardinality(InFlight(s1, s2, l))
      BY <1>1, EdgeSays
    <3>2. CASE l = own
      <4>1. InFlight(s1', s2', l) = InFlight(s1, s2, l) \cup {r} /\ r \notin InFlight(s1, s2, l)
        BY <1>2, <1>3, <3>2 DEF InFlight, own
      <4>2. Edge!Cardinality(InFlight(s1', s2', l)) = Edge!Cardinality(InFlight(s1, s2, l)) + 1
        BY <4>1, EdgeFinite, CountsOne
      <4>3. QED
        BY <1>2, <1>3, <3>1, <3>2, <4>2
    <3>3. CASE l # own
      <4>1. InFlight(s1', s2', l) = InFlight(s1, s2, l)
        BY <1>2, <1>3, <3>3 DEF InFlight, own
      <4>2. QED
        BY <1>2, <1>3, <3>1, <3>3, <4>1
    <3>4. QED
      BY <3>2, <3>3
  <2>2. QED
    BY <1>1, <1>3, <2>1, EdgeSays, EdgeSays2
<1>8. Edge!EveryTransitionLoggedOnce'
  BY <1>1, <1>3, EdgeSays, EdgeSays2
<1>9. QED
  BY <1>5, <1>6, <1>7, <1>8 DEF Edge!Inv

LEMMA CountKeeps ==
  ASSUME Edge!Inv, NEW r \in Actors, Edge!Count(r)
  PROVE  Edge!Inv'
<1>1. /\ Edge!Typed /\ Edge!Asked /\ Edge!GaugeFollowsRequests /\ Edge!EveryTransitionLoggedOnce
      /\ Edge!TypeOK /\ s9 \in Nat /\ s8 \in Seq(Rendered)
  BY EdgeSays DEF Edge!Inv
<1>2. /\ s1 \in [Actors -> {"idle", "called", "entered", "counted", "left"}]
      /\ s2 \in [Actors -> Routes \cup {Edge!NoTarget}]
      /\ s3 \in [Actors -> Edge!Answers \cup {0}]
      /\ s4 \in [Edge!Labels -> Nat] /\ s5 \in [Edge!Labels \X Edge!Answers -> Nat]
  BY <1>1 DEF Edge!TypeOK
<1> DEFINE own == Edge!Label(s2[r])
<1>3. PICK answer \in Edge!Handled(r) :
        /\ s1[r] = "entered" /\ s1' = [s1 EXCEPT ![r] = "counted"]
        /\ s3' = [s3 EXCEPT ![r] = answer] /\ s5' = [s5 EXCEPT ![<<own, answer>>] = @ + 1]
        /\ UNCHANGED <<s2, s4, s6, s7, s8, s9>>
  BY DEF Edge!Count, Edge!gate
<1>4. own \in Edge!Labels /\ s3[r] = 0
  BY <1>1, <1>3 DEF Edge!Asked, Edge!Labels
<1>5. answer \in Edge!Answers
  BY DEF Edge!Handled, Edge!LivenessRoute, Edge!MetricsRoute, Edge!ReadinessRoute, Edge!Answers
<1> HIDE DEF own
<1>6. <<own, answer>> \in Edge!Labels \X Edge!Answers
  BY <1>4, <1>5
<1>7. s5' \in [Edge!Labels \X Edge!Answers -> Nat]
  BY <1>2, <1>3, <1>6
<1>8. Edge!Typed'
  BY <1>1, <1>2, <1>3, <1>5, <1>7, EdgeSays2 DEF Edge!TypeOK
<1>9. Edge!Asked'
  BY <1>1, <1>2, <1>3 DEF Edge!Asked
<1>10. Edge!GaugeFollowsRequests'
  <2>1. ASSUME NEW l \in Edge!Labels PROVE InFlight(s1', s2', l) = InFlight(s1, s2, l)
    BY <1>2, <1>3 DEF InFlight
  <2>2. ASSUME NEW l \in Edge!Labels, NEW status \in Edge!Answers
        PROVE  s5'[<<l, status>>] = Edge!Cardinality(Answered(s3', s2', l, status))
    <3>1. s5[<<l, status>>] = Edge!Cardinality(Answered(s3, s2, l, status))
      BY <1>1, EdgeSays
    <3>2. <<l, status>> \in Edge!Labels \X Edge!Answers
      OBVIOUS
    <3>3. CASE l = own /\ status = answer
      <4>1. r \notin Answered(s3, s2, l, status)
        BY <1>4, NoAnswer DEF Answered
      <4>2. Answered(s3', s2', l, status) = Answered(s3, s2, l, status) \cup {r}
        BY <1>2, <1>3, <3>3 DEF Answered, own
      <4>3. Edge!Cardinality(Answered(s3', s2', l, status)) = Edge!Cardinality(Answered(s3, s2, l, status)) + 1
        BY <4>1, <4>2, EdgeFinite, CountsOne
      <4>4. s5'[<<l, status>>] = s5[<<l, status>>] + 1
        BY <1>2, <1>3, <3>2, <3>3
      <4>5. QED
        BY <3>1, <4>3, <4>4
    <3>4. CASE ~(l = own /\ status = answer)
      <4>1. Answered(s3', s2', l, status) = Answered(s3, s2, l, status)
        BY <1>2, <1>3, <1>4, <3>4, NoAnswer DEF Answered, own
      <4>2. <<l, status>> # <<own, answer>>
        BY <3>4
      <4>3. s5'[<<l, status>>] = s5[<<l, status>>]
        BY <1>2, <1>3, <3>2, <4>2
      <4>4. QED
        BY <3>1, <4>1, <4>3
    <3>5. QED
      BY <3>3, <3>4
  <2>3. QED
    BY <1>1, <1>3, <2>1, <2>2, EdgeSays, EdgeSays2
<1>11. Edge!EveryTransitionLoggedOnce'
  BY <1>1, <1>3, EdgeSays, EdgeSays2
<1>12. QED
  BY <1>8, <1>9, <1>10, <1>11 DEF Edge!Inv

LEMMA LeaveKeeps ==
  ASSUME Edge!Inv, NEW r \in Actors, Edge!Leave(r)
  PROVE  Edge!Inv'
<1>1. /\ Edge!Typed /\ Edge!Asked /\ Edge!GaugeFollowsRequests /\ Edge!EveryTransitionLoggedOnce
      /\ Edge!TypeOK /\ s9 \in Nat /\ s8 \in Seq(Rendered)
  BY EdgeSays DEF Edge!Inv
<1>2. /\ s1 \in [Actors -> {"idle", "called", "entered", "counted", "left"}]
      /\ s2 \in [Actors -> Routes \cup {Edge!NoTarget}]
      /\ s3 \in [Actors -> Edge!Answers \cup {0}]
      /\ s4 \in [Edge!Labels -> Nat] /\ s5 \in [Edge!Labels \X Edge!Answers -> Nat]
  BY <1>1 DEF Edge!TypeOK
<1> DEFINE own == Edge!Label(s2[r])
<1>3. /\ s1[r] \in {"entered", "counted"} /\ s1' = [s1 EXCEPT ![r] = "left"]
      /\ s4' = [s4 EXCEPT ![own] = @ - 1]
      /\ UNCHANGED <<s2, s3, s5, s6, s7, s8, s9>>
  BY DEF Edge!Leave, Edge!DropGuard, Edge!gate
<1>4. own \in Edge!Labels
  BY <1>1, <1>3 DEF Edge!Asked, Edge!Labels
<1>5. r \in InFlight(s1, s2, own)
  BY <1>3 DEF InFlight
<1> HIDE DEF own
<1>6. /\ Edge!Cardinality(InFlight(s1, s2, own) \ {r}) = Edge!Cardinality(InFlight(s1, s2, own)) - 1
      /\ Edge!Cardinality(InFlight(s1, s2, own)) \in Nat \ {0}
  BY <1>5, EdgeFinite, CountsOne
<1>7. s4[own] = Edge!Cardinality(InFlight(s1, s2, own))
  BY <1>1, <1>4, EdgeSays
<1>8. s4' \in [Edge!Labels -> Nat]
  <2>1. s4[own] - 1 \in Nat
    BY <1>6, <1>7
  <2>2. QED
    BY <1>2, <1>3, <1>4, <2>1
<1>9. Edge!Typed'
  BY <1>1, <1>2, <1>3, <1>8, EdgeSays2 DEF Edge!TypeOK
<1>10. Edge!Asked'
  BY <1>1, <1>2, <1>3 DEF Edge!Asked
<1>11. Edge!GaugeFollowsRequests'
  <2>1. ASSUME NEW l \in Edge!Labels PROVE s4'[l] = Edge!Cardinality(InFlight(s1', s2', l))
    <3>1. CASE l = own
      <4>1. InFlight(s1', s2', l) = InFlight(s1, s2, own) \ {r}
        BY <1>2, <1>3, <3>1 DEF InFlight
      <4>2. QED
        BY <1>2, <1>3, <1>4, <1>6, <1>7, <3>1, <4>1
    <3>2. CASE l # own
      <4>1. InFlight(s1', s2', l) = InFlight(s1, s2, l)
        BY <1>2, <1>3, <3>2 DEF InFlight, own
      <4>2. s4[l] = Edge!Cardinality(InFlight(s1, s2, l))
        BY <1>1, EdgeSays
      <4>3. QED
        BY <1>2, <1>3, <3>2, <4>1, <4>2
    <3>3. QED
      BY <3>1, <3>2
  <2>2. QED
    BY <1>1, <1>3, <2>1, EdgeSays, EdgeSays2
<1>12. Edge!EveryTransitionLoggedOnce'
  BY <1>1, <1>3, EdgeSays, EdgeSays2
<1>13. QED
  BY <1>9, <1>10, <1>11, <1>12 DEF Edge!Inv

LEMMA AbandonKeeps ==
  ASSUME Edge!Inv, NEW r \in Actors, Edge!Abandon(r)
  PROVE  Edge!Inv'
<1>1. /\ Edge!Typed /\ Edge!Asked /\ Edge!GaugeFollowsRequests /\ Edge!EveryTransitionLoggedOnce
      /\ Edge!TypeOK /\ s9 \in Nat /\ s8 \in Seq(Rendered)
  BY EdgeSays DEF Edge!Inv
<1>2. /\ s1 \in [Actors -> {"idle", "called", "entered", "counted", "left"}]
      /\ s2 \in [Actors -> Routes \cup {Edge!NoTarget}]
      /\ s3 \in [Actors -> Edge!Answers \cup {0}]
      /\ s4 \in [Edge!Labels -> Nat] /\ s5 \in [Edge!Labels \X Edge!Answers -> Nat]
  BY <1>1 DEF Edge!TypeOK
<1>3. /\ s1[r] = "called" /\ s1' = [s1 EXCEPT ![r] = "left"]
      /\ UNCHANGED <<s2, s3, s4, s5, s6, s7, s8, s9>>
  BY DEF Edge!Abandon, Edge!gate
<1>4. Edge!Typed'
  BY <1>1, <1>2, <1>3, EdgeSays2 DEF Edge!TypeOK
<1>5. Edge!Asked'
  BY <1>1, <1>2, <1>3 DEF Edge!Asked
<1>6. Edge!GaugeFollowsRequests'
  <2>1. ASSUME NEW l \in Edge!Labels PROVE InFlight(s1', s2', l) = InFlight(s1, s2, l)
    BY <1>2, <1>3 DEF InFlight
  <2>2. QED
    BY <1>1, <1>3, <2>1, EdgeSays, EdgeSays2
<1>7. Edge!EveryTransitionLoggedOnce'
  BY <1>1, <1>3, EdgeSays, EdgeSays2
<1>8. QED
  BY <1>4, <1>5, <1>6, <1>7 DEF Edge!Inv

LEMMA EdgeNext == EdgeInv /\ [ProvedNext]_vars => EdgeInv'
<1>1. SUFFICES ASSUME EdgeInv, [ProvedNext]_vars, part' = "edge" PROVE Edge!Inv'
  BY DEF EdgeInv
<1>2. part = "edge" /\ (Edge!Next \/ UNCHANGED vars)
  BY <1>1 DEF ProvedNext, vars
<1>3. Edge!Inv
  BY <1>1, <1>2 DEF EdgeInv
<1>4. CASE UNCHANGED vars
  <2>1. UNCHANGED <<s1, s2, s3, s4, s5, s6, s7, s8, s9>>
    BY <1>4 DEF vars
  <2>2. /\ Edge!TypeOK' /\ Edge!Asked' /\ s9' \in Nat /\ s8' \in Seq(Rendered)
    BY <1>3, <2>1, EdgeSays DEF Edge!Inv, Edge!TypeOK, Edge!Asked
  <2>3. Edge!GaugeFollowsRequests' /\ Edge!EveryTransitionLoggedOnce'
    BY <1>3, <2>1, EdgeSays, EdgeSays2 DEF Edge!Inv
  <2>4. QED
    BY <2>2, <2>3, EdgeSays2 DEF Edge!Inv
<1>5. ASSUME NEW event \in LogEvents, Edge!Log(event) PROVE Edge!Inv'
  BY <1>3, <1>5, LogKeeps
<1>6. ASSUME NEW t \in WatchKey, Edge!SetReady(t) PROVE Edge!Inv'
  BY <1>3, <1>6, TurnKeeps DEF Edge!SetReady, Edge!Gate
<1>7. ASSUME NEW t \in WatchKey, NEW reason \in Reasons, Edge!SetNotReady(t, reason) PROVE Edge!Inv'
  BY <1>3, <1>7, TurnKeeps DEF Edge!SetNotReady, Edge!Gate
<1>8. ASSUME NEW t \in WatchKey, Edge!Turned(t) PROVE Edge!Inv'
  BY <1>3, <1>8, TurnedKeeps
<1>9. ASSUME NEW r \in Actors, Edge!Enter(r) \/ Edge!Count(r) \/ Edge!Leave(r) \/ Edge!Abandon(r)
      PROVE  Edge!Inv'
  BY <1>3, <1>9, EnterKeeps, CountKeeps, LeaveKeeps, AbandonKeeps
<1>10. ASSUME NEW r \in Actors, NEW t \in Routes, Edge!Call(r, t) PROVE Edge!Inv'
  BY <1>3, <1>10, AskKeeps
<1>11. QED
  BY <1>2, <1>4, <1>5, <1>6, <1>7, <1>8, <1>9, <1>10 DEF Edge!Next

LEMMA GateEventFields ==
  ASSUME NEW event \in LogEvents \cup Edge!GateEvents
  PROVE  \E n \in Nat : Fields(event.fields, n)
<1>1. CASE event \in LogEvents
  <2>1. DOMAIN event.fields = 1..Len(event.fields) /\ Len(event.fields) \in Nat
    BY <1>1, EdgeConstants, LenProperties
  <2>2. QED
    BY <1>1, <2>1, EdgeConstants DEF Fields
<1>2. CASE event = Edge!Up
  <2> DEFINE f == event.fields
             text == Edge!Text("readiness: UP")
  <2>1. f = <<text>>
    BY <1>2 DEF Edge!Up
  <2>2. text.value \notin {"none", "NaN"}
    BY DEF Edge!Text
  <2> HIDE DEF f, text
  <2>3. DOMAIN f = 1..1 /\ \A i \in 1..1 : f[i] = text
    BY <2>1
  <2>4. Fields(f, 1)
    BY <2>2, <2>3 DEF Fields
  <2>5. QED
    BY <2>4 DEF f
<1>3. ASSUME NEW reason \in Reasons, event = Edge!Down(reason)
      PROVE  \E n \in Nat : Fields(event.fields, n)
  <2> DEFINE f == event.fields
             text == Edge!Text("readiness: DOWN")
             why == [name |-> "reason", kind |-> "debug", value |-> reason]
  <2>1. f = <<text, why>>
    BY <1>3 DEF Edge!Down
  <2>2. text.value \notin {"none", "NaN"} /\ why.value \notin {"none", "NaN"}
    BY EdgeConstants DEF Edge!Text
  <2> HIDE DEF f, text, why
  <2>3. DOMAIN f = 1..2 /\ \A i \in 1..2 : f[i] \in {text, why}
    BY <2>1
  <2>4. Fields(f, 2)
    BY <2>2, <2>3 DEF Fields
  <2>5. QED
    BY <2>4 DEF f
<1>4. QED
  BY <1>1, <1>2, <1>3 DEF Edge!GateEvents

\* ServiceEdge, for every request, task, event and status: the gauge is the number of requests
\* that were entered and not left, the counter that of the answered; no label is a path a client
\* chose; every transition of the gate is logged once; and a log line has its canonical values,
\* the first text called message, and the last value of every other field.
THEOREM EdgeCorrect == ProvedSpec => []EdgeTells
<1>1. EdgeInv => EdgeTells
  <2>1. SUFFICES ASSUME EdgeInv, part = "edge"
                 PROVE  /\ Edge!TypeOK /\ Edge!GaugeFollowsRequests /\ Edge!NoPathInLabels
                        /\ Edge!LinesAreOurs /\ Edge!EveryTransitionLoggedOnce
    BY DEF EdgeTells
  <2>2. /\ Edge!TypeOK /\ Edge!Asked /\ Edge!GaugeFollowsRequests /\ Edge!EveryTransitionLoggedOnce
        /\ s8 \in Seq(Rendered)
    BY <2>1, EdgeSays DEF EdgeInv, Edge!Inv
  <2>3. Edge!NoPathInLabels
    BY <2>2 DEF Edge!Asked, Edge!NoPathInLabels, Edge!Label, Edge!RouteLabel
  <2>4. Edge!LinesAreOurs
    <3>1. SUFFICES ASSUME NEW n \in DOMAIN s8 PROVE Edge!LineIsOurs(s8[n].event, s8[n].line)
      BY DEF Edge!LinesAreOurs
    <3>2. s8[n] \in Rendered
      BY <2>2, LenProperties, ElementOfSeq
    <3>3. PICK event \in LogEvents \cup Edge!GateEvents :
            s8[n] = [event |-> event, line |-> Edge!FormatEvent(event)]
      BY <3>2 DEF Rendered
    <3>4. PICK k \in Nat : Fields(event.fields, k)
      BY GateEventFields
    <3>5. Edge!LineIsOurs(event, Edge!FormatEvent(event))
      BY <3>4, FormattedIsOurs
    <3>6. QED
      BY <3>3, <3>5
  <2>5. QED
    BY <2>2, <2>3, <2>4
<1>2. QED
  BY EdgeInit, EdgeNext, <1>1, PTL DEF ProvedSpec

-----------------------------------------------------------------------------
(* ValueEdge: s1 product, s2 stage, s3 value, s4 stored, s5 shown, s6 refusal, s7 answers. *)

ValuesInv == part = "values" => Values!Inv

LEMMA SmallestPlace ==
  ASSUME NEW k \in Nat, NEW T \in SUBSET (1..k), T # {}
  PROVE  Values!Min(T) \in T /\ \A y \in T : Values!Min(T) <= y
<1>1. T \in SUBSET Nat
  OBVIOUS
<1>2. \E x \in T : \A y \in T : x <= y
  BY <1>1, LeastNat
<1>3. QED
  BY <1>2 DEF Values!Min

LEMMA LargestPlace ==
  ASSUME NEW k \in Nat, NEW T \in SUBSET (1..k), T # {}
  PROVE  Values!Max(T) \in T /\ \A y \in T : y <= Values!Max(T)
<1>1. Values!Max(T) = Edge!Max(T)
  BY DEF Values!Max, Edge!Max
<1>2. QED
  BY <1>1, LargestOf

\* A text that neither begins nor ends with white space is its own trimmed form.
LEMMA IsTrimmed ==
  ASSUME NEW S, NEW text \in Seq(S), text # <<>>, text[1] # Blank, text[Len(text)] # Blank
  PROVE  Values!Trim(text) = text
<1> DEFINE kept == {n \in DOMAIN text : text[n] # Blank}
<1>1. DOMAIN text = 1..Len(text) /\ Len(text) \in Nat /\ Len(text) >= 1
  OBVIOUS
<1>2. 1 \in kept /\ Len(text) \in kept /\ kept \in SUBSET (1..Len(text)) /\ kept # {}
  BY <1>1
<1>3. Values!Min(kept) = 1
  <2>1. Values!Min(kept) \in kept /\ Values!Min(kept) <= 1
    <3> HIDE DEF kept
    <3> QED BY <1>1, <1>2, SmallestPlace
  <2>2. Values!Min(kept) >= 1 /\ Values!Min(kept) \in Nat
    BY <1>2, <2>1
  <2>3. QED
    <3> HIDE DEF kept
    <3> QED BY <2>1, <2>2
<1>4. Values!Max(kept) = Len(text)
  <2>1. Values!Max(kept) \in kept /\ Len(text) <= Values!Max(kept)
    <3> HIDE DEF kept
    <3> QED BY <1>1, <1>2, LargestPlace
  <2>2. Values!Max(kept) <= Len(text) /\ Values!Max(kept) \in Nat
    BY <1>2, <2>1
  <2>3. QED
    <3> HIDE DEF kept
    <3> QED BY <1>1, <2>1, <2>2
<1>5. SubSeq(text, 1, Len(text)) = text
  BY <1>1
<1>6. Values!Trim(text) = IF kept = {} THEN <<>> ELSE SubSeq(text, Values!Min(kept), Values!Max(kept))
  BY DEF Values!Trim
<1>7. QED
  BY <1>2, <1>3, <1>4, <1>5, <1>6

\* Trimming leaves nothing to trim.
LEMMA TrimsOnce ==
  ASSUME NEW S, NEW text \in Seq(S)
  PROVE  Values!Trim(text) \in Seq(S) /\ Values!Trim(Values!Trim(text)) = Values!Trim(text)
<1> DEFINE kept == {n \in DOMAIN text : text[n] # Blank}
           lo == Values!Min(kept)
           hi == Values!Max(kept)
           trimmed == Values!Trim(text)
<1>1. DOMAIN text = 1..Len(text) /\ Len(text) \in Nat
  OBVIOUS
<1>2. trimmed = IF kept = {} THEN <<>> ELSE SubSeq(text, lo, hi)
  BY DEF Values!Trim
<1>3. CASE kept = {}
  <2>1. trimmed = <<>>
    BY <1>2, <1>3
  <2>2. {n \in DOMAIN <<>> : <<>>[n] # Blank} = {}
    OBVIOUS
  <2>3. Values!Trim(<<>>) = <<>>
    BY <2>2 DEF Values!Trim
  <2>4. QED
    BY <2>1, <2>3
<1>4. CASE kept # {}
  <2>1. kept \in SUBSET (1..Len(text))
    BY <1>1
  <2>2. lo \in kept /\ hi \in kept /\ lo <= hi
    <3> HIDE DEF kept
    <3> QED BY <1>1, <1>4, <2>1, SmallestPlace, LargestPlace
  <2>3. lo \in 1..Len(text) /\ hi \in 1..Len(text) /\ text[lo] # Blank /\ text[hi] # Blank
    BY <2>2
  <2> HIDE DEF kept, lo, hi
  <2>4. trimmed = SubSeq(text, lo, hi)
    BY <1>2, <1>4
  <2>5. /\ SubSeq(text, lo, hi) \in Seq(S) /\ Len(SubSeq(text, lo, hi)) = hi - lo + 1
        /\ \A n \in 1..(hi - lo + 1) : SubSeq(text, lo, hi)[n] = text[lo + n - 1]
    BY <1>1, <2>2, <2>3
  <2>6. hi - lo + 1 >= 1 /\ lo + 1 - 1 = lo /\ lo + (hi - lo + 1) - 1 = hi /\ hi - lo + 1 \in Nat
    BY <1>1, <2>2, <2>3
  <2>7. SubSeq(text, lo, hi)[1] = text[lo] /\ SubSeq(text, lo, hi)[hi - lo + 1] = text[hi]
    <3>1. \A n \in 1..(hi - lo + 1), m \in 1..Len(text) : m = lo + n - 1 => SubSeq(text, lo, hi)[n] = text[m]
      BY <2>5
    <3>2. PICK k \in Nat : k = hi - lo + 1
      BY <2>6
    <3>3. 1 \in 1..k /\ k \in 1..k /\ lo = lo + 1 - 1 /\ hi = lo + k - 1
      BY <2>6, <3>2, <2>3
    <3> HIDE DEF trimmed
    <3>4. SubSeq(text, lo, hi)[1] = text[lo] /\ SubSeq(text, lo, hi)[k] = text[hi]
      BY <2>3, <3>1, <3>2, <3>3
    <3>5. QED
      BY <3>2, <3>4
  <2>8. SubSeq(text, lo, hi) # <<>>
    <3>1. hi - lo + 1 # 0
      BY <2>6
    <3>2. Len(SubSeq(text, lo, hi)) # 0 /\ Len(<<>>) = 0
      BY <2>5, <3>1
    <3>3. QED
      BY <3>2
  <2>9. Values!Trim(SubSeq(text, lo, hi)) = SubSeq(text, lo, hi)
    BY <2>3, <2>5, <2>7, <2>8, IsTrimmed
  <2>10. QED
    BY <2>4, <2>5, <2>9
<1>5. QED
  BY <1>3, <1>4

-----------------------------------------------------------------------------
(* Codes and money *)

\* Letters in a row
LEMMA LettersJoin ==
  ASSUME NEW a, NEW b, NEW c
  PROVE  <<a>> \o <<b>> = <<a, b>> /\ <<a, b>> \o <<c>> = <<a, b, c>>
<1> DEFINE S == {a, b, c}
           two == <<a>> \o <<b>>
           three == <<a, b>> \o <<c>>
<1>1. /\ <<a>> \in Seq(S) /\ <<b>> \in Seq(S) /\ <<c>> \in Seq(S) /\ <<a, b>> \in Seq(S)
      /\ <<a, b, c>> \in Seq(S) /\ Len(<<a>>) = 1 /\ Len(<<b>>) = 1 /\ Len(<<c>>) = 1
      /\ Len(<<a, b>>) = 2 /\ Len(<<a, b, c>>) = 3 /\ 1 + 1 = 2 /\ 2 + 1 = 3
      /\ 1..1 = {1} /\ 1..2 = {1, 2} /\ 1..3 = {1, 2, 3}
  OBVIOUS
<1> HIDE DEF S
<1>2. /\ two \in Seq(S) /\ Len(two) = 1 + 1 /\ \A i \in 1..1 : two[i] = <<a>>[i]
      /\ \A i \in 1..1 : two[1 + i] = <<b>>[i]
  BY <1>1, Concatenated
<1>3. /\ three \in Seq(S) /\ Len(three) = 2 + 1 /\ \A i \in 1..2 : three[i] = <<a, b>>[i]
      /\ \A i \in 1..1 : three[2 + i] = <<c>>[i]
  BY <1>1, Concatenated
<1> HIDE DEF two, three
<1>4. \A i \in 1..2 : two[i] = <<a, b>>[i]
  BY <1>1, <1>2
<1>5. \A i \in 1..3 : three[i] = <<a, b, c>>[i]
  BY <1>1, <1>3
<1>6. two = <<a, b>>
  BY <1>1, <1>2, <1>4, SeqEqual
<1>7. three = <<a, b, c>>
  BY <1>1, <1>3, <1>5, SeqEqual
<1>8. QED
  BY <1>6, <1>7 DEF two, three

LEMMA TwoFlatten ==
  ASSUME NEW a, NEW b
  PROVE  Values!FlattenSeq(<<<<a>>, <<b>>>>) = <<a, b>>
<1> DEFINE seqs == <<<<a>>, <<b>>>>
           flat == [i \in 1..2 |-> IF i = 1 THEN <<a>> ELSE <<a, b>>]
           next(g, i) == IF i = 1 THEN seqs[i] ELSE g[i - 1] \o seqs[i]
           Flattens(g) == g = [i \in 1..Len(seqs) |-> next(g, i)]
           it == CHOOSE g : Flattens(g)
<1>1. Len(seqs) = 2 /\ seqs[1] = <<a>> /\ seqs[2] = <<b>> /\ 2 - 1 = 1 /\ 1..2 = {1, 2}
  OBVIOUS
<1>2. Values!FlattenSeq(seqs) = it[2]
  BY <1>1 DEF Values!FlattenSeq
<1> HIDE DEF seqs
<1>3. Flattens(flat)
  <2>1. flat[1] = <<a>> /\ flat[2] = <<a, b>>
    OBVIOUS
  <2>2. flat = [i \in 1..2 |-> flat[i]]
    OBVIOUS
  <2> HIDE DEF flat
  <2>3. flat[1] = next(flat, 1) /\ flat[2] = next(flat, 2)
    BY <1>1, <2>1, LettersJoin
  <2> HIDE DEF next
  <2>4. QED
    BY <1>1, <2>2, <2>3
<1>4. Flattens(it)
  <2> HIDE DEF flat, Flattens
  <2> QED BY <1>3
<1> HIDE DEF it
<1>5. it[1] = next(it, 1) /\ it[2] = next(it, 2)
  <2> HIDE DEF next
  <2> QED BY <1>1, <1>4
<1>6. it[1] = <<a>> /\ it[2] = it[1] \o <<b>>
  <2>1. next(it, 1) = seqs[1]
    OBVIOUS
  <2>2. next(it, 2) = it[2 - 1] \o seqs[2]
    OBVIOUS
  <2> HIDE DEF next
  <2>3. QED
    BY <1>1, <1>5, <2>1, <2>2
<1>7. QED
  BY <1>2, <1>6, LettersJoin DEF seqs

LEMMA ThreeFlatten ==
  ASSUME NEW a, NEW b, NEW c
  PROVE  Values!FlattenSeq(<<<<a>>, <<b>>, <<c>>>>) = <<a, b, c>>
<1> DEFINE seqs == <<<<a>>, <<b>>, <<c>>>>
           flat == [i \in 1..3 |-> IF i = 1 THEN <<a>> ELSE IF i = 2 THEN <<a, b>> ELSE <<a, b, c>>]
           next(g, i) == IF i = 1 THEN seqs[i] ELSE g[i - 1] \o seqs[i]
           Flattens(g) == g = [i \in 1..Len(seqs) |-> next(g, i)]
           it == CHOOSE g : Flattens(g)
<1>1. /\ Len(seqs) = 3 /\ seqs[1] = <<a>> /\ seqs[2] = <<b>> /\ seqs[3] = <<c>>
      /\ 2 - 1 = 1 /\ 3 - 1 = 2 /\ 1..3 = {1, 2, 3}
  OBVIOUS
<1>2. Values!FlattenSeq(seqs) = it[3]
  BY <1>1 DEF Values!FlattenSeq
<1> HIDE DEF seqs
<1>3. \A g : next(g, 1) = seqs[1] /\ next(g, 2) = g[2 - 1] \o seqs[2] /\ next(g, 3) = g[3 - 1] \o seqs[3]
  OBVIOUS
<1>4. Flattens(flat)
  <2>1. flat[1] = <<a>> /\ flat[2] = <<a, b>> /\ flat[3] = <<a, b, c>>
    OBVIOUS
  <2>2. flat = [i \in 1..3 |-> flat[i]]
    OBVIOUS
  <2> HIDE DEF flat, next
  <2>3. flat[1] = next(flat, 1) /\ flat[2] = next(flat, 2) /\ flat[3] = next(flat, 3)
    BY <1>1, <1>3, <2>1, LettersJoin
  <2>4. QED
    BY <1>1, <2>2, <2>3
<1>5. Flattens(it)
  <2> HIDE DEF flat, Flattens
  <2> QED BY <1>4
<1> HIDE DEF it, next
<1>6. it[1] = next(it, 1) /\ it[2] = next(it, 2) /\ it[3] = next(it, 3)
  BY <1>1, <1>5
<1>7. it[1] = <<a>> /\ it[2] = it[1] \o <<b>> /\ it[3] = it[2] \o <<c>>
  BY <1>1, <1>3, <1>6
<1>8. it[2] = <<a, b>>
  BY <1>7, LettersJoin
<1>9. it[3] = <<a, b, c>>
  BY <1>7, <1>8, LettersJoin
<1>10. QED
  BY <1>2, <1>9 DEF seqs

\* Upper-case letters in the right number are a code as they are.
LEMMA LettersAreCode ==
  ASSUME NEW len \in {2, 3}, NEW code \in [1..len -> CodeLetters]
  PROVE  Values!Normalize(code, len) = Values!Ok(code)
<1>1. /\ code \in Seq(CodeLetters) /\ Len(code) = len /\ DOMAIN code = 1..len
      /\ \A n \in 1..len : code[n] \in CodeLetters
  OBVIOUS
<1>2. \A n \in 1..len : code[n] # Blank /\ code[n] \notin DOMAIN UpperForms
  BY <1>1, ValuesConstants
<1>3. Values!Trim(code) = code
  <2>1. 1 \in 1..len /\ len \in 1..len /\ code # <<>>
    BY <1>1
  <2>2. QED
    BY <1>1, <1>2, <2>1, IsTrimmed
<1> DEFINE singles == [n \in DOMAIN code |-> IF code[n] \in DOMAIN UpperForms THEN UpperForms[code[n]]
                                                                        ELSE <<code[n]>>]
<1>4. singles = [n \in 1..len |-> <<code[n]>>]
  BY <1>1, <1>2
<1>5. Values!FlattenSeq(singles) = code
  <2> HIDE DEF singles
  <2>1. CASE len = 2
    <3>1. singles = <<<<code[1]>>, <<code[2]>>>>
      BY <1>4, <2>1
    <3>2. code = <<code[1], code[2]>>
      BY <1>1, <2>1
    <3>3. QED
      BY <3>1, <3>2, TwoFlatten
  <2>2. CASE len = 3
    <3>1. singles = <<<<code[1]>>, <<code[2]>>, <<code[3]>>>>
      BY <1>4, <2>2
    <3>2. code = <<code[1], code[2], code[3]>>
      BY <1>1, <2>2
    <3>3. QED
      BY <3>1, <3>2, ThreeFlatten
  <2>3. QED
    BY <2>1, <2>2
<1>6. Values!ToSet(code) \subseteq CodeLetters
  BY <1>1 DEF Values!ToSet
<1> HIDE DEF singles
<1>7. Values!Normalize(code, len) = IF Len(Values!FlattenSeq(singles)) = len
                                       /\ Values!ToSet(Values!FlattenSeq(singles)) \subseteq CodeLetters
                                    THEN Values!Ok(Values!FlattenSeq(singles))
                                    ELSE Values!Err(Values!Malformed(code, len))
  BY <1>3 DEF Values!Normalize, singles
<1>8. QED
  BY <1>1, <1>5, <1>6, <1>7

LEMMA CodesAreKept ==
  /\ \A code \in CurrencyCodes : Values!Currency(code) = Values!Ok(code)
  /\ \A code \in CountryCodes : Values!CountryCode(code) = Values!Ok(code)
<1>1. ASSUME NEW code \in CurrencyCodes PROVE Values!Currency(code) = Values!Ok(code)
  <2>1. Values!Normalize(code, 3) = Values!Ok(code)
    BY LettersAreCode, ValuesConstants
  <2>2. QED
    <3>1. Values!Ok(code).is = code
      BY DEF Values!Ok
    <3>2. QED
      BY <2>1, <3>1 DEF Values!Currency, Values!CodeOf
<1>2. ASSUME NEW code \in CountryCodes PROVE Values!CountryCode(code) = Values!Ok(code)
  <2>1. Values!Normalize(code, 2) = Values!Ok(code)
    BY LettersAreCode, ValuesConstants
  <2>2. QED
    <3>1. Values!Ok(code).is = code
      BY DEF Values!Ok
    <3>2. QED
      BY <2>1, <3>1 DEF Values!CountryCode, Values!CodeOf
<1>3. QED
  BY <1>1, <1>2

LEMMA OkIs == \A it : Values!Ok(it).ok /\ Values!Ok(it).is = it
BY DEF Values!Ok

\* What a constructor makes, of texts that `known` knows: one of S, or an error of the values.
Makes(known, result, S) ==
  \/ \E it \in S : result = Values!Ok(it)
  \/ \E e : Values!IsError(e) /\ Values!Unread(known, e) /\ result = Values!Err(e)

LEMMA CodesAreMade ==
  /\ \A known, raw : Makes(known, Values!Currency(raw), CurrencyCodes)
  /\ \A known, raw : Makes(known, Values!CountryCode(raw), CountryCodes)
<1>1. ASSUME NEW read, NEW raw, NEW len, NEW known, NEW unknown \in {"unknown_currency", "unknown_country"}
      PROVE  Makes(read, Values!CodeOf(raw, len, known, unknown), known)
  <2>1. PICK upper : upper = Values!Normalize(raw, len)
    OBVIOUS
  <2>2. \/ upper = Values!Ok(upper.is)
        \/ upper = Values!Err(Values!Malformed(raw, len))
    BY <2>1 DEF Values!Normalize, Values!Ok, Values!Err
  <2>3. Values!CodeOf(raw, len, known, unknown)
          = IF ~upper.ok \/ upper.is \in known THEN upper
            ELSE Values!Err(Values!Unknown(unknown, upper.is))
    BY <2>1 DEF Values!CodeOf
  <2>4. /\ Values!IsError(Values!Malformed(raw, len)) /\ Values!Unread(read, Values!Malformed(raw, len))
        /\ Values!IsError(Values!Unknown(unknown, upper.is))
        /\ Values!Unread(read, Values!Unknown(unknown, upper.is))
    BY DEF Values!IsError, Values!Malformed, Values!Unknown, Values!ValueError, Values!KnownCodes,
           Values!WithValue, Values!Unread
  <2>5. CASE upper = Values!Ok(upper.is)
    <3>1. upper.ok
      BY <2>5 DEF Values!Ok
    <3>2. QED
      BY <2>3, <2>4, <2>5, <3>1 DEF Makes
  <2>6. CASE upper = Values!Err(Values!Malformed(raw, len))
    <3>1. ~ upper.ok
      BY <2>6 DEF Values!Err
    <3>2. QED
      BY <2>3, <2>4, <2>6, <3>1 DEF Makes
  <2>7. QED
    BY <2>2, <2>5, <2>6
<1>2. QED
  BY <1>1 DEF Values!Currency, Values!CountryCode

-----------------------------------------------------------------------------
(* Locales and localized text *)

\* A product in service reads back what it writes.
Fits == s1 \in ValueProducts /\ Values!Conforms(s1)

\* What is written as `wire` says is read as `known` says: by serde, which is checked, and by a codec
\* that reads what it writes.
Returns(wire, known) == \A locale \in s1.locales : Values!ParseWire(known, wire[locale]) = Values!Ok(locale)

LEMMA SerdeReturns == ASSUME Fits PROVE Returns(Values!SerdeForms(s1), s1.reads)
<1> SUFFICES ASSUME NEW locale \in s1.locales
             PROVE  Values!ParseWire(s1.reads, Values!SerdeForms(s1)[locale]) = Values!Ok(locale)
  BY DEF Returns
<1> DEFINE captured == Values!Captured(s1.writes[locale])
<1>1. PICK text \in captured : text \in DOMAIN s1.reads /\ s1.reads[text] = locale
  BY DEF Fits, Values!Conforms
<1>2. \A other \in captured : other = text
  BY DEF Values!Captured
<1>3. Values!SerdeForms(s1)[locale] = text
  BY <1>1, <1>2 DEF Values!SerdeForms
<1>4. QED
  BY <1>1, <1>3 DEF Values!ParseWire

LEMMA CodecReads == ASSUME Values!CodecReturns(s1) PROVE Returns(s1.as_wire, s1.from_wire)
BY DEF Values!CodecReturns, Returns, Values!ParseWire

\* What reads locales reads the product's own.
Reads(known) == \A text \in DOMAIN known : known[text] \in s1.locales

LEMMA ProductReads == ASSUME Fits PROVE Reads(s1.reads) /\ Reads(s1.from_wire)
BY ValuesConstants DEF Fits, Values!IsProduct, Reads

LEMMA LocaleRead ==
  ASSUME NEW known, Reads(known), NEW text
  PROVE  Makes(known, Values!ParseWire(known, text), s1.locales)
<1>1. CASE text \in DOMAIN known
  BY <1>1 DEF Values!ParseWire, Makes, Reads
<1>2. CASE text \notin DOMAIN known
  <2>1. PICK e : e = Values!Unknown("locale_unknown", text)
    OBVIOUS
  <2>2. e.value = text
    BY <2>1 DEF Values!Unknown, Values!ValueError
  <2>3. Values!IsError(e) /\ Values!Unread(known, e)
    BY <1>2, <2>1, <2>2 DEF Values!IsError, Values!Unknown, Values!ValueError, Values!KnownCodes,
                            Values!WithValue, Values!Unread
  <2>4. Values!ParseWire(known, text) = Values!Err(e)
    BY <1>2, <2>1 DEF Values!ParseWire
  <2>5. QED
    BY <2>3, <2>4 DEF Makes
<1>3. QED
  BY <1>1, <1>2

Entries == Seq([locale : s1.locales, content : Seq(STRING)])

\* The entries with their contents trimmed
Trimmed(entries) == [n \in DOMAIN entries |-> [entries[n] EXCEPT !.content = Values!Trim(@)]]

LEMMA ElementOf ==
  ASSUME NEW S, NEW s \in Seq(S), NEW n \in DOMAIN s
  PROVE  s[n] \in S
OBVIOUS

LEMMA EntriesTrimmed ==
  ASSUME NEW entries \in Entries
  PROVE  /\ Trimmed(entries) \in Entries /\ DOMAIN Trimmed(entries) = DOMAIN entries
         /\ \A n \in DOMAIN entries :
              /\ Trimmed(entries)[n].locale = entries[n].locale
              /\ Values!Trim(Trimmed(entries)[n].content) = Trimmed(entries)[n].content
<1> DEFINE E == [locale : s1.locales, content : Seq(STRING)]
           one(n) == [entries[n] EXCEPT !.content = Values!Trim(@)]
<1>1. entries \in Seq(E)
  BY DEF Entries
<1>2. ASSUME NEW n \in DOMAIN entries
      PROVE  one(n) \in E /\ one(n).locale = entries[n].locale /\ Values!Trim(one(n).content) = one(n).content
  <2>1. entries[n] \in E
    <3> HIDE DEF E
    <3> QED BY <1>1
  <2>2. /\ Values!Trim(entries[n].content) \in Seq(STRING)
        /\ Values!Trim(Values!Trim(entries[n].content)) = Values!Trim(entries[n].content)
    BY <2>1, TrimsOnce
  <2>3. one(n) = [locale |-> entries[n].locale, content |-> Values!Trim(entries[n].content)]
    BY <2>1
  <2>4. QED
    BY <2>1, <2>2, <2>3
<1>3. Trimmed(entries) = [n \in DOMAIN entries |-> one(n)]
  BY DEF Trimmed
<1> HIDE DEF one, E
<1>4. Trimmed(entries) \in Seq(E)
  BY <1>1, <1>2, <1>3
<1>5. QED
  BY <1>2, <1>3, <1>4 DEF Entries, E


LEMMA TextIs ==
  ASSUME NEW primary, NEW entries \in Entries,
         \E n \in DOMAIN entries : entries[n].locale = primary,
         \A n, m \in DOMAIN entries : entries[n].locale = entries[m].locale => n = m,
         \A n \in DOMAIN entries : Values!Trim(entries[n].content) = entries[n].content
  PROVE  Values!IsText(s1, Values!Localized(primary, entries))
<1>1. PICK v : v = Values!Localized(primary, entries)
  OBVIOUS
<1>2. v.kind = "localized" /\ v.primary = primary /\ v.entries = entries
  BY <1>1 DEF Values!Localized
<1>3. v = Values!Localized(v.primary, v.entries)
  BY <1>1, <1>2
<1>4. v.entries \in Seq([locale : s1.locales, content : Seq(STRING)])
  BY <1>2 DEF Entries
<1>5. QED
  BY <1>1, <1>2, <1>3, <1>4 DEF Values!IsText

\* from_parts: the rules of localized text, or an error
LEMMA PartsMake ==
  ASSUME NEW primary, NEW entries \in Entries
  PROVE  \/ /\ Values!FromParts(primary, entries) = Values!Ok(Values!Localized(primary, Trimmed(entries)))
            /\ Values!IsText(s1, Values!Localized(primary, Trimmed(entries)))
         \/ \E e : /\ Values!IsError(e) /\ Values!FromParts(primary, entries) = Values!Err(e)
                   /\ \A known : Values!Unread(known, e)
<1>1. \A code \in {"localized_empty", "localized_duplicate_locale", "localized_primary_missing"} :
        Values!IsError(Values!Bare(code)) /\ \A known : Values!Unread(known, Values!Bare(code))
  BY DEF Values!IsError, Values!Bare, Values!ValueError, Values!KnownCodes, Values!WithValue, Values!Unread
<1> DEFINE duplicate == \E n \in DOMAIN entries, m \in DOMAIN entries :
                          n # m /\ entries[n].locale = entries[m].locale
           missing == \A n \in DOMAIN entries : entries[n].locale # primary
<1>2. Values!FromParts(primary, entries) =
        IF entries = <<>> THEN Values!Err(Values!Bare("localized_empty"))
        ELSE IF duplicate THEN Values!Err(Values!Bare("localized_duplicate_locale"))
        ELSE IF missing THEN Values!Err(Values!Bare("localized_primary_missing"))
        ELSE Values!Ok(Values!Localized(primary, Trimmed(entries)))
  BY DEF Values!FromParts, Trimmed
<1>3. ASSUME ~ duplicate, ~ missing
      PROVE  Values!IsText(s1, Values!Localized(primary, Trimmed(entries)))
  <2>1. /\ Trimmed(entries) \in Entries /\ DOMAIN Trimmed(entries) = DOMAIN entries
        /\ \A n \in DOMAIN entries :
              /\ Trimmed(entries)[n].locale = entries[n].locale
              /\ Values!Trim(Trimmed(entries)[n].content) = Trimmed(entries)[n].content
    BY EntriesTrimmed
  <2>2. /\ \E n \in DOMAIN Trimmed(entries) : Trimmed(entries)[n].locale = primary
        /\ \A n, m \in DOMAIN Trimmed(entries) : Trimmed(entries)[n].locale = Trimmed(entries)[m].locale => n = m
    BY <1>3, <2>1
  <2>3. QED
    BY <2>1, <2>2, TextIs
<1> HIDE DEF duplicate, missing
<1>4. QED
  BY <1>1, <1>2, <1>3

\* What was made is not made differently again.
LEMMA PartsKeep ==
  ASSUME NEW v, Values!IsText(s1, v)
  PROVE  Values!FromParts(v.primary, v.entries) = Values!Ok(v)
<1>1. /\ v.kind = "localized" /\ v = Values!Localized(v.primary, v.entries)
      /\ v.entries \in Seq([locale : s1.locales, content : Seq(STRING)])
      /\ \E n \in DOMAIN v.entries : v.entries[n].locale = v.primary
      /\ \A n, m \in DOMAIN v.entries : v.entries[n].locale = v.entries[m].locale => n = m
      /\ \A n \in DOMAIN v.entries : Values!Trim(v.entries[n].content) = v.entries[n].content
  BY DEF Values!IsText
<1> DEFINE entries == v.entries
           trimmed == [n \in DOMAIN entries |-> [entries[n] EXCEPT !.content = Values!Trim(@)]]
<1> HIDE DEF entries
<1>2. /\ entries \in Seq([locale : s1.locales, content : Seq(STRING)])
      /\ \A n \in DOMAIN entries : Values!Trim(entries[n].content) = entries[n].content
  BY <1>1 DEF entries
<1>3. \A n \in DOMAIN entries : [entries[n] EXCEPT !.content = Values!Trim(@)] = entries[n]
  <2>1. TAKE n \in DOMAIN entries
  <2>2. entries[n] \in [locale : s1.locales, content : Seq(STRING)]
    BY <1>2, ElementOf
  <2>3. entries[n] = [locale |-> entries[n].locale, content |-> entries[n].content]
    BY <2>2
  <2>4. [entries[n] EXCEPT !.content = Values!Trim(@)]
          = [locale |-> entries[n].locale, content |-> Values!Trim(entries[n].content)]
    BY <2>3
  <2>5. QED
    BY <1>2, <2>3, <2>4
<1>4. trimmed = entries
  <2>1. entries = [n \in DOMAIN entries |-> entries[n]]
    BY <1>2
  <2>2. QED
    BY <1>3, <2>1
<1>5. entries # <<>>
  BY <1>1 DEF entries
<1>6. ~ \E n \in DOMAIN entries, m \in DOMAIN entries : n # m /\ entries[n].locale = entries[m].locale
  BY <1>1 DEF entries
<1>7. ~ \A n \in DOMAIN entries : entries[n].locale # v.primary
  BY <1>1 DEF entries
<1>8. Values!FromParts(v.primary, entries) = Values!Ok(Values!Localized(v.primary, trimmed))
  BY <1>5, <1>6, <1>7 DEF Values!FromParts
<1>9. QED
  BY <1>1, <1>4, <1>8 DEF entries

\* One before the others
LEMMA Preceded ==
  ASSUME NEW S, NEW x \in S, NEW t \in Seq(S)
  PROVE  /\ <<x>> \o t \in Seq(S) /\ Len(<<x>> \o t) = Len(t) + 1
         /\ (<<x>> \o t)[1] = x /\ \A n \in 1..Len(t) : (<<x>> \o t)[n + 1] = t[n]
<1> DEFINE s == <<x>> \o t
<1>1. <<x>> \in Seq(S) /\ Len(<<x>>) = 1 /\ <<x>>[1] = x /\ 1 \in 1..1
  OBVIOUS
<1>2. /\ s \in Seq(S) /\ Len(s) = 1 + Len(t) /\ \A i \in 1..1 : s[i] = <<x>>[i]
      /\ \A i \in 1..Len(t) : s[1 + i] = t[i]
  BY <1>1, Concatenated
<1>3. Len(t) \in Nat
  OBVIOUS
<1> HIDE DEF s
<1>4. 1 + Len(t) = Len(t) + 1 /\ \A n \in 1..Len(t) : 1 + n = n + 1
  BY <1>3
<1>5. s[1] = x /\ \A n \in 1..Len(t) : s[n + 1] = t[n]
  BY <1>1, <1>2, <1>4
<1>6. QED
  BY <1>2, <1>4, <1>5 DEF s

\* The locales of text on the wire, read one by one
Reading(known, primary, entries) ==
  <<Values!ParseWire(known, primary)>> \o [n \in DOMAIN entries |-> Values!ParseWire(known, entries[n].locale)]

LEMMA ReadingIs ==
  ASSUME NEW known, NEW primary, NEW entries, NEW k \in Nat, DOMAIN entries = 1..k
  PROVE  /\ DOMAIN Reading(known, primary, entries) = 1..(k + 1)
         /\ Reading(known, primary, entries)[1] = Values!ParseWire(known, primary)
         /\ \A n \in 1..k : Reading(known, primary, entries)[n + 1] = Values!ParseWire(known, entries[n].locale)
<1> DEFINE one(text) == Values!ParseWire(known, text)
           t == [n \in DOMAIN entries |-> one(entries[n].locale)]
           S == {one(primary)} \cup {one(entries[n].locale) : n \in 1..k}
           r == <<one(primary)>> \o t
<1>1. one(primary) \in S /\ \A n \in 1..k : one(entries[n].locale) \in S
  OBVIOUS
<1>2. Reading(known, primary, entries) = r
  BY DEF Reading
<1> HIDE DEF one, S
<1>3. t \in Seq(S) /\ Len(t) = k /\ \A n \in 1..k : t[n] = one(entries[n].locale)
  BY <1>1
<1> HIDE DEF t
<1>4. /\ r \in Seq(S) /\ Len(r) = Len(t) + 1
      /\ r[1] = one(primary) /\ \A n \in 1..Len(t) : r[n + 1] = t[n]
  BY <1>1, <1>3, Preceded
<1> HIDE DEF r
<1>5. DOMAIN r = 1..(k + 1) /\ r[1] = one(primary) /\ \A n \in 1..k : r[n + 1] = one(entries[n].locale)
  BY <1>3, <1>4
<1>6. QED
  BY <1>2, <1>5 DEF one

\* Text off the wire: the rules of localized text, or an error
LEMMA TextMade ==
  ASSUME NEW known, Reads(known), NEW primary, NEW entries, Values!AreEntries(entries)
  PROVE  \/ \E v : Values!IsText(s1, v) /\ Values!ReadLocalized(known, primary, entries) = Values!Ok(v)
         \/ \E e : /\ Values!IsError(e) /\ Values!Unread(known, e)
                   /\ Values!ReadLocalized(known, primary, entries) = Values!Err(e)
<1>1. PICK k \in Nat : DOMAIN entries = 1..k
  BY DEF Values!AreEntries
<1> DEFINE read == Reading(known, primary, entries)
           bad == {n \in DOMAIN read : ~ read[n].ok}
           named == [n \in DOMAIN entries |-> Values!Entry(read[n + 1].is, entries[n].content)]
<1>2. /\ DOMAIN read = 1..(k + 1) /\ read[1] = Values!ParseWire(known, primary)
      /\ \A n \in 1..k : read[n + 1] = Values!ParseWire(known, entries[n].locale)
  BY <1>1, ReadingIs
<1>3. Values!ReadLocalized(known, primary, entries) =
        IF bad # {} THEN read[Values!Min(bad)] ELSE Values!FromParts(read[1].is, named)
  BY DEF Values!ReadLocalized, Reading
<1> HIDE DEF read
<1>4. \A n \in DOMAIN read : Makes(known, read[n], s1.locales)
  <2>1. TAKE n \in DOMAIN read
  <2>2. CASE n = 1
    BY <1>2, <2>2, LocaleRead
  <2>3. CASE n # 1
    <3>1. n - 1 \in 1..k /\ (n - 1) + 1 = n
      BY <1>2, <2>3
    <3>2. read[n] = Values!ParseWire(known, entries[n - 1].locale)
      BY <1>2, <3>1
    <3>3. QED
      BY <3>2, LocaleRead
  <2>4. QED
    BY <2>2, <2>3
<1>5. CASE bad # {}
  <2>1. Values!Min(bad) \in bad
    <3>1. bad \in SUBSET (1..(k + 1)) /\ k + 1 \in Nat
      BY <1>2
    <3> HIDE DEF bad
    <3>2. QED
      BY <1>5, <3>1, SmallestPlace
  <2>2. Makes(known, read[Values!Min(bad)], s1.locales) /\ ~ read[Values!Min(bad)].ok
    BY <1>4, <2>1
  <2>3. \E e : Values!IsError(e) /\ Values!Unread(known, e) /\ read[Values!Min(bad)] = Values!Err(e)
    <3>1. PICK r : r = read[Values!Min(bad)]
      OBVIOUS
    <3>2. ~ r.ok /\ Makes(known, r, s1.locales)
      BY <2>2, <3>1
    <3>3. \A it : r # Values!Ok(it)
      BY <3>2 DEF Values!Ok
    <3>4. QED
      BY <3>1, <3>2, <3>3 DEF Makes
  <2> HIDE DEF bad
  <2>4. QED
    BY <1>3, <1>5, <2>3
<1>6. CASE bad = {}
  <2>1. \A n \in DOMAIN read : read[n].is \in s1.locales
    BY <1>4, <1>6 DEF Makes, Values!Ok, Values!Err
  <2>2. named \in Entries
    <3>1. \A n \in 1..k : n + 1 \in DOMAIN read
      BY <1>2
    <3>2. \A n \in 1..k : entries[n].content \in Seq(STRING)
      <4>1. entries \in Seq([locale : STRING, content : Seq(STRING)])
        BY DEF Values!AreEntries
      <4>2. \A n \in DOMAIN entries : entries[n] \in [locale : STRING, content : Seq(STRING)]
        BY <4>1, ElementOf
      <4>3. QED
        BY <1>1, <4>2
    <3>3. \A n \in 1..k : Values!Entry(read[n + 1].is, entries[n].content)
                            \in [locale : s1.locales, content : Seq(STRING)]
      BY <2>1, <3>1, <3>2 DEF Values!Entry
    <3>4. QED
      BY <1>1, <3>3 DEF Entries
  <2>3. Values!ReadLocalized(known, primary, entries) = Values!FromParts(read[1].is, named)
    BY <1>3, <1>6
  <2> HIDE DEF named
  <2>4. QED
    BY <2>2, <2>3, PartsMake
<1>7. QED
  BY <1>5, <1>6

\* Text that is written and read is the same text.
LEMMA WrittenReads ==
  ASSUME NEW wire, NEW known, Returns(wire, known), NEW v, Values!IsText(s1, v)
  PROVE  Values!ReadLocalized(known, Values!Written(wire, v).primary, Values!Written(wire, v).entries) = Values!Ok(v)
<1>1. /\ v.entries \in Seq([locale : s1.locales, content : Seq(STRING)])
      /\ \E n \in DOMAIN v.entries : v.entries[n].locale = v.primary
  BY DEF Values!IsText
<1>2. PICK k \in Nat : DOMAIN v.entries = 1..k
  BY <1>1
<1>3. \A n \in 1..k : /\ v.entries[n] \in [locale : s1.locales, content : Seq(STRING)]
                      /\ v.entries[n].locale \in s1.locales
                      /\ v.entries[n] = [locale |-> v.entries[n].locale, content |-> v.entries[n].content]
  <2>1. TAKE n \in 1..k
  <2>2. v.entries[n] \in [locale : s1.locales, content : Seq(STRING)]
    BY <1>1, <1>2, ElementOf
  <2>3. QED
    BY <2>2
<1>4. v.primary \in s1.locales
  BY <1>1, <1>2, <1>3
<1> DEFINE primary == wire[v.primary]
           entries == [n \in DOMAIN v.entries |-> Values!Entry(wire[v.entries[n].locale], v.entries[n].content)]
           read == Reading(known, primary, entries)
           bad == {n \in DOMAIN read : ~ read[n].ok}
           named == [n \in DOMAIN entries |-> Values!Entry(read[n + 1].is, entries[n].content)]
<1>5. Values!Written(wire, v).primary = primary /\ Values!Written(wire, v).entries = entries
  BY DEF Values!Written
<1>6. /\ DOMAIN entries = 1..k
      /\ \A n \in 1..k : /\ entries[n].locale = wire[v.entries[n].locale]
                         /\ entries[n].content = v.entries[n].content
  BY <1>2 DEF Values!Entry
<1> HIDE DEF primary, entries
<1>7. /\ DOMAIN read = 1..(k + 1) /\ read[1] = Values!ParseWire(known, primary)
      /\ \A n \in 1..k : read[n + 1] = Values!ParseWire(known, entries[n].locale)
  BY <1>6, ReadingIs
<1>8. Values!ReadLocalized(known, primary, entries) =
        IF bad # {} THEN read[Values!Min(bad)] ELSE Values!FromParts(read[1].is, named)
  BY DEF Values!ReadLocalized, Reading
<1> HIDE DEF read
<1>9. read[1] = Values!Ok(v.primary)
  BY <1>4, <1>7 DEF primary, Returns
<1>10. \A n \in 1..k : read[n + 1] = Values!Ok(v.entries[n].locale)
  BY <1>3, <1>6, <1>7 DEF Returns
<1>11. bad = {}
  <2>1. \A n \in 1..(k + 1) : n = 1 \/ (n - 1 \in 1..k /\ (n - 1) + 1 = n)
    BY <1>2
  <2>2. read[1].ok
    BY <1>9 DEF Values!Ok
  <2>3. \A n \in 1..k : read[n + 1].ok
    BY <1>10, OkIs
  <2>4. \A n \in 1..(k + 1) : read[n].ok
    <3>1. TAKE n \in 1..(k + 1)
    <3>2. CASE n = 1
      BY <2>2, <3>2
    <3>3. CASE n - 1 \in 1..k /\ (n - 1) + 1 = n
      <4>1. read[(n - 1) + 1].ok
        BY <2>3, <3>3
      <4>2. QED
        BY <3>3, <4>1
    <3>4. QED
      BY <2>1, <3>2, <3>3
  <2>5. QED
    BY <1>7, <2>4
<1>12. named = v.entries
  <2>1. \A n \in 1..k : Values!Entry(read[n + 1].is, entries[n].content) = v.entries[n]
    <3>1. \A n \in 1..k : read[n + 1].is = v.entries[n].locale
      BY <1>10, OkIs
    <3>2. \A n \in 1..k : Values!Entry(read[n + 1].is, entries[n].content)
                              = Values!Entry(v.entries[n].locale, v.entries[n].content)
      BY <1>6, <3>1
    <3>3. \A n \in 1..k : v.entries[n] = Values!Entry(v.entries[n].locale, v.entries[n].content)
      BY <1>3 DEF Values!Entry
    <3>4. QED
      BY <3>2, <3>3
  <2>2. v.entries = [n \in 1..k |-> v.entries[n]]
    BY <1>1, <1>2
  <2>3. QED
    BY <1>6, <2>1, <2>2
<1>13. read[1].is = v.primary
  BY <1>9 DEF Values!Ok
<1>14. Values!ReadLocalized(known, primary, entries) = Values!FromParts(v.primary, v.entries)
  BY <1>8, <1>11, <1>12, <1>13
<1>15. QED
  BY <1>5, <1>14, PartsKeep

\* A translation of text is text.
LEMMA TextTranslated ==
  ASSUME NEW v, Values!IsText(s1, v), NEW locale \in s1.locales, NEW content \in Seq(STRING)
  PROVE  Values!IsText(s1, Values!SetEntry(v, locale, content))
<1> DEFINE E == [locale : s1.locales, content : Seq(STRING)]
           new == Values!Entry(locale, Values!Trim(content))
           there == \E n \in DOMAIN v.entries : v.entries[n].locale = locale
<1>1. /\ v = Values!Localized(v.primary, v.entries) /\ v.entries \in Seq(E)
      /\ \E n \in DOMAIN v.entries : v.entries[n].locale = v.primary
      /\ \A n, m \in DOMAIN v.entries : v.entries[n].locale = v.entries[m].locale => n = m
      /\ \A n \in DOMAIN v.entries : Values!Trim(v.entries[n].content) = v.entries[n].content
  BY DEF Values!IsText
<1>2. /\ new \in E /\ new.locale = locale /\ Values!Trim(new.content) = new.content
  <2>1. Values!Trim(content) \in Seq(STRING) /\ Values!Trim(Values!Trim(content)) = Values!Trim(content)
    BY TrimsOnce
  <2>2. QED
    BY <2>1 DEF Values!Entry
<1>3. \A entries : [v EXCEPT !.entries = entries] = Values!Localized(v.primary, entries)
  <2>1. PICK p, q : p = v.primary /\ q = v.entries
    OBVIOUS
  <2>2. v = [kind |-> "localized", primary |-> p, entries |-> q]
    BY <1>1, <2>1 DEF Values!Localized
  <2>3. \A entries : [v EXCEPT !.entries = entries] = [kind |-> "localized", primary |-> p, entries |-> entries]
    BY ONLY <2>2
  <2>4. QED
    BY <2>1, <2>3 DEF Values!Localized
<1> DEFINE replaced == [n \in DOMAIN v.entries |-> IF v.entries[n].locale = locale THEN new ELSE v.entries[n]]
           longer == Append(v.entries, new)
<1>4. Values!SetEntry(v, locale, content) = Values!Localized(v.primary, IF there THEN replaced ELSE longer)
  <2> DEFINE old == v.entries
  <2>1. Values!SetEntry(v, locale, content) = IF there THEN [v EXCEPT !.entries = replaced]
                                                       ELSE [v EXCEPT !.entries = longer]
    BY DEF Values!SetEntry
  <2> HIDE DEF replaced, longer, there
  <2>2. QED
    BY <1>3, <2>1
<1> HIDE DEF new, E
<1>5. CASE there
  <2>1. \A n \in DOMAIN v.entries : replaced[n] \in E /\ replaced[n].locale = v.entries[n].locale
                                    /\ Values!Trim(replaced[n].content) = replaced[n].content
    <3>1. TAKE n \in DOMAIN v.entries
    <3>2. v.entries[n] \in E
      BY <1>1, ElementOf
    <3>3. replaced[n] = IF v.entries[n].locale = locale THEN new ELSE v.entries[n]
      OBVIOUS
    <3> HIDE DEF replaced
    <3>4. QED
      BY <1>1, <1>2, <3>2, <3>3
  <2>2. DOMAIN replaced = DOMAIN v.entries /\ replaced \in Seq(E)
    <3>1. PICK k \in Nat : DOMAIN v.entries = 1..k
      BY <1>1
    <3>2. replaced = [n \in 1..k |-> replaced[n]]
      BY <3>1
    <3> HIDE DEF replaced
    <3>3. QED
      BY <2>1, <3>1, <3>2
  <2> HIDE DEF replaced
  <2>3. Values!IsText(s1, Values!Localized(v.primary, replaced))
    BY <1>1, <2>1, <2>2, TextIs DEF Entries, E
  <2>4. QED
    BY <1>4, <1>5, <2>3
<1>6. CASE ~ there
  <2>1. /\ longer \in Seq(E) /\ DOMAIN longer = 1..(Len(v.entries) + 1)
        /\ \A n \in 1..Len(v.entries) : longer[n] = v.entries[n]
        /\ longer[Len(v.entries) + 1] = new
    BY <1>1, <1>2, AppendProperties
  <2>2. DOMAIN v.entries = 1..Len(v.entries) /\ Len(v.entries) \in Nat
    BY <1>1
  <2> HIDE DEF longer
  <2>3. \A n \in DOMAIN longer : n \in DOMAIN v.entries \/ n = Len(v.entries) + 1
    BY <2>1, <2>2
  <2>4. \A n \in DOMAIN v.entries : n \in DOMAIN longer /\ longer[n] = v.entries[n]
    BY <2>1, <2>2
  <2>5. \A n \in DOMAIN v.entries : v.entries[n].locale # locale
    BY <1>6
  <2>6. \E n \in DOMAIN longer : longer[n].locale = v.primary
    BY <1>1, <2>4
  <2>7. \A n, m \in DOMAIN longer : longer[n].locale = longer[m].locale => n = m
    BY <1>1, <1>2, <2>1, <2>3, <2>4, <2>5
  <2>8. \A n \in DOMAIN longer : Values!Trim(longer[n].content) = longer[n].content
    BY <1>1, <1>2, <2>1, <2>3, <2>4
  <2>9. Values!IsText(s1, Values!Localized(v.primary, longer))
    BY <2>1, <2>6, <2>7, <2>8, TextIs DEF Entries, E
  <2>10. QED
    BY <1>4, <1>6, <2>9
<1>7. QED
  BY <1>5, <1>6

-----------------------------------------------------------------------------
(* Documents, inputs and outputs *)

\* A value is of one of four kinds.
LEMMA FourKinds ==
  ASSUME NEW v, Values!IsValue(s1, v)
  PROVE  /\ v.kind \in {"localized", "content", "money", "country"}
         /\ v.kind = "localized" => Values!IsText(s1, v)
         /\ v.kind = "content" =>
              v = [kind |-> "content", format |-> v.format, body |-> v.body] /\ Values!IsText(s1, v.body)
         /\ v.kind = "money" => /\ v = Values!Money(v.amount, v.currency)
                                /\ v.amount \in LeastAmount..LargestAmount /\ v.currency \in CurrencyCodes
         /\ v.kind = "country" => v = [kind |-> "country", code |-> v.code] /\ v.code \in CountryCodes
<1>1. Values!IsText(s1, v) => v.kind = "localized"
  BY DEF Values!IsText
<1>2. QED
  BY <1>1 DEF Values!IsValue

\* A value comes back from its document.
LEMMA DocumentReturns ==
  ASSUME Fits, NEW v, Values!IsValue(s1, v)
  PROVE  Values!Deserialized(Values!Serialized(v)) = Values!Ok(v)
<1>1. CASE v.kind = "localized"
  <2>1. PICK doc : doc = [kind |-> "localized", body |-> Values!Written(Values!SerdeForms(s1), v)]
    OBVIOUS
  <2>2. Values!Serialized(v) = doc
    BY <1>1, <2>1 DEF Values!Serialized
  <2>3. Values!ReadLocalized(s1.reads, doc.body.primary, doc.body.entries) = Values!Ok(v)
    BY <1>1, <2>1, FourKinds, WrittenReads, SerdeReturns
  <2>4. doc.kind = "localized"
    BY <2>1
  <2>5. Values!Deserialized(doc) = Values!Ok(v)
    BY <2>3, <2>4 DEF Values!Deserialized
  <2>6. QED
    BY <2>2, <2>5
<1>2. CASE v.kind = "content"
  <2>1. PICK doc : doc = [kind |-> "content", format |-> v.format, body |-> Values!Written(Values!SerdeForms(s1), v.body)]
    OBVIOUS
  <2>2. Values!Serialized(v) = doc
    BY <1>2, <2>1 DEF Values!Serialized
  <2>3. Values!ReadLocalized(s1.reads, doc.body.primary, doc.body.entries) = Values!Ok(v.body)
    BY <1>2, <2>1, FourKinds, WrittenReads, SerdeReturns
  <2>4. doc.kind = "content" /\ doc.format = v.format
    BY <2>1
  <2>5. Values!Deserialized(doc) = Values!Ok([kind |-> "content", format |-> v.format, body |-> v.body])
    BY <2>3, <2>4, OkIs DEF Values!Deserialized
  <2>6. QED
    BY <1>2, <2>2, <2>5, FourKinds
<1>3. CASE v.kind = "money"
  <2>1. Values!Serialized(v) = v
    BY <1>3 DEF Values!Serialized
  <2>2. Values!Currency(v.currency) = Values!Ok(v.currency)
    BY <1>3, FourKinds, CodesAreKept
  <2>3. Values!Deserialized(v) = Values!Ok(Values!Money(v.amount, v.currency))
    BY <1>3, <2>2, OkIs DEF Values!Deserialized
  <2>4. QED
    BY <1>3, <2>1, <2>3, FourKinds
<1>4. CASE v.kind = "country"
  <2>1. Values!Serialized(v) = v
    BY <1>4 DEF Values!Serialized
  <2>2. Values!CountryCode(v.code) = Values!Ok(v.code)
    BY <1>4, FourKinds, CodesAreKept
  <2>3. Values!Deserialized(v) = Values!Ok([kind |-> "country", code |-> v.code])
    BY <1>4, <2>2, OkIs DEF Values!Deserialized
  <2>4. QED
    BY <1>4, <2>1, <2>3, FourKinds
<1>5. QED
  BY <1>1, <1>2, <1>3, <1>4, FourKinds

\* What a query shows of a value yields the value as an input.
LEMMA OutputReturns ==
  ASSUME NEW v, Values!IsValue(s1, v)
  PROVE  /\ v.kind = "money" => /\ Values!Parses(Values!Output(v))
                                /\ Values!FromInput(Values!Output(v)) = Values!Ok(v)
         /\ v.kind = "localized" /\ Values!CodecReturns(s1) =>
              Values!FromInput(Values!Output(v)) = Values!Ok(v)
<1>1. \A it : Values!Refused(Values!Ok(it)) = Values!Ok(it)
  BY OkIs DEF Values!Refused
<1>2. ASSUME v.kind = "localized", Values!CodecReturns(s1)
      PROVE  Values!FromInput(Values!Output(v)) = Values!Ok(v)
  <2>1. PICK out : out = Values!Written(s1.as_wire, v)
    OBVIOUS
  <2>2. Values!Output(v) = out /\ out.kind = "localized"
    BY <1>2, <2>1 DEF Values!Output, Values!Written
  <2>3. Values!ReadLocalized(s1.from_wire, out.primary, out.entries) = Values!Ok(v)
    BY <1>2, <2>1, FourKinds, WrittenReads, CodecReads
  <2>4. QED
    BY <1>1, <2>2, <2>3 DEF Values!FromInput
<1>3. ASSUME v.kind = "money"
      PROVE  Values!Parses(Values!Output(v)) /\ Values!FromInput(Values!Output(v)) = Values!Ok(v)
  <2>1. Values!Output(v) = v
    BY <1>3 DEF Values!Output
  <2>2. Values!Currency(v.currency) = Values!Ok(v.currency)
    BY <1>3, FourKinds, CodesAreKept
  <2>3. Values!Parses(v)
    BY <1>3, FourKinds, OkIs DEF Values!Amount, Values!Parses
  <2>4. Values!FromInput(v) = Values!Ok(Values!Money(v.amount, v.currency))
    BY <1>1, <1>3, <2>2, OkIs DEF Values!FromInput
  <2>5. QED
    BY <1>3, <2>1, <2>3, <2>4, FourKinds
<1>4. QED
  BY <1>2, <1>3

LEMMA ErrIs == \A it : ~ Values!Err(it).ok /\ Values!Err(it).is = it
BY DEF Values!Err

\* A document that reads is a value.
LEMMA DocumentMakes ==
  ASSUME Fits, NEW doc, Values!IsDocument(doc), Values!Deserialized(doc).ok
  PROVE  Values!IsValue(s1, Values!Deserialized(doc).is)
<1>1. CASE doc.kind \in {"localized", "content"} /\ Values!AreEntries(doc.body.entries)
  <2>1. PICK body : body = Values!ReadLocalized(s1.reads, doc.body.primary, doc.body.entries)
    OBVIOUS
  <2>2. Values!Deserialized(doc) =
          IF ~ body.ok \/ doc.kind = "localized" THEN body
          ELSE Values!Ok([kind |-> "content", format |-> doc.format, body |-> body.is])
    BY <1>1, <2>1 DEF Values!Deserialized
  <2>3. body.ok
    BY <2>2
  <2>4. PICK v : Values!IsText(s1, v) /\ body = Values!Ok(v)
    BY <1>1, <2>1, <2>3, TextMade, ProductReads, ErrIs
  <2>5. body.is = v
    BY <2>4, OkIs
  <2>6. CASE doc.kind = "localized"
    BY <2>2, <2>4, <2>5, <2>6 DEF Values!IsValue
  <2>7. CASE doc.kind # "localized"
    <3>1. PICK it : it = [kind |-> "content", format |-> doc.format, body |-> v]
      OBVIOUS
    <3>2. it.kind = "content" /\ it.body = v /\ it = [kind |-> "content", format |-> it.format, body |-> it.body]
      BY <3>1
    <3>3. Values!IsValue(s1, it)
      BY <2>4, <3>2 DEF Values!IsValue
    <3>4. Values!Deserialized(doc) = Values!Ok(it)
      BY <2>2, <2>3, <2>5, <2>7, <3>1
    <3>5. QED
      BY <3>3, <3>4, OkIs
  <2>8. QED
    BY <2>6, <2>7
<1>2. CASE doc.kind = "money" /\ doc.amount \in LeastAmount..LargestAmount
  <2>1. PICK currency : currency = Values!Currency(doc.currency)
    OBVIOUS
  <2>2. Values!Deserialized(doc) =
          IF currency.ok THEN Values!Ok(Values!Money(doc.amount, currency.is)) ELSE currency
    BY <1>2, <2>1 DEF Values!Deserialized
  <2>3. currency.ok
    BY <2>2
  <2>4. currency.is \in CurrencyCodes
    BY <2>1, <2>3, CodesAreMade, OkIs, ErrIs DEF Makes
  <2>5. PICK it : it = Values!Money(doc.amount, currency.is)
    OBVIOUS
  <2>6. /\ it.kind = "money" /\ it.amount = doc.amount /\ it.currency = currency.is
        /\ it = Values!Money(it.amount, it.currency)
    BY <2>5 DEF Values!Money
  <2>7. Values!IsValue(s1, it)
    BY <1>2, <2>4, <2>6 DEF Values!IsValue
  <2>8. QED
    BY <2>2, <2>3, <2>5, <2>7, OkIs
<1>3. CASE doc.kind = "country"
  <2>1. PICK code : code = Values!CountryCode(doc.code)
    OBVIOUS
  <2>2. Values!Deserialized(doc) =
          IF code.ok THEN Values!Ok([kind |-> "country", code |-> code.is]) ELSE code
    BY <1>3, <2>1 DEF Values!Deserialized
  <2>3. code.ok
    BY <2>2
  <2>4. code.is \in CountryCodes
    BY <2>1, <2>3, CodesAreMade, OkIs, ErrIs DEF Makes
  <2>5. PICK it : it = [kind |-> "country", code |-> code.is]
    OBVIOUS
  <2>6. it.kind = "country" /\ it.code = code.is /\ it = [kind |-> "country", code |-> it.code]
    BY <2>5
  <2>7. Values!IsValue(s1, it)
    BY <2>4, <2>6 DEF Values!IsValue
  <2>8. QED
    BY <2>2, <2>3, <2>5, <2>7, OkIs
<1>4. QED
  BY <1>1, <1>2, <1>3 DEF Values!IsDocument

\* An input is a value, or refused for a reason.
LEMMA InputMakes ==
  ASSUME Fits, NEW input, Values!IsInput(input), Values!Parses(input)
  PROVE  \/ \E v : Values!IsValue(s1, v) /\ Values!FromInput(input) = Values!Ok(v)
         \/ \E e : Values!IsRefusal(s1, e) /\ Values!FromInput(input) = Values!Err(e)
<1>1. \A e : Values!IsError(e) /\ Values!Unread(s1.from_wire, e) =>
              /\ Values!Refused(Values!Err(e)) = Values!Err(Values!GqlValueError(e))
              /\ Values!IsRefusal(s1, Values!GqlValueError(e))
  <2>1. TAKE e
  <2>2. Values!GqlValueError(e).source = e
    BY DEF Values!GqlValueError
  <2>3. QED
    BY <2>2, ErrIs DEF Values!Refused, Values!IsRefusal
<1>2. \A it : Values!Refused(Values!Ok(it)) = Values!Ok(it)
  BY OkIs DEF Values!Refused
<1>3. CASE input.kind = "localized"
  <2>1. PICK text : text = Values!ReadLocalized(s1.from_wire, input.primary, input.entries)
    OBVIOUS
  <2>2. Values!FromInput(input) = Values!Refused(text)
    BY <1>3, <2>1 DEF Values!FromInput
  <2>3. Values!AreEntries(input.entries) /\ Reads(s1.from_wire)
    BY <1>3, ProductReads DEF Values!IsInput
  <2>4. CASE \E v : Values!IsText(s1, v) /\ text = Values!Ok(v)
    BY <1>2, <2>2, <2>4 DEF Values!IsValue
  <2>5. CASE \E e : Values!IsError(e) /\ Values!Unread(s1.from_wire, e) /\ text = Values!Err(e)
    BY <1>1, <2>2, <2>5
  <2>6. QED
    BY <2>1, <2>3, <2>4, <2>5, TextMade
<1>4. CASE input.kind = "money"
  <2>1. PICK currency : currency = Values!Refused(Values!Currency(input.currency))
    OBVIOUS
  <2>2. Values!FromInput(input) =
          IF currency.ok THEN Values!Ok(Values!Money(input.amount, currency.is)) ELSE currency
    BY <1>4, <2>1 DEF Values!FromInput
  <2>3. input.amount \in LeastAmount..LargestAmount
    BY <1>4, ErrIs DEF Values!Parses, Values!Amount
  <2>4. CASE \E e : /\ Values!IsError(e) /\ Values!Unread(s1.from_wire, e)
                    /\ Values!Currency(input.currency) = Values!Err(e)
    BY <1>1, <2>1, <2>2, <2>4, ErrIs
  <2>5. CASE \E code \in CurrencyCodes : Values!Currency(input.currency) = Values!Ok(code)
    <3>1. PICK code \in CurrencyCodes : currency = Values!Ok(code)
      BY <1>2, <2>1, <2>5
    <3>2. PICK it : it = Values!Money(input.amount, code)
      OBVIOUS
    <3>3. /\ it.kind = "money" /\ it.amount = input.amount /\ it.currency = code
          /\ it = Values!Money(it.amount, it.currency)
      BY <3>2 DEF Values!Money
    <3>4. Values!IsValue(s1, it)
      BY <2>3, <3>1, <3>3 DEF Values!IsValue
    <3>5. Values!FromInput(input) = Values!Ok(it)
      BY <2>2, <3>1, <3>2, OkIs
    <3>6. QED
      BY <3>4, <3>5
  <2>6. QED
    BY <2>4, <2>5, CodesAreMade DEF Makes
<1>5. QED
  BY <1>3, <1>4 DEF Values!IsInput

-----------------------------------------------------------------------------
(* What is promised of values and errors *)

LEMMA ValuesCount == \A S : Values!Cardinality(S) = Cardinality(S)
BY DEF Cardinality, Values!Cardinality

LEMMA TextIsWell ==
  ASSUME NEW v, Values!IsText(s1, v)
  PROVE  Values!WellFormed(v)
<1>1. /\ v.kind = "localized" /\ v.entries \in Seq([locale : s1.locales, content : Seq(STRING)])
      /\ \E n \in DOMAIN v.entries : v.entries[n].locale = v.primary
      /\ \A n, m \in DOMAIN v.entries : v.entries[n].locale = v.entries[m].locale => n = m
      /\ \A n \in DOMAIN v.entries : Values!Trim(v.entries[n].content) = v.entries[n].content
  BY DEF Values!IsText
<1>2. DOMAIN v.entries = 1..Len(v.entries) /\ Len(v.entries) \in Nat
  BY <1>1
<1> DEFINE primaries == {n \in DOMAIN v.entries : v.entries[n].locale = v.primary}
           locales == {v.entries[n].locale : n \in DOMAIN v.entries}
           f == [n \in DOMAIN v.entries |-> v.entries[n].locale]
<1>3. Cardinality(primaries) = 1
  <2>1. PICK n \in DOMAIN v.entries : v.entries[n].locale = v.primary
    BY <1>1
  <2>2. primaries = {n}
    BY <1>1, <2>1
  <2>3. QED
    BY <2>2, FS_Singleton
<1>4. Cardinality(locales) = Len(v.entries)
  <2> DEFINE places == DOMAIN v.entries
  <2>1. f \in Surjection(places, locales) /\ f \in Injection(places, locales)
    <3>1. \A n \in places : f[n] = v.entries[n].locale /\ f[n] \in locales
      OBVIOUS
    <3>2. \A l \in locales : \E n \in places : f[n] = l
      OBVIOUS
    <3>3. \A n, m \in places : f[n] = f[m] => n = m
      BY <1>1, <3>1
    <3>4. f \in [places -> locales]
      OBVIOUS
    <3> HIDE DEF f, places, locales
    <3>5. f \in Surjection(places, locales)
      BY <3>2, <3>4 DEF Surjection
    <3>6. f \in Injection(places, locales)
      BY <3>3, <3>4 DEF Injection, IsInjective
    <3>7. QED
      BY <3>5, <3>6
  <2> HIDE DEF f, locales
  <2>2. IsFiniteSet(places) /\ Cardinality(places) = Len(v.entries)
    <3>1. PICK k \in Nat : k = Len(v.entries) /\ places = 1..k
      BY <1>2
    <3>2. IsFiniteSet(1..k) /\ Cardinality(1..k) = k
      BY FS_Interval
    <3>3. QED
      BY <3>1, <3>2
  <2> HIDE DEF places
  <2>3. QED
    BY <2>1, <2>2, FS_Surjection
<1>5. Values!Cardinality(primaries) = 1 /\ Values!Cardinality(locales) = Len(v.entries)
  BY <1>3, <1>4, ValuesCount
<1>6. QED
  BY <1>1, <1>5 DEF Values!WellFormed

LEMMA ValueIsWell ==
  ASSUME NEW v, Values!IsValue(s1, v)
  PROVE  Values!WellFormed(v) /\ (v.kind = "content" => Values!WellFormed(v.body))
<1>1. CASE v.kind = "localized"
  BY <1>1, FourKinds, TextIsWell
<1>2. CASE v.kind = "content"
  <2>1. Values!IsText(s1, v.body)
    BY <1>2, FourKinds
  <2>2. v.body.kind = "localized"
    BY <2>1 DEF Values!IsText
  <2>3. QED
    BY <1>2, <2>1, <2>2, TextIsWell DEF Values!WellFormed
<1>3. CASE v.kind = "money"
  BY <1>3, FourKinds DEF Values!WellFormed
<1>4. CASE v.kind = "country"
  BY <1>4, FourKinds DEF Values!WellFormed
<1>5. QED
  BY <1>1, <1>2, <1>3, <1>4, FourKinds

\* The error that fields name: `code`, and `value` and `expected_len` where the code has them
LEMMA FieldsRead ==
  ASSUME NEW e, Values!IsError(e), NEW fields,
         {n \in DOMAIN fields : fields[n].key = "code"} = {1}, fields[1].is = e.code,
         {n \in DOMAIN fields : fields[n].key = "value"} = IF e.code \in Values!WithValue THEN {2} ELSE {},
         e.code \in Values!WithValue => fields[2].is = e.value,
         {n \in DOMAIN fields : fields[n].key = "expected_len"} = IF e.code = "malformed_code" THEN {3} ELSE {},
         e.code = "malformed_code" => fields[3].is = e.len
  PROVE  Values!ErrorFromWire(fields) = {e}
<1> DEFINE at(key) == {n \in DOMAIN fields : fields[n].key = key}
           one(key) == fields[CHOOSE n \in at(key) : TRUE].is
<1>1. /\ e.code \in Values!KnownCodes
      /\ e = Values!ValueError(e.code, IF e.code \in Values!WithValue THEN e.value ELSE <<>>,
                               IF e.code = "malformed_code" THEN e.len ELSE 0)
  BY DEF Values!IsError
<1>2. at("code") = {1} /\ one("code") = e.code
  OBVIOUS
<1>3. at("value") = IF e.code \in Values!WithValue THEN {2} ELSE {}
  OBVIOUS
<1>4. e.code \in Values!WithValue => one("value") = e.value
  BY <1>3
<1>5. at("expected_len") = IF e.code = "malformed_code" THEN {3} ELSE {}
  OBVIOUS
<1>6. e.code = "malformed_code" => one("expected_len") = e.len
  BY <1>5
<1>7. Values!ErrorFromWire(fields) =
        IF \/ \E key \in {"code", "value", "expected_len"} : Values!Cardinality(at(key)) > 1
           \/ at("code") = {} THEN {}
        ELSE IF \/ one("code") \notin Values!KnownCodes
                \/ one("code") \in Values!WithValue /\ at("value") = {}
                \/ one("code") = "malformed_code" /\ at("expected_len") = {} THEN {}
        ELSE {Values!ValueError(one("code"), IF one("code") \in Values!WithValue THEN one("value") ELSE <<>>,
                                IF one("code") = "malformed_code" THEN one("expected_len") ELSE 0)}
  BY DEF Values!ErrorFromWire
<1> HIDE DEF at, one
<1>8. \A key \in {"code", "value", "expected_len"} : at(key) \in {{}, {1}, {2}, {3}}
  <2>1. at("code") = {1} /\ at("value") \in {{}, {2}} /\ at("expected_len") \in {{}, {3}}
    BY <1>2, <1>3, <1>5
  <2>2. QED
    BY <2>1
<1>9. \A key \in {"code", "value", "expected_len"} : ~ Values!Cardinality(at(key)) > 1
  <2>1. TAKE key \in {"code", "value", "expected_len"}
  <2>2. Cardinality(at(key)) \in {0, 1}
    <3>1. at(key) = {} \/ at(key) = {1} \/ at(key) = {2} \/ at(key) = {3}
      BY <1>8
    <3>2. CASE at(key) = {}
      BY <3>2, FS_EmptySet
    <3>3. \A x : at(key) = {x} => Cardinality(at(key)) = 1
      BY FS_Singleton
    <3>4. QED
      BY <3>1, <3>2, <3>3
  <2>3. QED
    BY <2>2, ValuesCount
<1>10. at("code") # {}
  BY <1>2
<1>11. /\ e.code \in Values!WithValue => at("value") # {}
       /\ e.code = "malformed_code" => at("expected_len") # {}
  BY <1>3, <1>5
<1>12. QED
  BY <1>1, <1>2, <1>4, <1>6, <1>7, <1>9, <1>10, <1>11

LEMMA ErrorReturns ==
  ASSUME NEW e, Values!IsError(e)
  PROVE  Values!ErrorFromWire(Values!ErrorToWire(e)) = {e}
<1> DEFINE code == Values!Field("code", e.code)
           value == Values!Field("value", e.value)
           length == Values!Field("expected_len", e.len)
<1>1. /\ code.key = "code" /\ code.is = e.code /\ value.key = "value" /\ value.is = e.value
      /\ length.key = "expected_len" /\ length.is = e.len
  BY DEF Values!Field
<1>2. Values!ErrorToWire(e) =
        (<<code>> \o (IF e.code \in Values!WithValue THEN <<value>> ELSE <<>>))
          \o (IF e.code = "malformed_code" THEN <<length>> ELSE <<>>)
  BY DEF Values!ErrorToWire
<1>3. "malformed_code" \in Values!WithValue
  BY DEF Values!WithValue
<1> HIDE DEF code, value, length
<1>4. /\ <<code>> \o <<value>> = <<code, value>>
      /\ <<code, value>> \o <<length>> = <<code, value, length>>
  BY LettersJoin
<1>5. /\ <<code>> \o <<>> = <<code>> /\ <<code, value>> \o <<>> = <<code, value>>
  <2> DEFINE S == {code, value}
  <2>1. <<code>> \in Seq(S) /\ <<code, value>> \in Seq(S)
    OBVIOUS
  <2> HIDE DEF S
  <2>2. QED
    BY <2>1, ConcatEmptySeq
<1>6. CASE e.code \notin Values!WithValue
  <2>1. Values!ErrorToWire(e) = <<code>>
    BY <1>2, <1>3, <1>5, <1>6
  <2>2. /\ {n \in DOMAIN <<code>> : <<code>>[n].key = "code"} = {1} /\ <<code>>[1].is = e.code
        /\ {n \in DOMAIN <<code>> : <<code>>[n].key = "value"} = {}
        /\ {n \in DOMAIN <<code>> : <<code>>[n].key = "expected_len"} = {}
    BY <1>1
  <2>3. QED
    BY <1>3, <1>6, <2>1, <2>2, FieldsRead
<1>7. CASE e.code \in Values!WithValue /\ e.code # "malformed_code"
  <2>1. Values!ErrorToWire(e) = <<code, value>>
    BY <1>2, <1>4, <1>5, <1>7
  <2>2. PICK fields : fields = <<code, value>>
    OBVIOUS
  <2>3. DOMAIN fields = {1, 2} /\ fields[1] = code /\ fields[2] = value
    BY <2>2
  <2>4. /\ {n \in DOMAIN fields : fields[n].key = "code"} = {1} /\ fields[1].is = e.code
        /\ {n \in DOMAIN fields : fields[n].key = "value"} = {2} /\ fields[2].is = e.value
        /\ {n \in DOMAIN fields : fields[n].key = "expected_len"} = {}
    BY <1>1, <2>3
  <2>5. QED
    BY <1>7, <2>1, <2>2, <2>4, FieldsRead
<1>8. CASE e.code = "malformed_code"
  <2>1. Values!ErrorToWire(e) = <<code, value, length>>
    BY <1>2, <1>3, <1>4, <1>8
  <2>2. PICK fields : fields = <<code, value, length>>
    OBVIOUS
  <2>3. DOMAIN fields = {1, 2, 3} /\ fields[1] = code /\ fields[2] = value /\ fields[3] = length
    BY <2>2
  <2>4. /\ {n \in DOMAIN fields : fields[n].key = "code"} = {1} /\ fields[1].is = e.code
        /\ {n \in DOMAIN fields : fields[n].key = "value"} = {2} /\ fields[2].is = e.value
        /\ {n \in DOMAIN fields : fields[n].key = "expected_len"} = {3} /\ fields[3].is = e.len
    BY <1>1, <2>3
  <2>5. QED
    BY <1>3, <1>8, <2>1, <2>2, <2>4, FieldsRead
<1>9. QED
  BY <1>6, <1>7, <1>8

\* A refusal has a reason of its own, survives the wire, and names a locale nobody can write.
LEMMA RefusalTells ==
  ASSUME NEW e, Values!IsRefusal(s1, e)
  PROVE  /\ Values!ErrorFromWire(Values!ErrorToWire(e.source)) = {e.source}
         /\ Values!ReasonCode(e) \in Values!KnownCodes \cup {"primary_content_missing"}
         /\ e.is = "LocaleUnknown" => e.source.value \notin DOMAIN s1.from_wire
<1>1. Values!IsError(e.source) /\ Values!Unread(s1.from_wire, e.source) /\ e.source.code \in Values!KnownCodes
  BY DEF Values!IsRefusal, Values!IsError
<1>2. e.is = CASE e.source.code = "locale_unknown" -> "LocaleUnknown"
               [] e.source.code = "localized_primary_missing" -> "PrimaryContentMissing"
               [] OTHER -> "ValueRejected"
  <2>1. PICK source : source = e.source
    OBVIOUS
  <2>2. e = Values!GqlValueError(source)
    BY <2>1 DEF Values!IsRefusal
  <2>3. QED
    BY <2>1, <2>2 DEF Values!GqlValueError
<1>3. e.is = "LocaleUnknown" => e.source.code = "locale_unknown"
  BY <1>2
<1>4. Values!ReasonCode(e) \in Values!KnownCodes \cup {"primary_content_missing"}
  <2>1. e.is \in {"LocaleUnknown", "PrimaryContentMissing", "ValueRejected"}
    BY <1>2
  <2>2. QED
    BY <1>1, <2>1 DEF Values!ReasonCode, Values!KnownCodes, Values!WithValue
<1>5. QED
  BY <1>1, <1>3, <1>4, ErrorReturns DEF Values!Unread

LEMMA ValuesSay ==
  ASSUME Values!Inv
  PROVE  Values!TypeOK /\ Values!ValuesHold
<1>1. /\ Fits /\ s2 \in {"idle", "held", "refused", "answered"}
      /\ Values!AtMostOne(s3) /\ Values!AtMostOne(s4) /\ Values!AtMostOne(s5) /\ Values!AtMostOne(s6)
      /\ Values!AtMostOne(s7)
      /\ s2 = "held" => s3 # {} /\ s4 = {}
      /\ \A v \in s3 : Values!IsValue(s1, v)
      /\ \A e \in s6 : Values!IsRefusal(s1, e)
      /\ \A a \in s7 : Values!Honest(a) /\ \A e \in s6 : Values!Tells(e, a)
  BY DEF Values!Inv, Fits
<1>2. \A S : Values!AtMostOne(S) => Values!Cardinality(S) <= 1
  <2>1. TAKE S
  <2>2. Values!AtMostOne(S) => S = {} \/ \E x : S = {x}
    BY DEF Values!AtMostOne
  <2>3. QED
    BY <2>2, AtMostOne, ValuesCount
<1>3. Values!TypeOK
  <2>1. /\ Values!Cardinality(s3) <= 1 /\ Values!Cardinality(s4) <= 1 /\ Values!Cardinality(s5) <= 1
        /\ Values!Cardinality(s6) <= 1 /\ Values!Cardinality(s7) <= 1
    BY <1>1, <1>2
  <2>2. \A n \in 1..5 : Values!Cardinality(<<s3, s4, s5, s6, s7>>[n]) <= 1
    <3>1. TAKE n \in 1..5
    <3>2. <<s3, s4, s5, s6, s7>>[n] \in {s3, s4, s5, s6, s7}
      OBVIOUS
    <3>3. QED
      BY <2>1, <3>2
  <2>3. QED
    BY <1>1, <2>2 DEF Values!TypeOK, Fits
<1>4. Values!ValuesSurvive
  BY <1>1, ValueIsWell, DocumentReturns, OutputReturns DEF Values!ValuesSurvive
<1>5. Values!RefusalsTell
  BY <1>1, RefusalTells DEF Values!RefusalsTell
<1>6. QED
  BY <1>3, <1>4, <1>5 DEF Values!ValuesHold

-----------------------------------------------------------------------------
(* The steps *)

LEMMA ValuesInit == ProvedInit => ValuesInv
<1>1. SUFFICES ASSUME ProvedInit, part = "values" PROVE Values!Inv
  BY DEF ValuesInv
<1>2. /\ s1 \in ValueProducts /\ Values!Conforms(s1) /\ s2 = "idle"
      /\ s3 = {} /\ s4 = {} /\ s5 = {} /\ s6 = {} /\ s7 = {}
  BY <1>1 DEF ProvedInit, Values!Init
<1>3. QED
  BY <1>2 DEF Values!Inv, Values!AtMostOne

\* What a product makes of a document
DocumentRead(p, doc) ==
  CASE doc.kind \in {"localized", "content"} ->
         LET body == Values!ReadLocalized(p.reads, doc.body.primary, doc.body.entries) IN
         IF ~ body.ok \/ doc.kind = "localized" THEN body
         ELSE Values!Ok([kind |-> "content", format |-> doc.format, body |-> body.is])
    [] doc.kind = "money" ->
         LET currency == Values!Currency(doc.currency) IN
         IF currency.ok THEN Values!Ok(Values!Money(doc.amount, currency.is)) ELSE currency
    [] doc.kind = "country" ->
         LET code == Values!CountryCode(doc.code) IN
         IF code.ok THEN Values!Ok([kind |-> "country", code |-> code.is]) ELSE code

\* The product stays, and with it what is text and what reads.
LEMMA SameProduct ==
  ASSUME s1' = s1
  PROVE  \A doc : Values!Deserialized(doc)' = Values!Deserialized(doc)
<1>1. \A doc : /\ Values!Deserialized(doc) = DocumentRead(s1, doc)
               /\ Values!Deserialized(doc)' = DocumentRead(s1', doc)
  BY DEF Values!Deserialized, DocumentRead
<1>2. QED
  BY <1>1

\* A step keeps the invariant if it keeps its parts.
LEMMA ValuesKept ==
  ASSUME Values!Inv, s1' = s1, s2' \in {"idle", "held", "refused", "answered"},
         Values!AtMostOne(s3'), Values!AtMostOne(s4'), Values!AtMostOne(s5'), Values!AtMostOne(s6'),
         Values!AtMostOne(s7'),
         s2' = "held" => s3' # {} /\ s4' = {},
         \A v \in s3' : Values!IsValue(s1, v),
         \A doc \in s4' : Values!Deserialized(doc).ok /\ Values!IsValue(s1, Values!Deserialized(doc).is),
         s6' # {} => s2' \in {"refused", "answered"},
         s7' # {} => s2' = "answered",
         \A e \in s6' : Values!IsRefusal(s1, e),
         \A a \in s7' : Values!Honest(a) /\ \A e \in s6' : Values!Tells(e, a)
  PROVE  Values!Inv'
<1>1. s1' \in ValueProducts /\ Values!Conforms(s1')
  BY DEF Values!Inv
<1>2. \A doc \in s4' : Values!Deserialized(doc)'.ok /\ Values!IsValue(s1', Values!Deserialized(doc)'.is)
  BY SameProduct
<1>3. QED
  BY <1>1, <1>2 DEF Values!Inv

LEMMA OneIsAtMostOne == \A x : Values!AtMostOne({x})
BY DEF Values!AtMostOne

LEMMA NoneIsAtMostOne == Values!AtMostOne({})
BY DEF Values!AtMostOne

LEMMA InvSays ==
  ASSUME Values!Inv
  PROVE  /\ Fits /\ s2 \in {"idle", "held", "refused", "answered"}
         /\ Values!AtMostOne(s3) /\ Values!AtMostOne(s4) /\ Values!AtMostOne(s5) /\ Values!AtMostOne(s6)
         /\ Values!AtMostOne(s7)
         /\ s2 = "held" => s3 # {} /\ s4 = {}
         /\ \A v \in s3 : Values!IsValue(s1, v)
         /\ \A doc \in s4 : Values!Deserialized(doc).ok /\ Values!IsValue(s1, Values!Deserialized(doc).is)
         /\ s6 # {} => s2 \in {"refused", "answered"}
         /\ s7 # {} => s2 = "answered"
         /\ \A e \in s6 : Values!IsRefusal(s1, e)
         /\ \A a \in s7 : Values!Honest(a) /\ \A e \in s6 : Values!Tells(e, a)
BY DEF Values!Inv, Fits

LEMMA ReceiveKeeps ==
  ASSUME Values!Inv, NEW input \in ValueInputs, Values!Receive(input)
  PROVE  Values!Inv'
<1>1. PICK result : result = Values!FromInput(input)
  OBVIOUS
<1>2. /\ s2 = "idle" /\ s4 = {} /\ Values!Parses(input) /\ UNCHANGED <<s1, s4, s5, s7>>
      /\ IF result.ok THEN s2' = "held" /\ s3' = {result.is} /\ UNCHANGED s6
                      ELSE s2' = "refused" /\ s6' = {result.is} /\ UNCHANGED s3
  BY <1>1 DEF Values!Receive
<1>3. s6 = {} /\ s7 = {}
  BY <1>2, InvSays
<1>4. CASE \E v : Values!IsValue(s1, v) /\ result = Values!Ok(v)
  BY <1>2, <1>3, <1>4, OkIs, InvSays, ValuesKept, OneIsAtMostOne
<1>5. CASE \E e : Values!IsRefusal(s1, e) /\ result = Values!Err(e)
  BY <1>2, <1>3, <1>5, ErrIs, InvSays, ValuesKept, OneIsAtMostOne
<1>6. QED
  BY <1>1, <1>2, <1>4, <1>5, InputMakes, InvSays, ValuesConstants

LEMMA RefuseAmountKeeps ==
  ASSUME Values!Inv, NEW input \in ValueInputs, Values!RefuseAmount(input)
  PROVE  Values!Inv'
<1>1. PICK amount : amount = Values!Amount(input.amount)
  OBVIOUS
<1>2. PICK a : a = [gql |-> Values!ScalarRefusal(amount.is), rest |-> {}, logged |-> {}]
  OBVIOUS
<1>3. s2 = "idle" /\ ~ Values!Parses(input) /\ s2' = "answered" /\ s7' = {a} /\ UNCHANGED <<s1, s3, s4, s5, s6>>
  BY <1>1, <1>2 DEF Values!RefuseAmount
<1>4. amount.is.is = "MoneyOutOfRange"
  BY <1>1, <1>3 DEF Values!Parses, Values!Amount, Values!Ok, Values!Err
<1>5. a.gql.message = "money_out_of_range" /\ a.gql.extensions = {} /\ a.rest = {}
  BY <1>2, <1>4 DEF Values!ScalarRefusal, Values!ReasonCode
<1>6. Values!Honest(a) /\ s6 = {}
  BY <1>3, <1>5, InvSays DEF Values!Honest
<1>7. QED
  BY <1>3, <1>6, InvSays, ValuesKept, OneIsAtMostOne

LEMMA LoadDocumentKeeps ==
  ASSUME Values!Inv, NEW doc \in ValueDocuments \cup s4, Values!Load(doc)
  PROVE  Values!Inv'
<1>1. PICK result : result = Values!Deserialized(doc)
  OBVIOUS
<1>2. /\ s2 = "idle" /\ result.ok /\ s3' = {result.is} /\ s2' = "held" /\ s4' = {}
      /\ UNCHANGED <<s1, s5, s6, s7>>
  BY <1>1 DEF Values!Load
<1>3. Values!IsValue(s1, result.is)
  <2>1. CASE doc \in ValueDocuments
    BY <1>1, <1>2, <2>1, DocumentMakes, InvSays, ValuesConstants
  <2>2. CASE doc \in s4
    BY <1>1, <2>2, InvSays
  <2>3. QED
    BY <2>1, <2>2
<1>4. QED
  BY <1>2, <1>3, InvSays, ValuesKept, OneIsAtMostOne, NoneIsAtMostOne

LEMMA TranslateKeeps ==
  ASSUME Values!Inv, NEW locale \in s1.locales, NEW content \in ValueEdits, Values!Translate(locale, content)
  PROVE  Values!Inv'
<1>1. PICK v \in s3 : v.kind = "localized" /\ s3' = {Values!SetEntry(v, locale, content)}
  BY DEF Values!Translate
<1>2. s2 = "held" /\ UNCHANGED <<s1, s2, s4, s5, s6, s7>>
  BY DEF Values!Translate
<1>3. Values!IsText(s1, v)
  BY <1>1, FourKinds, InvSays
<1>4. content \in Seq(STRING)
  BY ValuesConstants
<1>5. Values!IsValue(s1, Values!SetEntry(v, locale, content))
  BY <1>3, <1>4, TextTranslated DEF Values!IsValue
<1>6. QED
  BY <1>1, <1>2, <1>5, InvSays, ValuesKept, OneIsAtMostOne

LEMMA WrapKeeps ==
  ASSUME Values!Inv, NEW format, Values!Wrap(format)
  PROVE  Values!Inv'
<1>1. PICK v \in s3 : v.kind = "localized" /\ s3' = {[kind |-> "content", format |-> format, body |-> v]}
  BY DEF Values!Wrap
<1>2. s2 = "held" /\ UNCHANGED <<s1, s2, s4, s5, s6, s7>>
  BY DEF Values!Wrap
<1>3. Values!IsText(s1, v)
  BY <1>1, FourKinds, InvSays
<1>4. PICK it : it = [kind |-> "content", format |-> format, body |-> v]
  OBVIOUS
<1>5. it.kind = "content" /\ it.body = v /\ it = [kind |-> "content", format |-> it.format, body |-> it.body]
  BY <1>4
<1>6. Values!IsValue(s1, it)
  BY <1>3, <1>5 DEF Values!IsValue
<1>7. QED
  BY <1>1, <1>2, <1>4, <1>6, InvSays, ValuesKept, OneIsAtMostOne

LEMMA PersistKeeps ==
  ASSUME Values!Inv, Values!Persist
  PROVE  Values!Inv'
<1>1. /\ s2 = "held" /\ s4' = {Values!Serialized(v) : v \in s3} /\ s2' = "idle" /\ s3' = {}
      /\ UNCHANGED <<s1, s5, s6, s7>>
  BY DEF Values!Persist
<1>2. Values!AtMostOne(s4')
  BY <1>1, InvSays DEF Values!AtMostOne
<1>3. \A doc \in s4' : Values!Deserialized(doc).ok /\ Values!IsValue(s1, Values!Deserialized(doc).is)
  BY <1>1, DocumentReturns, OkIs, InvSays
<1>4. QED
  BY <1>1, <1>2, <1>3, InvSays, ValuesKept, NoneIsAtMostOne

LEMMA ShowKeeps ==
  ASSUME Values!Inv, Values!Query
  PROVE  Values!Inv'
<1>1. /\ s5' = {Values!Output(v) : v \in s3} /\ s2' = "answered" /\ UNCHANGED <<s1, s3, s4, s6, s7>>
  BY DEF Values!Query
<1>2. Values!AtMostOne(s5')
  BY <1>1, InvSays DEF Values!AtMostOne
<1>3. QED
  BY <1>1, <1>2, InvSays, ValuesKept

\* An answer that is logged if it is a fault, has no parameters then, and tells of a refusal
LEMMA AnswerTells ==
  ASSUME Values!Inv, s2 \in {"held", "refused"}, NEW edge, Values!Answer(edge),
         edge.code = "INTERNAL" => edge.detail # {} /\ edge.params = <<>>,
         \A e \in s6 : \A a : a.gql.extensions = {[code |-> edge.code, reason |-> edge.reason, params |-> edge.params]}
                           => Values!Tells(e, a)
  PROVE  Values!Inv'
<1>1. PICK a : a = [gql |-> Values!IntoGql(edge), rest |-> {Values!IntoResponse(edge)},
                    logged |-> IF edge.code = "INTERNAL" THEN edge.detail ELSE {}]
  OBVIOUS
<1>2. s2' = "answered" /\ s7' = {a} /\ UNCHANGED <<s1, s3, s4, s5, s6>>
  BY <1>1 DEF Values!Answer
<1> DEFINE said == [code |-> edge.code, reason |-> edge.reason, params |-> edge.params]
<1>3. /\ a.gql.extensions = {said} /\ {response.error : response \in a.rest} = {said}
      /\ a.logged = IF edge.code = "INTERNAL" THEN edge.detail ELSE {}
  BY <1>1 DEF Values!IntoGql, Values!IntoResponse
<1>4. said.code = edge.code /\ said.params = edge.params
  OBVIOUS
<1>5. \A e \in s6 : Values!Tells(e, a)
  BY <1>3
<1> HIDE DEF said
<1>6. Values!Honest(a)
  BY <1>3, <1>4 DEF Values!Honest
<1>7. QED
  BY <1>2, <1>5, <1>6, InvSays, ValuesKept, OneIsAtMostOne

\* What the edge says of a refusal
LEMMA RefusalSaid ==
  ASSUME NEW e, Values!IsRefusal(s1, e)
  PROVE  LET edge == Values!EdgeOf(e) IN
         /\ edge.code = "BAD_USER_INPUT" /\ edge.reason = {Values!ReasonCode(e)}
         /\ edge.params = IF e.is = "ValueRejected"
                            THEN <<Values!Field("value", Values!ReasonCode(e))>> ELSE Values!Offending(e)
<1>1. PICK source : source = e.source
  OBVIOUS
<1>2. e = Values!GqlValueError(source)
  BY <1>1 DEF Values!IsRefusal
<1>3. /\ e.is \in {"LocaleUnknown", "PrimaryContentMissing", "ValueRejected"}
      /\ e.is = "LocaleUnknown" => e.source.code = "locale_unknown"
      /\ e.is = "PrimaryContentMissing" => e.source.code = "localized_primary_missing"
  BY <1>1, <1>2 DEF Values!GqlValueError
<1> DEFINE params == CASE e.is = "LocaleUnknown" -> <<Values!Field("value", e.source.value)>>
                       [] e.is = "MoneyOutOfRange" -> <<Values!Field("amount", e.source.value)>>
                       [] e.is = "PrimaryContentMissing" -> <<>>
                       [] e.is = "ValueRejected" -> <<Values!Field("value", e.source.code)>>
<1>4. /\ Values!EdgeOf(e).code = "BAD_USER_INPUT" /\ Values!EdgeOf(e).reason = {Values!ReasonCode(e)}
      /\ Values!EdgeOf(e).params = params
  BY DEF Values!EdgeOf, Values!EdgeError
<1>5. params = IF e.is = "ValueRejected"
                 THEN <<Values!Field("value", Values!ReasonCode(e))>> ELSE Values!Offending(e)
  <2>1. CASE e.is = "ValueRejected"
    BY <2>1 DEF Values!ReasonCode
  <2>2. CASE e.is = "LocaleUnknown"
    BY <1>3, <2>2 DEF Values!Offending, Values!WithValue
  <2>3. CASE e.is = "PrimaryContentMissing"
    BY <1>3, <2>3 DEF Values!Offending, Values!WithValue
  <2>4. QED
    BY <1>3, <2>1, <2>2, <2>3
<1> HIDE DEF params
<1>6. QED
  BY <1>4, <1>5

LEMMA RejectInputKeeps ==
  ASSUME Values!Inv, Values!Reject
  PROVE  Values!Inv'
<1>1. PICK e \in s6 : Values!Answer(Values!EdgeOf(e))
  BY DEF Values!Reject
<1>2. PICK edge : edge = Values!EdgeOf(e)
  OBVIOUS
<1>3. s2 = "refused" /\ Values!IsRefusal(s1, e) /\ \A other \in s6 : other = e
  BY InvSays DEF Values!Reject, Values!AtMostOne
<1>4. /\ edge.code = "BAD_USER_INPUT" /\ edge.reason = {Values!ReasonCode(e)}
      /\ edge.params = IF e.is = "ValueRejected"
                         THEN <<Values!Field("value", Values!ReasonCode(e))>> ELSE Values!Offending(e)
  BY <1>2, <1>3, RefusalSaid
<1>5. \A other \in s6 : \A a : a.gql.extensions = {[code |-> edge.code, reason |-> edge.reason, params |-> edge.params]}
                               => Values!Tells(other, a)
  BY <1>3, <1>4 DEF Values!Tells
<1>6. QED
  BY <1>1, <1>2, <1>3, <1>4, <1>5, AnswerTells

LEMMA FaultKeeps ==
  ASSUME Values!Inv, Values!Fail
  PROVE  Values!Inv'
<1> s2 = "held" /\ s6 = {}
  BY InvSays DEF Values!Fail
<1>1. PICK fault : fault = Values!EdgeError("INTERNAL", {}, <<>>, {Values!Field("detail", "sql")})
  OBVIOUS
<1>2. fault.detail # {} /\ fault.params = <<>>
  BY <1>1 DEF Values!EdgeError
<1>3. CASE Values!Answer(fault)
  BY <1>2, <1>3, AnswerTells
<1>4. ASSUME NEW code, code # "INTERNAL", Values!Answer(Values!EdgeError(code, {"rule"}, <<>>, {}))
      PROVE  Values!Inv'
  <2>1. Values!EdgeError(code, {"rule"}, <<>>, {}).code = code
    BY DEF Values!EdgeError
  <2>2. QED
    BY <1>4, <2>1, AnswerTells
<1>5. \/ Values!Answer(fault)
      \/ \E code : code # "INTERNAL" /\ Values!Answer(Values!EdgeError(code, {"rule"}, <<>>, {}))
  BY <1>1 DEF Values!Fail
<1>6. QED
  BY <1>3, <1>4, <1>5

LEMMA ValuesNext == ValuesInv /\ [ProvedNext]_vars => ValuesInv'
<1>1. SUFFICES ASSUME ValuesInv, [ProvedNext]_vars, part' = "values" PROVE Values!Inv'
  BY DEF ValuesInv
<1>2. part = "values" /\ (Values!Next \/ UNCHANGED <<s1, s2, s3, s4, s5, s6, s7>>)
  BY <1>1 DEF ProvedNext, vars
<1>3. Values!Inv
  BY <1>1, <1>2 DEF ValuesInv
<1>4. CASE UNCHANGED <<s1, s2, s3, s4, s5, s6, s7>>
  BY <1>3, <1>4, InvSays, ValuesKept
<1>5. CASE Values!Next
  BY <1>3, <1>5, ReceiveKeeps, RefuseAmountKeeps, LoadDocumentKeeps, TranslateKeeps, WrapKeeps, PersistKeeps, ShowKeeps,
     RejectInputKeeps, FaultKeeps DEF Values!Next
<1>6. QED
  BY <1>2, <1>4, <1>5

\* ValueEdge, for any products that pass their check, any codecs, inputs, documents and edits: what is
\* held is well formed and comes back from its document; money comes back from what a query shows, and
\* text does where the codec reads what it writes; a refusal survives its wire and carries what it
\* should, but of a rejected value; and no edge tells more than the other, nor the detail of a fault.
THEOREM ValuesCorrect == ProvedSpec => []ValuesHold
<1>1. ValuesInv => ValuesHold
  BY ValuesSay DEF ValuesInv, ValuesHold
<1>2. QED
  BY ValuesInit, ValuesNext, <1>1, PTL DEF ProvedSpec
=============================================================================
