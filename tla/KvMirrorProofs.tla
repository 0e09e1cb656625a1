---------------------------- MODULE KvMirrorProofs ----------------------------
(***************************************************************************)
(* Proofs about KvMirror, for any keys, values, filter, delays and bounds. *)
(*                                                                         *)
(* The bucket at a revision is a CHOOSE over the log, so the first part    *)
(* says what it yields and when two revisions agree on a key.  The         *)
(* inductive invariant then follows a cycle through its stages: what the   *)
(* scan found is the bucket's value at the revision it read each key at,   *)
(* the sink holds it once the orphans are gone, and the watch keeps it     *)
(* current up to its position.                                             *)
(***************************************************************************)
EXTENDS KvMirror, BackoffProofs

-----------------------------------------------------------------------------
(* The bucket at a revision *)

\* Entry m is the last of key k among the first n.
Latest(k, n, m) ==
  /\ m \in 1..n
  /\ log[m].key = k
  /\ \A l \in (m + 1)..n : log[l].key # k

LEMMA LatestUnique ==
  ASSUME NEW k, NEW n \in Nat, NEW l, NEW m, Latest(k, n, l), Latest(k, n, m)
  PROVE  l = m
<1>1. l \in 1..n /\ m \in 1..n
  BY DEF Latest
<1>2. ~(l < m)
  <2>1. l < m => m \in (l + 1)..n
    BY <1>1
  <2>2. QED
    BY <2>1 DEF Latest
<1>3. ~(m < l)
  <2>1. m < l => l \in (m + 1)..n
    BY <1>1
  <2>2. QED
    BY <2>1 DEF Latest
<1>4. QED
  BY <1>1, <1>2, <1>3

LEMMA LatestExists ==
  ASSUME NEW k, NEW n \in Nat, \E m \in 1..n : log[m].key = k
  PROVE  \E m \in 1..n : Latest(k, n, m)
<1> DEFINE T == {d \in Nat : d < n /\ log[n - d].key = k}
<1>1. T \in SUBSET Nat /\ T # {}
  <2>1. PICK m \in 1..n : log[m].key = k
    OBVIOUS
  <2>2. n - m \in Nat /\ n - m < n /\ n - (n - m) = m
    BY <2>1
  <2>3. QED
    BY <2>1, <2>2
<1> HIDE DEF T
<1>2. PICK d \in T : \A e \in T : d <= e
  BY <1>1, LeastNat
<1>3. d \in Nat /\ d < n /\ log[n - d].key = k
  BY <1>2 DEF T
<1>4. \A l \in (n - d + 1)..n : log[l].key # k
  <2>1. TAKE l \in (n - d + 1)..n
  <2>2. n - l \in Nat /\ n - l < n /\ n - l < d /\ n - (n - l) = l
    BY <1>3
  <2>3. n - l \notin T
    BY <1>2, <1>3, <2>2
  <2>4. QED
    BY <2>2, <2>3 DEF T
<1>5. n - d \in 1..n
  BY <1>3
<1>6. QED
  BY <1>3, <1>4, <1>5 DEF Latest

LEMMA ValueAtLatest ==
  ASSUME NEW k, NEW n \in Nat, NEW m, Latest(k, n, m)
  PROVE  ValueAt(k, n) = log[m].val
<1> DEFINE c == CHOOSE l \in 1..n : log[l].key = k /\ \A j \in (l + 1)..n : log[j].key # k
<1>1. m \in 1..n /\ log[m].key = k /\ \A j \in (m + 1)..n : log[j].key # k
  BY DEF Latest
<1>2. c \in 1..n /\ log[c].key = k /\ \A j \in (c + 1)..n : log[j].key # k
  BY <1>1
<1>3. ValueAt(k, n) = log[c].val
  BY <1>1 DEF ValueAt
<1> HIDE DEF c
<1>4. c = m
  <2>1. Latest(k, n, c)
    BY <1>2 DEF Latest
  <2>2. QED
    BY <2>1, LatestUnique
<1>5. QED
  BY <1>3, <1>4

LEMMA ValueAtNone ==
  ASSUME NEW k, NEW n \in Nat, \A m \in 1..n : log[m].key # k
  PROVE  ValueAt(k, n) = Nothing
BY DEF ValueAt

\* Two revisions agree on a key that was not written between them.
LEMMA ValueAtQuiet ==
  ASSUME NEW k, NEW a \in Nat, NEW n \in Nat, a <= n, \A m \in (a + 1)..n : log[m].key # k
  PROVE  ValueAt(k, n) = ValueAt(k, a)
<1>1. CASE \E m \in 1..a : log[m].key = k
  <2>1. PICK m \in 1..a : Latest(k, a, m)
    BY <1>1, LatestExists
  <2>2. Latest(k, n, m)
    <3>1. m \in 1..n /\ log[m].key = k
      BY <2>1 DEF Latest
    <3>2. \A l \in (m + 1)..n : log[l].key # k
      <4>1. TAKE l \in (m + 1)..n
      <4>2. l \in (m + 1)..a \/ l \in (a + 1)..n
        OBVIOUS
      <4>3. QED
        BY <2>1, <4>2 DEF Latest
    <3>3. QED
      BY <3>1, <3>2 DEF Latest
  <2>3. QED
    BY <2>1, <2>2, ValueAtLatest
<1>2. CASE ~ \E m \in 1..a : log[m].key = k
  <2>1. \A m \in 1..n : log[m].key # k
    <3>1. TAKE m \in 1..n
    <3>2. m \in 1..a \/ m \in (a + 1)..n
      OBVIOUS
    <3>3. QED
      BY <1>2, <3>2
  <2>2. QED
    BY <1>2, <2>1, ValueAtNone
<1>3. QED
  BY <1>1, <1>2

\* Where its n-th entry is of key k, the bucket has that entry's value at revision n.
LEMMA ValueAtEntry ==
  ASSUME NEW n \in Nat \ {0}
  PROVE  ValueAt(log[n].key, n) = log[n].val
<1>1. Latest(log[n].key, n, n)
  BY DEF Latest
<1>2. QED
  BY <1>1, ValueAtLatest

\* Writing appends: no revision there was changes.
LEMMA ValueAtKept ==
  ASSUME log \in Seq(Entry), NEW e \in Entry, log' = Append(log, e),
         NEW k, NEW n \in 0..Len(log)
  PROVE  ValueAt(k, n)' = ValueAt(k, n)
<1>1. \A m \in 1..n : log'[m] = log[m]
  OBVIOUS
<1>2. n \in Nat
  OBVIOUS
<1>3. CASE \E m \in 1..n : log[m].key = k
  <2>1. PICK m \in 1..n : Latest(k, n, m)
    BY <1>2, <1>3, LatestExists
  <2>2. m \in 1..n /\ log'[m].key = k /\ \A l \in (m + 1)..n : log'[l].key # k
    BY <1>1, <2>1 DEF Latest
  <2> DEFINE c == CHOOSE l \in 1..n : log'[l].key = k /\ \A j \in (l + 1)..n : log'[j].key # k
  <2>3. c \in 1..n /\ log'[c].key = k /\ \A j \in (c + 1)..n : log'[j].key # k
    BY <2>2
  <2>4. ValueAt(k, n)' = log'[c].val
    BY <2>2 DEF ValueAt
  <2> HIDE DEF c
  <2>5. Latest(k, n, c)
    <3>1. c \in 1..n /\ log[c].key = k
      BY <1>1, <2>3
    <3>2. \A j \in (c + 1)..n : log[j].key # k
      BY <1>1, <2>3
    <3>3. QED
      BY <3>1, <3>2 DEF Latest
  <2>6. QED
    BY <1>1, <1>2, <2>3, <2>4, <2>5, ValueAtLatest
<1>4. CASE ~ \E m \in 1..n : log[m].key = k
  BY <1>1, <1>4 DEF ValueAt
<1>5. QED
  BY <1>3, <1>4

-----------------------------------------------------------------------------
(* The inductive invariant *)

\* The value the scan read of k, as the sink should hold it.
Seen(k) == Image(ValueAt(k, scanned[k]))

Bounded ==
  /\ \A k \in Key : scanned[k] <= Len(log)
  /\ pc = "following" =>
       /\ \A k \in Key : scanned[k] <= opened
       /\ opened <= position /\ position <= Len(log)

\* What the scan has found so far.
ScanHolds ==
  pc \in {"getting", "projecting", "retracting"} =>
    /\ \A k \in Selected : (pc = "getting" /\ k \in todo) \/ desired[k] = Seen(k)
    /\ \A k \in Key \ Selected : desired[k] = Nothing

\* How far the sink has been brought to what the scan found.
ReconcileHolds ==
  /\ pc = "projecting" =>
       \A k \in Selected \ todo : desired[k] = Nothing \/ mirror[k] = desired[k]
  /\ pc = "retracting" =>
       \A k \in Selected : IF k \in todo THEN desired[k] = Nothing ELSE mirror[k] = desired[k]
  /\ pc = "subscribing" => \A k \in Selected : mirror[k] = Seen(k)

\* The row of k is what the bucket held at revision n, and what the watch has left out of
\* the entries after n is superseded by an entry still to come.
Applied(k, n) ==
  /\ mirror[k] = Image(ValueAt(k, n))
  /\ \A m \in (opened + 1)..position : log[m].key = k /\ m > n => Superseded(m)

WatchHolds ==
  pc = "following" =>
    \A k \in Selected :
      Applied(k, scanned[k]) \/ \E n \in (opened + 1)..position : Applied(k, n)

\* Only a reconciled cycle, or one that was dropped, says Healthy.
HealthHolds ==
  /\ health = "Healthy" => pc \in {"subscribing", "following", "down"}
  /\ HealthyIsFresh

Inv == TypeOK /\ Bounded /\ ScanHolds /\ ReconcileHolds /\ WatchHolds /\ HealthHolds

-----------------------------------------------------------------------------
(* Values and unchanged parts *)

LEMMA Images ==
  /\ \A v : Image(v) \in Passing \cup {Nothing}
  /\ Image(Nothing) = Nothing
BY ValueAssumption DEF Image

LEMMA SameLog ==
  ASSUME UNCHANGED log, NEW k, NEW n
  PROVE  ValueAt(k, n)' = ValueAt(k, n)
BY DEF ValueAt

LEMMA InvInit == Init => Inv
<1> SUFFICES ASSUME Init
             PROVE  Inv
  OBVIOUS
<1>1. Empty \in [Key -> Passing \cup {Nothing}] /\ Len(log) = 0 /\ log \in Seq(Entry)
  BY DEF Init, Empty
<1>2. TypeOK
  BY <1>1, DelayAssumption DEF Init, TypeOK
<1>3. QED
  BY <1>1, <1>2
  DEF Init, Inv, Bounded, ScanHolds, ReconcileHolds, WatchHolds, HealthHolds, HealthyIsFresh

\* The step ends the cycle: nothing is kept of it, and the mirror is Degraded.
LEMMA EndCycleInv ==
  ASSUME Inv, UNCHANGED <<log, mirror>>, EndCycle, pc' \in {"pausing", "down", "listing"},
         delay' \in Nat, idle' \in Nat, faults' \in Nat
  PROVE  Inv'
<1>1. Empty \in [Key -> Passing \cup {Nothing}]
  BY DEF Empty
<1>2. /\ todo' = {} /\ desired' = Empty /\ position' = 0 /\ progressed' = FALSE
      /\ scanned' = [k \in Key |-> 0] /\ opened' = 0 /\ health' = "Degraded"
  BY DEF EndCycle
<1>3. TypeOK'
  BY <1>1, <1>2 DEF Inv, TypeOK
<1>4. Len(log') \in Nat
  BY DEF Inv, TypeOK
<1>5. QED
  BY <1>2, <1>3, <1>4
  DEF Inv, Bounded, ScanHolds, ReconcileHolds, WatchHolds, HealthHolds, HealthyIsFresh

LEMMA FaultTyped == ASSUME Inv, Fault PROVE faults' \in Nat
BY DEF Inv, TypeOK, Fault

\* The mirror, what the scan saw and the log are as they were.
LEMMA StillFresh ==
  ASSUME Inv, UNCHANGED <<log, mirror, scanned, health>>
  PROVE  HealthyIsFresh'
<1> SUFFICES ASSUME health = "Healthy", NEW k \in Selected
             PROVE  \E n \in scanned[k]..Len(log) : mirror[k] = Image(ValueAt(k, n)')
  BY DEF HealthyIsFresh, Image
<1>1. QED
  BY SameLog DEF Inv, HealthHolds, HealthyIsFresh

LEMMA StillSeen ==
  ASSUME UNCHANGED <<log, scanned>>, NEW k
  PROVE  Seen(k)' = Seen(k)
BY SameLog DEF Seen, Image

-----------------------------------------------------------------------------
(* The actions *)

LEMMA WriteInv ==
  ASSUME Inv, NEW k \in Key, NEW v \in Value \cup {Nothing}, Write(k, v)
  PROVE  Inv'
<1> DEFINE e == [key |-> k, val |-> v]
<1>1. /\ e \in Entry /\ log' = Append(log, e) /\ log \in Seq(Entry)
      /\ UNCHANGED <<mirror, pc, cycle, health, delay, idle, faults>>
  BY DEF Inv, TypeOK, Write, Entry
<1> HIDE DEF e
<1>2. /\ log' \in Seq(Entry) /\ Len(log') = Len(log) + 1 /\ Len(log) \in Nat
      /\ \A n \in 1..Len(log) : log'[n] = log[n]
  BY <1>1
<1>3. \A q : \A n \in 0..Len(log) : ValueAt(q, n)' = ValueAt(q, n)
  BY <1>1, ValueAtKept
<1>4. TypeOK'
  BY <1>1, <1>2 DEF Inv, TypeOK, cycle
<1>5. Bounded'
  BY <1>1, <1>2 DEF Inv, TypeOK, Bounded, cycle
<1>6. \A q \in Key : scanned[q] \in 0..Len(log) /\ Seen(q)' = Seen(q)
  <2>1. \A q \in Key : scanned[q] \in 0..Len(log)
    BY <1>2 DEF Inv, TypeOK, Bounded
  <2>2. \A q \in Key : ValueAt(q, scanned[q])' = ValueAt(q, scanned[q])
    BY <1>1, <1>3, <2>1 DEF cycle
  <2>3. QED
    BY <2>1, <2>2 DEF Seen, Image
<1>7. ScanHolds' /\ ReconcileHolds'
  BY <1>1, <1>6, KeyAssumption DEF Inv, ScanHolds, ReconcileHolds, cycle
<1>8. HealthHolds'
  <2>1. ASSUME health = "Healthy", NEW q \in Selected
        PROVE  \E n \in scanned[q]..(Len(log) + 1) : mirror[q] = Image(ValueAt(q, n)')
    <3>1. PICK n \in scanned[q]..Len(log) : mirror[q] = Image(ValueAt(q, n))
      BY <2>1 DEF Inv, HealthHolds, HealthyIsFresh
    <3>2. scanned[q] \in Nat
      BY KeyAssumption DEF Inv, TypeOK
    <3>3. n \in 0..Len(log) /\ n \in scanned[q]..(Len(log) + 1)
      BY <1>2, <3>2
    <3>4. QED
      BY <1>3, <3>1, <3>3
  <2>2. HealthyIsFresh'
    BY <1>1, <1>2, <2>1 DEF HealthyIsFresh, Image, cycle
  <2>3. QED
    BY <1>1, <2>2 DEF Inv, HealthHolds
<1>9. WatchHolds'
  <2> SUFFICES ASSUME pc = "following"
               PROVE  WatchHolds'
    BY <1>1 DEF WatchHolds
  <2>1. opened \in Nat /\ position \in Nat /\ opened <= position /\ position <= Len(log)
    BY DEF Inv, TypeOK, Bounded
  <2>2. ASSUME NEW m \in 1..Len(log), Superseded(m)
        PROVE  Superseded(m)'
    BY <1>2, <2>2 DEF Superseded
  <2>3. ASSUME NEW q \in Selected, NEW n \in 0..Len(log), Applied(q, n)
        PROVE  Applied(q, n)'
    <3>1. mirror'[q] = Image(ValueAt(q, n)')
      BY <1>1, <1>3, <2>3 DEF Applied
    <3>2. \A m \in (opened + 1)..position : log'[m].key = q /\ m > n => Superseded(m)'
      BY <1>2, <2>1, <2>2, <2>3 DEF Applied
    <3>3. QED
      BY <1>1, <3>1, <3>2 DEF Applied, Image, cycle
  <2>4. ASSUME NEW q \in Selected
        PROVE  Applied(q, scanned[q])' \/ \E n \in (opened + 1)..position : Applied(q, n)'
    <3>1. CASE Applied(q, scanned[q])
      <4>1. PICK n \in 0..Len(log) : n = scanned[q]
        BY <1>6, KeyAssumption
      <4>2. Applied(q, n)'
        BY <2>3, <3>1, <4>1
      <4>3. scanned'[q] = n
        BY <1>1, <4>1 DEF cycle
      <4>4. QED
        BY <4>2, <4>3 DEF Applied
    <3>2. CASE \E n \in (opened + 1)..position : Applied(q, n)
      <4>1. PICK n \in (opened + 1)..position : Applied(q, n)
        BY <3>2
      <4>2. n \in 0..Len(log)
        BY <2>1
      <4>3. QED
        BY <2>3, <4>1, <4>2
    <3>3. QED
      BY <3>1, <3>2 DEF Inv, WatchHolds
  <2>5. QED
    BY <1>1, <2>4 DEF WatchHolds, cycle
<1>10. QED
  BY <1>4, <1>5, <1>7, <1>8, <1>9 DEF Inv

LEMMA ListInv == ASSUME Inv, List PROVE Inv'
<1>1. /\ pc = "listing" /\ pc' = "getting" /\ desired' = Empty
      /\ todo' = {k \in Selected : Current(k) # Nothing}
      /\ scanned' = [k \in Key |-> Len(log)]
      /\ UNCHANGED <<log, mirror, position, progressed, opened, health, delay, idle, faults>>
  BY DEF List
<1>2. Len(log) \in Nat
  BY DEF Inv, TypeOK
<1>3. TypeOK' /\ Bounded'
  BY <1>1, <1>2 DEF Inv, TypeOK, Bounded, Empty
<1>4. ScanHolds'
  <2>1. ASSUME NEW k \in Selected, k \notin todo'
        PROVE  desired'[k] = Seen(k)'
    <3>1. k \in Key /\ scanned'[k] = Len(log) /\ desired'[k] = Nothing
      BY <1>1, KeyAssumption DEF Empty
    <3>2. ValueAt(k, Len(log)) = Nothing
      BY <1>1, <2>1 DEF Current
    <3>3. ValueAt(k, Len(log))' = Nothing
      BY <1>1, <3>2, SameLog
    <3>4. ValueAt(k, scanned[k])' = Nothing
      BY <1>1, <3>1, <3>3
    <3>5. QED
      BY <3>1, <3>4, Images DEF Seen, Image
  <2>2. \A k \in Key \ Selected : desired'[k] = Nothing
    BY <1>1 DEF Empty
  <2>3. QED
    BY <1>1, <2>1, <2>2 DEF ScanHolds
<1>5. health # "Healthy"
  BY <1>1 DEF Inv, HealthHolds
<1>6. QED
  BY <1>1, <1>3, <1>4, <1>5
  DEF Inv, ReconcileHolds, WatchHolds, HealthHolds, HealthyIsFresh

LEMMA GetInv == ASSUME Inv, NEW k \in Key, Get(k) PROVE Inv'
<1>1. CASE Current(k) \in Corrupt
  BY <1>1, EndCycleInv DEF Get, Pause, Inv, TypeOK
<1>2. CASE Current(k) \notin Corrupt
  <2>1. /\ pc = "getting" /\ k \in todo /\ todo' = todo \ {k}
        /\ desired' = [desired EXCEPT ![k] = Image(Current(k))]
        /\ scanned' = [scanned EXCEPT ![k] = Len(log)]
        /\ UNCHANGED <<log, mirror, pc, health, position, progressed, opened, delay, idle, faults>>
    BY <1>2 DEF Get
  <2>2. Len(log) \in Nat /\ Image(Current(k)) \in Passing \cup {Nothing}
    BY Images DEF Inv, TypeOK
  <2>3. TypeOK' /\ Bounded'
    BY <2>1, <2>2 DEF Inv, TypeOK, Bounded
  <2>4. ScanHolds'
    <3>1. Image(ValueAt(k, scanned[k])') = Image(Current(k))
      <4>1. scanned'[k] = Len(log)
        BY <2>1 DEF Inv, TypeOK
      <4>2. ValueAt(k, Len(log))' = ValueAt(k, Len(log))
        BY <2>1, SameLog
      <4>3. ValueAt(k, scanned[k])' = Current(k)
        BY <2>1, <4>1, <4>2 DEF Current
      <4>4. QED
        BY <4>3
    <3>2. desired'[k] = Seen(k)'
      BY <2>1, <3>1 DEF Seen, Image, Inv, TypeOK
    <3>3. ASSUME NEW q \in Selected, q # k
          PROVE  Seen(q)' = Seen(q)
      <4>1. scanned'[q] = scanned[q]
        BY <2>1, <3>3, KeyAssumption DEF Inv, TypeOK
      <4>2. ValueAt(q, scanned[q])' = ValueAt(q, scanned[q])
        BY <2>1, <4>1, SameLog
      <4>3. QED
        BY <4>2 DEF Seen, Image
    <3>4. \A q \in Key : q # k => desired'[q] = desired[q]
      BY <2>1 DEF Inv, TypeOK
    <3>5. k \in Selected
      BY <2>1 DEF Inv, TypeOK
    <3>6. QED
      BY <2>1, <3>2, <3>3, <3>4, <3>5, KeyAssumption DEF Inv, ScanHolds
  <2>5. health # "Healthy"
    BY <2>1 DEF Inv, HealthHolds
  <2>6. QED
    BY <2>1, <2>3, <2>4, <2>5
    DEF Inv, ReconcileHolds, WatchHolds, HealthHolds, HealthyIsFresh
<1>3. QED
  BY <1>1, <1>2

LEMMA ScanDoneInv == ASSUME Inv, ScanDone PROVE Inv'
<1>1. /\ pc = "getting" /\ todo = {} /\ pc' = "projecting"
      /\ todo' = {k \in Key : desired[k] # Nothing}
      /\ UNCHANGED <<log, mirror, desired, position, progressed, scanned, opened, health, delay,
                     idle, faults>>
  BY DEF ScanDone
<1>2. todo' \subseteq Selected
  BY <1>1 DEF Inv, ScanHolds
<1>3. TypeOK' /\ Bounded'
  BY <1>1, <1>2 DEF Inv, TypeOK, Bounded
<1>4. ScanHolds'
  BY <1>1, StillSeen DEF Inv, ScanHolds
<1>5. ReconcileHolds'
  BY <1>1, KeyAssumption DEF ReconcileHolds
<1>6. health # "Healthy"
  BY <1>1 DEF Inv, HealthHolds
<1>7. QED
  BY <1>1, <1>3, <1>4, <1>5, <1>6 DEF Inv, WatchHolds, HealthHolds, HealthyIsFresh

LEMMA ProjectInv == ASSUME Inv, NEW k \in Key, Project(k) PROVE Inv'
<1>1. /\ pc = "projecting" /\ k \in todo /\ todo' = todo \ {k}
      /\ mirror' = [mirror EXCEPT ![k] = desired[k]]
      /\ UNCHANGED <<log, pc, desired, position, progressed, scanned, opened, health, delay,
                     idle, faults>>
  BY DEF Project
<1>2. TypeOK' /\ Bounded'
  BY <1>1 DEF Inv, TypeOK, Bounded
<1>3. ScanHolds'
  BY <1>1, StillSeen DEF Inv, ScanHolds
<1>4. ReconcileHolds'
  BY <1>1, KeyAssumption DEF Inv, TypeOK, ReconcileHolds
<1>5. health # "Healthy"
  BY <1>1 DEF Inv, HealthHolds
<1>6. QED
  BY <1>1, <1>2, <1>3, <1>4, <1>5 DEF Inv, WatchHolds, HealthHolds, HealthyIsFresh

LEMMA KnownKeysInv == ASSUME Inv, KnownKeys PROVE Inv'
<1>1. /\ pc = "projecting" /\ todo = {} /\ pc' = "retracting" /\ todo' = Orphans
      /\ UNCHANGED <<log, mirror, desired, position, progressed, scanned, opened, health, delay,
                     idle, faults>>
  BY DEF KnownKeys
<1>2. TypeOK' /\ Bounded'
  BY <1>1 DEF Inv, TypeOK, Bounded, Orphans
<1>3. ScanHolds'
  BY <1>1, StillSeen DEF Inv, ScanHolds
<1>4. ReconcileHolds'
  BY <1>1 DEF Inv, ReconcileHolds, Orphans
<1>5. health # "Healthy"
  BY <1>1 DEF Inv, HealthHolds
<1>6. QED
  BY <1>1, <1>2, <1>3, <1>4, <1>5 DEF Inv, WatchHolds, HealthHolds, HealthyIsFresh

LEMMA RetractInv == ASSUME Inv, NEW k \in Key, Retract(k) PROVE Inv'
<1>1. /\ pc = "retracting" /\ k \in todo /\ todo' = todo \ {k}
      /\ mirror' = [mirror EXCEPT ![k] = Nothing]
      /\ UNCHANGED <<log, pc, desired, position, progressed, scanned, opened, health, delay,
                     idle, faults>>
  BY DEF Retract
<1>2. TypeOK' /\ Bounded'
  BY <1>1 DEF Inv, TypeOK, Bounded
<1>3. ScanHolds'
  BY <1>1, StillSeen DEF Inv, ScanHolds
<1>4. ReconcileHolds'
  BY <1>1, KeyAssumption DEF Inv, TypeOK, ReconcileHolds
<1>5. health # "Healthy"
  BY <1>1 DEF Inv, HealthHolds
<1>6. QED
  BY <1>1, <1>2, <1>3, <1>4, <1>5 DEF Inv, WatchHolds, HealthHolds, HealthyIsFresh

LEMMA BootstrappedInv == ASSUME Inv, Bootstrapped PROVE Inv'
<1>1. /\ pc = "retracting" /\ todo = {} /\ pc' = "subscribing" /\ health' = "Healthy"
      /\ desired' = Empty
      /\ UNCHANGED <<log, mirror, todo, position, progressed, scanned, opened, delay, idle, faults>>
  BY DEF Bootstrapped
<1>2. TypeOK' /\ Bounded'
  BY <1>1 DEF Inv, TypeOK, Bounded, Empty
<1>3. \A k \in Selected : mirror[k] = Seen(k)
  BY <1>1 DEF Inv, ScanHolds, ReconcileHolds
<1>4. ReconcileHolds'
  BY <1>1, <1>3, StillSeen DEF ReconcileHolds
<1>5. HealthyIsFresh'
  <2>1. ASSUME NEW k \in Selected
        PROVE  /\ scanned[k] \in scanned[k]..Len(log)
               /\ mirror[k] = Image(ValueAt(k, scanned[k])')
    <3>1. scanned[k] \in Nat /\ Len(log) \in Nat /\ scanned[k] <= Len(log)
      BY KeyAssumption DEF Inv, TypeOK, Bounded
    <3>2. ValueAt(k, scanned[k])' = ValueAt(k, scanned[k])
      BY <1>1, SameLog
    <3>3. QED
      BY <1>3, <3>1, <3>2 DEF Seen
  <2>2. QED
    BY <1>1, <2>1 DEF HealthyIsFresh, Image
<1>6. QED
  BY <1>1, <1>2, <1>4, <1>5 DEF Inv, ScanHolds, WatchHolds, HealthHolds

LEMMA SubscribeInv == ASSUME Inv, Subscribe PROVE Inv'
<1>1. /\ pc = "subscribing" /\ pc' = "following"
      /\ position' = Len(log) /\ opened' = Len(log) /\ progressed' = FALSE
      /\ UNCHANGED <<log, mirror, todo, desired, scanned, health, delay, idle, faults>>
  BY DEF Subscribe
<1>2. Len(log) \in Nat
  BY DEF Inv, TypeOK
<1>3. TypeOK' /\ Bounded'
  <2>1. TypeOK'
    BY <1>1, <1>2 DEF Inv, TypeOK
  <2>2. Bounded'
    BY <1>1, <1>2 DEF Inv, Bounded
  <2>3. QED
    BY <2>1, <2>2
<1>4. WatchHolds'
  <2>1. ASSUME NEW k \in Selected
        PROVE  Applied(k, scanned[k])'
    <3>1. mirror[k] = Seen(k)
      BY <1>1 DEF Inv, ReconcileHolds
    <3>2. ValueAt(k, scanned[k])' = ValueAt(k, scanned[k])
      BY <1>1, SameLog
    <3>3. (opened + 1)'..position' = {}
      BY <1>1, <1>2
    <3>4. QED
      BY <1>1, <3>1, <3>2, <3>3 DEF Applied, Seen, Image
  <2>2. QED
    BY <2>1 DEF WatchHolds
<1>5. QED
  BY <1>1, <1>3, <1>4, StillFresh DEF Inv, ScanHolds, ReconcileHolds, HealthHolds

LEMMA DeliverInv == ASSUME Inv, NEW n \in 1..Len(log), Deliver(n) PROVE Inv'
<1>1. CASE log[n].key \in Selected /\ log[n].val \in Corrupt
  <2>1. /\ UNCHANGED <<log, mirror, faults>> /\ Pause
        /\ delay' = InitialDelay /\ idle' = 0
    BY <1>1 DEF Deliver, StopFollowing
  <2>2. QED
    BY <2>1, EndCycleInv, DelayAssumption DEF Pause, Inv, TypeOK
<1>2. CASE ~(log[n].key \in Selected /\ log[n].val \in Corrupt)
  <2>1. /\ pc = "following" /\ NextEntry(n) /\ Apply(n) /\ position' = n /\ progressed' = TRUE
        /\ UNCHANGED <<log, faults, pc, todo, desired, scanned, opened, health, delay, idle>>
    BY <1>2 DEF Deliver
  <2>2. /\ log[n] \in Entry /\ n \in Nat \ {0} /\ Len(log) \in Nat /\ n > position
        /\ opened \in Nat /\ position \in Nat /\ opened <= position
    BY <2>1 DEF Inv, TypeOK, Bounded, NextEntry
  <2>3. /\ mirror' \in [Key -> Passing \cup {Nothing}]
        /\ \A k \in Selected : mirror'[k] = IF k = log[n].key THEN Image(log[n].val) ELSE mirror[k]
    BY <2>1, Images, KeyAssumption DEF Apply, Inv, TypeOK
  <2>4. TypeOK' /\ Bounded'
    BY <2>1, <2>2, <2>3 DEF Inv, TypeOK, Bounded
  <2>5. ASSUME NEW k, k = log[n].key
        PROVE  ValueAt(k, n)' = log[n].val
    BY <2>1, <2>2, <2>5, SameLog, ValueAtEntry
  <2>6. \A m \in (position + 1)..(n - 1) : Superseded(m)'
    BY <2>1 DEF NextEntry, Superseded
  <2>7. WatchHolds'
    <3>1. ASSUME NEW k \in Selected, k = log[n].key
          PROVE  n \in (opened + 1)..n /\ Applied(k, n)'
      <4>1. mirror'[k] = Image(ValueAt(k, n)')
        BY <2>3, <2>5, <3>1
      <4>2. \A m \in (opened + 1)..n : ~ (m > n)
        BY <2>2
      <4>3. QED
        BY <2>1, <2>2, <4>1, <4>2 DEF Applied, Image
    <3>2. ASSUME NEW k \in Selected, k # log[n].key, NEW j, Applied(k, j)
          PROVE  Applied(k, j)'
      <4>1. mirror'[k] = Image(ValueAt(k, j)')
        BY <2>1, <2>3, <3>2, SameLog DEF Applied
      <4>2. ASSUME NEW m \in (opened + 1)..n, log[m].key = k, m > j
            PROVE  Superseded(m)'
        <5>1. CASE m <= position
          <6>1. m \in (opened + 1)..position
            BY <2>2, <5>1
          <6>2. Superseded(m)
            BY <3>2, <4>2, <6>1 DEF Applied
          <6>3. QED
            BY <2>1, <6>2 DEF Superseded
        <5>2. CASE m > position
          <6>1. m # n
            BY <3>2, <4>2
          <6>2. m \in (position + 1)..(n - 1)
            BY <2>2, <5>2, <6>1
          <6>3. QED
            BY <2>6, <6>2
        <5>3. QED
          BY <2>2, <5>1, <5>2
      <4>3. QED
        BY <2>1, <4>1, <4>2 DEF Applied, Image
    <3>3. ASSUME NEW k \in Selected
          PROVE  Applied(k, scanned[k])' \/ \E j \in (opened + 1)..n : Applied(k, j)'
      <4>1. CASE k = log[n].key
        BY <3>1, <4>1
      <4>2. CASE k # log[n].key
        <5>1. CASE Applied(k, scanned[k])
          <6>1. PICK j : j = scanned[k]
            OBVIOUS
          <6>2. Applied(k, j)'
            BY <3>2, <4>2, <5>1, <6>1
          <6>3. scanned'[k] = j
            BY <2>1, <6>1
          <6>4. QED
            BY <6>2, <6>3 DEF Applied
        <5>2. CASE \E j \in (opened + 1)..position : Applied(k, j)
          <6>1. PICK j \in (opened + 1)..position : Applied(k, j)
            BY <5>2
          <6>2. j \in (opened + 1)..n /\ Applied(k, j)'
            BY <2>2, <3>2, <4>2, <6>1
          <6>3. QED
            BY <6>2
        <5>3. QED
          BY <2>1, <5>1, <5>2 DEF Inv, WatchHolds
      <4>3. QED
        BY <4>1, <4>2
    <3>4. QED
      BY <2>1, <3>3 DEF WatchHolds
  <2>8. HealthyIsFresh'
    <3>1. ASSUME health = "Healthy", NEW k \in Selected
          PROVE  \E j \in scanned[k]..Len(log) : mirror'[k] = Image(ValueAt(k, j)')
      <4>1. CASE k = log[n].key
        <5>1. n \in scanned[k]..Len(log)
          <6>1. scanned[k] \in Nat /\ scanned[k] <= opened
            BY <2>1, KeyAssumption DEF Inv, TypeOK, Bounded
          <6>2. QED
            BY <2>2, <6>1
        <5>2. QED
          BY <2>3, <2>5, <4>1, <5>1
      <4>2. CASE k # log[n].key
        <5>1. PICK j \in scanned[k]..Len(log) : mirror[k] = Image(ValueAt(k, j))
          BY <3>1 DEF Inv, HealthHolds, HealthyIsFresh
        <5>2. QED
          BY <2>1, <2>3, <4>2, <5>1, SameLog
      <4>3. QED
        BY <4>1, <4>2
    <3>2. QED
      BY <2>1, <3>1 DEF HealthyIsFresh, Image
  <2>9. QED
    BY <2>1, <2>4, <2>7, <2>8 DEF Inv, ScanHolds, ReconcileHolds, HealthHolds
<1>3. QED
  BY <1>1, <1>2

LEMMA DropInv == ASSUME Inv, Drop PROVE Inv'
<1>1. /\ pc' = "down" /\ todo' = {} /\ desired' = Empty /\ position' = 0 /\ progressed' = FALSE
      /\ opened' = 0 /\ delay' = InitialDelay /\ idle' = 0 /\ faults' \in Nat
      /\ UNCHANGED <<log, mirror, scanned, health>>
  BY FaultTyped DEF Drop, NewBackoff
<1>2. TypeOK' /\ Bounded'
  BY <1>1, DelayAssumption DEF Inv, TypeOK, Bounded, Empty
<1>3. QED
  BY <1>1, <1>2, StillFresh DEF Inv, ScanHolds, ReconcileHolds, WatchHolds, HealthHolds

LEMMA SleepInv == ASSUME Inv, Sleep PROVE Inv'
<1>1. /\ pc = "pausing" /\ pc' = "listing" /\ delay' = NextDelay(delay)
      /\ idle' \in Nat /\ UNCHANGED <<log, mirror, cycle, health, faults>>
  BY DEF Sleep, Inv, TypeOK
<1>2. NextDelay(delay) \in Nat
  BY DelayAssumption DEF NextDelay, Inv, TypeOK
<1>3. TypeOK' /\ Bounded'
  BY <1>1, <1>2 DEF Inv, TypeOK, Bounded, cycle
<1>4. health # "Healthy"
  BY <1>1 DEF Inv, HealthHolds
<1>5. QED
  BY <1>1, <1>3, <1>4
  DEF Inv, ScanHolds, ReconcileHolds, WatchHolds, HealthHolds, HealthyIsFresh

LEMMA PauseInv ==
  ASSUME Inv, UNCHANGED <<log, mirror>>, faults' \in Nat,
         \/ Pause /\ UNCHANGED <<delay, idle>>
         \/ \E delivered \in BOOLEAN : StopFollowing(delivered)
  PROVE  Inv'
<1>1. EndCycle /\ pc' = "pausing" /\ delay' \in Nat /\ idle' \in Nat
  BY DelayAssumption DEF Pause, StopFollowing, Inv, TypeOK
<1>2. QED
  BY <1>1, EndCycleInv

LEMMA FollowEndsStops ==
  ASSUME Inv, FollowEnds
  PROVE  /\ UNCHANGED <<log, mirror>> /\ Fault
         /\ \E delivered \in BOOLEAN : StopFollowing(delivered)
BY DEF FollowEnds, Inv, TypeOK

LEMMA InvNext == Inv /\ [Next]_vars => Inv'
<1> SUFFICES ASSUME Inv, [Next]_vars
             PROVE  Inv'
  OBVIOUS
<1>1. CASE Start
  <2>1. /\ UNCHANGED <<log, mirror>> /\ EndCycle /\ pc' = "listing"
        /\ delay' \in Nat /\ idle' \in Nat /\ faults' \in Nat
    BY <1>1 DEF Start, Inv, TypeOK
  <2>2. QED
    BY <2>1, EndCycleInv
<1>2. CASE List
  BY <1>2, ListInv
<1>3. CASE ScanDone \/ KnownKeys \/ Bootstrapped \/ Subscribe \/ Sleep
  BY <1>3, ScanDoneInv, KnownKeysInv, BootstrappedInv, SubscribeInv, SleepInv
<1>4. ASSUME NEW k \in Key, Get(k) \/ Project(k) \/ Retract(k)
      PROVE  Inv'
  BY <1>4, GetInv, ProjectInv, RetractInv
<1>5. ASSUME NEW n \in 1..Len(log), Deliver(n)
      PROVE  Inv'
  BY <1>5, DeliverInv
<1>6. CASE ReconcileFails
  BY <1>6, FaultTyped, PauseInv DEF ReconcileFails
<1>7. CASE FollowEnds
  BY <1>7, FaultTyped, FollowEndsStops, PauseInv
<1>8. CASE Crash
  <2>1. /\ UNCHANGED <<log, mirror>> /\ EndCycle /\ pc' = "down"
        /\ delay' \in Nat /\ idle' \in Nat /\ faults' \in Nat
    BY <1>8, FaultTyped, DelayAssumption DEF Crash, NewBackoff
  <2>2. QED
    BY <2>1, EndCycleInv
<1>9. CASE Drop
  BY <1>9, DropInv
<1>10. ASSUME NEW k \in Key, NEW v \in Value \cup {Nothing}, Write(k, v)
       PROVE  Inv'
  BY <1>10, WriteInv
<1>11. CASE UNCHANGED vars
  <2>1. UNCHANGED <<log, mirror, pc, todo, desired, position, progressed, scanned, opened,
                    health, delay, idle, faults>>
    BY <1>11 DEF vars, cycle
  <2>2. TypeOK' /\ Bounded' /\ ScanHolds' /\ ReconcileHolds'
    BY <2>1, StillSeen DEF Inv, TypeOK, Bounded, ScanHolds, ReconcileHolds
  <2>3. ASSUME NEW k, NEW n
        PROVE  Applied(k, n) => Applied(k, n)'
    BY <2>1, SameLog DEF Applied, Superseded, Image
  <2>4. WatchHolds'
    <3>1. ASSUME NEW k \in Selected
          PROVE  Applied(k, scanned[k]) => Applied(k, scanned[k])'
      <4>1. PICK n : n = scanned[k] /\ n = scanned'[k]
        BY <2>1
      <4>2. QED
        BY <2>3, <4>1 DEF Applied
    <3>2. QED
      BY <2>1, <2>3, <3>1 DEF Inv, WatchHolds
  <2>5. QED
    BY <2>1, <2>2, <2>4, StillFresh DEF Inv, HealthHolds
<1>12. QED
  BY <1>1, <1>2, <1>3, <1>4, <1>5, <1>6, <1>7, <1>8, <1>9, <1>10, <1>11 DEF Next, Step

LEMMA AlwaysInv == Spec => []Inv
BY InvInit, InvNext, PTL DEF Spec

-----------------------------------------------------------------------------
(* The theorems *)

\* While it reports Healthy, a mirror holds for every selected key something the bucket held
\* since this cycle read that key, whoever writes meanwhile and whatever fails.
THEOREM MirrorCorrect == Spec => []MirrorIsFresh
<1>1. Inv => MirrorIsFresh
  BY DEF Inv, HealthHolds, MirrorIsFresh
<1>2. QED
  BY AlwaysInv, <1>1, PTL

LEMMA InSyncAtTheEnd ==
  ASSUME Inv, pc = "following", position = Len(log), NEW k \in Selected, ~Missed(k)
  PROVE  mirror[k] = Image(Current(k))
<1>1. /\ opened \in Nat /\ Len(log) \in Nat /\ opened <= Len(log)
      /\ scanned[k] \in Nat /\ scanned[k] <= opened
  BY KeyAssumption DEF Inv, TypeOK, Bounded
<1>2. PICK n \in Nat : /\ n = scanned[k] \/ n \in (opened + 1)..position
                       /\ Applied(k, n)
  BY <1>1 DEF Inv, WatchHolds
<1>3. n <= Len(log)
  BY <1>1, <1>2
<1>4. \A m \in (n + 1)..Len(log) : log[m].key # k
  <2>1. SUFFICES ASSUME NEW m \in (n + 1)..Len(log), log[m].key = k
                 PROVE  FALSE
    OBVIOUS
  <2>2. m \in 1..Len(log)
    BY <1>2
  <2>3. PICK j \in 1..Len(log) : Latest(k, Len(log), j)
    BY <1>1, <2>1, <2>2, LatestExists
  <2>4. log[j].key = k /\ \A l \in (j + 1)..Len(log) : log[l].key # k
    BY <2>3 DEF Latest
  <2>5. ~Superseded(j)
    BY <2>4 DEF Superseded
  <2>6. j >= m
    BY <1>1, <2>1, <2>2, <2>4
  <2>7. j > n
    BY <2>1, <2>6
  <2>8. ~(j \in (opened + 1)..position)
    BY <1>2, <2>4, <2>5, <2>7 DEF Applied
  <2>9. j <= opened /\ n = scanned[k]
    BY <1>1, <1>2, <2>7, <2>8
  <2>10. j \in (scanned[k] + 1)..opened
    BY <1>1, <2>7, <2>9
  <2>11. QED
    BY <2>4, <2>5, <2>10 DEF Missed
<1>5. ValueAt(k, Len(log)) = ValueAt(k, n)
  BY <1>1, <1>3, <1>4, ValueAtQuiet
<1>6. QED
  BY <1>2, <1>5 DEF Applied, Current

\* A watch that has caught up leaves out no selected key but those last written between
\* their scan and the opening of the watch.
THEOREM GapCorrect == Spec => []OnlyTheGapIsMissed
<1>1. Inv => OnlyTheGapIsMissed
  BY InSyncAtTheEnd DEF OnlyTheGapIsMissed
<1>2. QED
  BY AlwaysInv, <1>1, PTL

-----------------------------------------------------------------------------
(* The backoff *)

LEMMA PaceInit == Init => FlappingBacksOff
BY PaceStarts DEF Init, FlappingBacksOff

LEMMA PaceNext == Inv /\ FlappingBacksOff /\ [Next]_vars => FlappingBacksOff'
<1> SUFFICES ASSUME Inv, FlappingBacksOff, [Next]_vars
             PROVE  FlappingBacksOff'
  OBVIOUS
<1>1. CASE UNCHANGED <<delay, idle>>
  BY <1>1 DEF FlappingBacksOff
<1>2. CASE delay' = InitialDelay /\ idle' = 0
  BY <1>2, PaceStarts DEF FlappingBacksOff
<1>3. CASE Sleep
  <2>1. delay' = NextDelay(delay) /\ (idle' = idle \/ idle' = idle + 1)
    BY <1>3 DEF Sleep
  <2>2. delay \in Nat /\ idle \in Nat /\ idle' \in Nat
    BY <2>1 DEF Inv, TypeOK
  <2>3. QED
    BY <2>1, <2>2, PaceKept DEF FlappingBacksOff
<1>4. CASE \E delivered \in BOOLEAN : StopFollowing(delivered)
  BY <1>1, <1>2, <1>4 DEF StopFollowing
<1>5. CASE Start \/ List \/ ScanDone \/ KnownKeys \/ Bootstrapped \/ Subscribe \/ ReconcileFails
  BY <1>1, <1>5
  DEF Start, List, ScanDone, KnownKeys, Bootstrapped, Subscribe, ReconcileFails
<1>6. ASSUME NEW k \in Key, Get(k) \/ Project(k) \/ Retract(k)
      PROVE  FlappingBacksOff'
  BY <1>1, <1>6 DEF Get, Project, Retract
<1>7. ASSUME NEW n \in 1..Len(log), Deliver(n)
      PROVE  FlappingBacksOff'
  BY <1>1, <1>4, <1>7 DEF Deliver
<1>8. CASE FollowEnds
  BY <1>4, <1>8, FollowEndsStops
<1>9. CASE Crash \/ Drop
  BY <1>2, <1>9 DEF Crash, Drop, NewBackoff
<1>10. ASSUME NEW k \in Key, NEW v \in Value \cup {Nothing}, Write(k, v)
       PROVE  FlappingBacksOff'
  BY <1>1, <1>10 DEF Write
<1>11. CASE UNCHANGED vars
  BY <1>1, <1>11 DEF vars
<1>12. QED
  BY <1>3, <1>5, <1>6, <1>7, <1>8, <1>9, <1>10, <1>11 DEF Next, Step

\* A supervised mirror that delivers nothing sleeps ever longer, up to the cap, for any
\* initial delay and cap: its successful scans reset nothing.
THEOREM FlappingCorrect == Spec => []FlappingBacksOff
<1>1. QED
  BY AlwaysInv, PaceInit, PaceNext, PTL DEF Spec
=============================================================================
