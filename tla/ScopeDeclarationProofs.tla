------------------------ MODULE ScopeDeclarationProofs ------------------------
(***************************************************************************)
(* Proofs about ScopeDeclaration, for any services, scopes, declarants,    *)
(* Identity replicas, attempt cap and bounds.                              *)
(*                                                                         *)
(* Four inductive invariants, each on top of the one before:               *)
(*   Typed     types, and what a replica has in hand at each step;         *)
(*   Judged    a judged registry contains the declaration and hydrates;    *)
(*   Locked    what a load that can still win the optimistic lock has seen;*)
(*   Answered  what a confirmation says, wherever it has got to.           *)
(***************************************************************************)
EXTENDS ScopeDeclaration, TLAPS

\* A working replica has a command; its verdict fits where it stands.
InHand ==
  \A w \in Worker :
    /\ wpc[w] # "idle" => cmd[w] \in Command
    /\ wpc[w] = "saving" => verdict[w] \in {"changed", "unchanged"}
    /\ wpc[w] \in {"confirming", "acking"} => verdict[w] \in {"accepted", "rejected"}

Typed == TypeOK /\ InHand

LEMMA TypedInit == Init => Typed
<1> SUFFICES ASSUME Init
             PROVE  Typed
  OBVIOUS
<1>1. queue \in [Command -> 0..MaxFrames] /\ boot \in [Declarant -> 1..MaxBoots]
  BY NumberAssumption DEF Init
<1>2. tries \in [Worker -> 0..MaxAttempts] /\ cmd \in [Worker -> Command \cup {NoCommand}]
  BY NumberAssumption DEF Init
<1>3. /\ seenBy \in [Scope -> SUBSET Declarant]
      /\ inbox \in [Declarant -> SUBSET {"accepted", "rejected"}]
      /\ lsvcs \in [Worker -> SUBSET Service] /\ lscopes \in [Worker -> SUBSET Scope]
  BY DEF Init
<1>4. QED
  BY <1>1, <1>2, <1>3 DEF Init, Typed, TypeOK, InHand

\* What the locals of a replica are once its handler returned.
LEMMA DoneTyped ==
  ASSUME Typed, NEW w \in Worker, Done(w)
  PROVE  /\ wpc' \in [Worker -> {"idle", "head", "services", "scopes", "saving",
                                 "confirming", "acking"}]
         /\ cmd' \in [Worker -> Command \cup {NoCommand}]
         /\ tries' \in [Worker -> 0..MaxAttempts]
         /\ loaded' \in [Worker -> Nat]
         /\ lsvcs' \in [Worker -> SUBSET Service] /\ lscopes' \in [Worker -> SUBSET Scope]
         /\ verdict' \in [Worker -> {"none", "changed", "unchanged", "accepted", "rejected"}]
         /\ InHand'
BY NumberAssumption DEF Typed, TypeOK, InHand, Done, Goto

LEMMA CommandParts ==
  ASSUME NEW c \in Command
  PROVE  c[1] \in Declarant /\ c[2] \in 1..MaxBoots
BY DEF Command

\* The four variables of the store, written by a save.
LEMMA WriteTyped ==
  ASSUME Typed, NEW w \in Worker, wpc[w] = "saving", Write(w)
  PROVE  /\ version' \in Nat /\ services' \subseteq Service /\ scopes' \subseteq Scope
         /\ seenBy' \in [Scope -> SUBSET Declarant]
<1>1. cmd[w][1] \in Declarant
  BY CommandParts DEF Typed, InHand
<1>2. QED
  BY <1>1 DEF Typed, TypeOK, Write, NewVersion

LEMMA EmitTyped ==
  ASSUME Typed, NEW w \in Worker, wpc[w] = "confirming", Emit(w)
  PROVE  inbox' \in [Declarant -> SUBSET {"accepted", "rejected"}]
<1>1. cmd[w][1] \in Declarant /\ verdict[w] \in {"accepted", "rejected"}
  BY CommandParts DEF Typed, InHand
<1>2. QED
  BY <1>1 DEF Typed, TypeOK, Emit, Correlated

LEMMA TypedNext == Typed /\ [Next]_vars => Typed'
<1> SUFFICES ASSUME Typed, [Next]_vars
             PROVE  Typed'
  OBVIOUS
<1> USE RegistryAssumption, NumberAssumption DEF Typed, InHand
<1>1. ASSUME NEW d \in Declarant, OptOut(d)
      PROVE  Typed'
  BY <1>1 DEF TypeOK, OptOut, db, worker
<1>2. ASSUME NEW d \in Declarant, Subscribe(d)
      PROVE  Typed'
  BY <1>2 DEF TypeOK, Subscribe, db, worker
<1>3. ASSUME NEW d \in Declarant, Declare(d)
      PROVE  Typed'
  <2>1. queue' \in [Command -> 0..MaxFrames] /\ faults' \in Nat
    <3>1. faults' \in Nat
      BY <1>3 DEF TypeOK, Declare, Fault
    <3>2. \E c \in Command :
            \/ queue' = IF queue[c] < MaxFrames THEN [queue EXCEPT ![c] = @ + 1] ELSE queue
            \/ queue' = queue
      BY <1>3, <<d, boot[d]>> \in Command DEF Declare, TypeOK, Command
    <3>3. QED
      BY <3>1, <3>2 DEF TypeOK
  <2>2. QED
    BY <1>3, <2>1 DEF TypeOK, Declare, db, worker
<1>4. ASSUME NEW d \in Declarant, WaitTimeout(d)
      PROVE  Typed'
  BY <1>4 DEF TypeOK, WaitTimeout, db, worker
<1>5. ASSUME NEW d \in Declarant, Resolve(d)
      PROVE  Typed'
  <2>1. PICK k \in inbox[d] : /\ dpc' = [dpc EXCEPT ![d] = k]
                              /\ ready' = [ready EXCEPT ![d] = (k = "accepted")]
    BY <1>5 DEF Resolve
  <2>2. k \in {"accepted", "rejected"}
    BY DEF TypeOK
  <2>3. ready' \in [Declarant -> BOOLEAN]
    BY <2>1 DEF TypeOK
  <2>4. dpc' \in [Declarant -> {"boot", "disabled", "publishing", "waiting", "accepted", "rejected"}]
    BY <2>1, <2>2 DEF TypeOK
  <2>5. QED
    BY <1>5, <2>3, <2>4 DEF TypeOK, Resolve, db, worker
<1>6. ASSUME NEW d \in Declarant, Restart(d)
      PROVE  Typed'
  BY <1>6 DEF TypeOK, Restart, Fault, db, worker
<1>7. ASSUME NEW w \in Worker, NEW c \in Command, Take(w, c)
      PROVE  Typed'
  BY <1>7 DEF TypeOK, Take, Goto, db, declarant
<1>8. ASSUME NEW w \in Worker, ReadHead(w)
      PROVE  Typed'
  BY <1>8 DEF TypeOK, ReadHead, Goto, db, declarant
<1>9. ASSUME NEW w \in Worker, ReadServices(w)
      PROVE  Typed'
  BY <1>9 DEF TypeOK, ReadServices, Goto, db, declarant
<1>10. ASSUME NEW w \in Worker, HydrationFails(w)
       PROVE  Typed'
  BY <1>10, DoneTyped DEF TypeOK, HydrationFails, db, declarant
<1>11. ASSUME NEW w \in Worker, Judge(w)
       PROVE  Typed'
  <2>1. cmd[w][1] \in Declarant
    BY <1>11, CommandParts DEF Judge
  <2>2. /\ ServiceOf[cmd[w][1]] \in Service
        /\ Declared[cmd[w][1]] \subseteq Scope
    BY <2>1
  <2>3. CASE Valid(cmd[w][1])
    BY <1>11, <2>2, <2>3 DEF TypeOK, Judge, Goto, db, declarant
  <2>4. CASE ~Valid(cmd[w][1])
    BY <1>11, <2>4 DEF TypeOK, Judge, Goto, db, declarant
  <2>5. QED
    BY <2>3, <2>4
<1>12. ASSUME NEW w \in Worker, Save(w)
       PROVE  Typed'
  BY <1>12, WriteTyped DEF TypeOK, Save, Goto, declarant
<1>13. ASSUME NEW w \in Worker, VersionConflict(w)
       PROVE  Typed'
  <2>1. CASE tries[w] < MaxAttempts
    BY <1>13, <2>1 DEF TypeOK, VersionConflict, Goto, db, declarant
  <2>2. CASE ~(tries[w] < MaxAttempts)
    BY <1>13, <2>2, DoneTyped DEF TypeOK, VersionConflict, db, declarant
  <2>3. QED
    BY <2>1, <2>2
<1>14. ASSUME NEW w \in Worker, Confirm(w)
       PROVE  Typed'
  <2>1. inbox' \in [Declarant -> SUBSET {"accepted", "rejected"}] /\ faults' \in Nat
    BY <1>14, EmitTyped DEF TypeOK, Confirm, Fault
  <2>2. QED
    BY <1>14, <2>1 DEF TypeOK, Confirm, Goto, db
<1>15. ASSUME NEW w \in Worker, Ack(w)
       PROVE  Typed'
  <2>1. queue' \in [Command -> 0..MaxFrames] /\ faults' \in Nat
    BY <1>15 DEF TypeOK, Ack, Fault
  <2>2. QED
    BY <1>15, <2>1, DoneTyped DEF TypeOK, Ack, db, declarant
<1>16. ASSUME NEW w \in Worker, CommitReplyLost(w)
       PROVE  Typed'
  BY <1>16, WriteTyped, DoneTyped DEF TypeOK, CommitReplyLost, Fault, declarant
<1>17. ASSUME NEW w \in Worker, ConfirmFails(w)
       PROVE  Typed'
  <2>1. inbox' \in [Declarant -> SUBSET {"accepted", "rejected"}] /\ faults' \in Nat
    BY <1>17, EmitTyped DEF TypeOK, ConfirmFails, Fault
  <2>2. QED
    BY <1>17, <2>1, DoneTyped DEF TypeOK, ConfirmFails, db
<1>18. ASSUME NEW w \in Worker, Abandon(w)
       PROVE  Typed'
  BY <1>18, DoneTyped DEF TypeOK, Abandon, Fault, db, declarant
<1>19. CASE UNCHANGED vars
  BY <1>19 DEF TypeOK, vars, db, worker, declarant
<1>20. QED
  BY <1>1, <1>2, <1>3, <1>4, <1>5, <1>6, <1>7, <1>8, <1>9, <1>10, <1>11, <1>12, <1>13,
     <1>14, <1>15, <1>16, <1>17, <1>18, <1>19
  DEF Next, DeclarantStep, WorkerStep, WorkerFault

\* Every variable keeps its type: the attempt count stays within MAX_ATTEMPTS.
THEOREM TypeCorrect == Spec => []TypeOK
<1>1. Typed => TypeOK
  BY DEF Typed
<1>2. QED
  BY TypedInit, TypedNext, <1>1, PTL DEF Spec

LEMMA AlwaysTyped == Spec => []Typed
BY TypedInit, TypedNext, PTL DEF Spec

-----------------------------------------------------------------------------
(* What a replica has judged *)

\* A declarant touches neither the store nor a replica.
LEMMA DeclarantsApart ==
  ASSUME NEW d \in Declarant, DeclarantStep(d) \/ Restart(d)
  PROVE  UNCHANGED <<db, worker>>
BY DEF DeclarantStep, OptOut, Subscribe, Declare, WaitTimeout, Resolve, Restart

\* A judged registry contains the declaration, and hydrates.
JudgedRegistry(w) ==
  /\ Valid(cmd[w][1])
  /\ ServiceOf[cmd[w][1]] \in lsvcs[w]
  /\ Declared[cmd[w][1]] \subseteq lscopes[w]
  /\ \A s \in lscopes[w] : Prefix[s] \in lsvcs[w]

Judged ==
  /\ StoreHydrates
  /\ \A w \in Worker : wpc[w] = "saving" => JudgedRegistry(w)

LEMMA JudgedInit == Init => Judged
BY DEF Init, Judged, StoreHydrates

LEMMA WriteHydrates ==
  ASSUME Judged, NEW w \in Worker, wpc[w] = "saving", Write(w)
  PROVE  StoreHydrates'
BY DEF Judged, JudgedRegistry, StoreHydrates, Write

LEMMA JudgedNext == Typed /\ Judged /\ [Next]_vars => Judged'
<1> SUFFICES ASSUME Typed, Judged, [Next]_vars
             PROVE  Judged'
  OBVIOUS
<1> USE DEF Judged, JudgedRegistry, Typed, TypeOK
<1>1. ASSUME NEW d \in Declarant, DeclarantStep(d) \/ Restart(d)
      PROVE  Judged'
  BY <1>1, DeclarantsApart DEF StoreHydrates, Valid, db, worker
<1>2. ASSUME NEW w \in Worker, NEW c \in Command, Take(w, c)
      PROVE  Judged'
  BY <1>2 DEF Take, Goto, StoreHydrates, Valid, db
<1>3. ASSUME NEW w \in Worker, ReadHead(w) \/ ReadServices(w)
      PROVE  Judged'
  BY <1>3 DEF ReadHead, ReadServices, Goto, StoreHydrates, Valid, db
<1>4. ASSUME NEW w \in Worker, UNCHANGED db, Done(w)
      PROVE  Judged'
  BY <1>4 DEF Done, Goto, StoreHydrates, Valid, db
<1>5. ASSUME NEW w \in Worker, Judge(w)
      PROVE  Judged'
  <2>1. StoreHydrates'
    BY <1>5 DEF Judge, StoreHydrates, db
  <2>2. cmd[w][1] \in Declarant
    BY <1>5, CommandParts DEF Judge, InHand
  <2>3. CASE Valid(cmd[w][1])
    <3>1. JudgedRegistry(w)'
      BY <1>5, <2>2, <2>3, RegistryAssumption DEF Judge, Orphaned, Goto, Valid
    <3>2. \A v \in Worker \ {w} : wpc'[v] = "saving" => JudgedRegistry(v)'
      BY <1>5, <2>3 DEF Judge, Goto, Valid
    <3>3. QED
      BY <2>1, <3>1, <3>2
  <2>4. CASE ~Valid(cmd[w][1])
    BY <1>5, <2>1, <2>4 DEF Judge, Goto, Valid
  <2>5. QED
    BY <2>3, <2>4
<1>6. ASSUME NEW w \in Worker, Save(w)
      PROVE  Judged'
  <2>1. StoreHydrates'
    BY <1>6, WriteHydrates DEF Save
  <2>2. QED
    BY <1>6, <2>1 DEF Save, Goto, Valid
<1>7. ASSUME NEW w \in Worker, CommitReplyLost(w)
      PROVE  Judged'
  <2>1. StoreHydrates'
    BY <1>7, WriteHydrates DEF CommitReplyLost
  <2>2. QED
    BY <1>7, <2>1 DEF CommitReplyLost, Done, Goto, Valid
<1>8. ASSUME NEW w \in Worker, VersionConflict(w)
      PROVE  Judged'
  <2>1. CASE tries[w] < MaxAttempts
    BY <1>8, <2>1 DEF VersionConflict, Goto, StoreHydrates, Valid, db
  <2>2. CASE ~(tries[w] < MaxAttempts)
    BY <1>4, <1>8, <2>2 DEF VersionConflict, db
  <2>3. QED
    BY <2>1, <2>2
<1>9. ASSUME NEW w \in Worker, Confirm(w)
      PROVE  Judged'
  BY <1>9 DEF Confirm, Goto, StoreHydrates, Valid, db
<1>10. ASSUME NEW w \in Worker, HydrationFails(w) \/ ConfirmFails(w) \/ Ack(w) \/ Abandon(w)
       PROVE  Judged'
  BY <1>4, <1>10 DEF HydrationFails, ConfirmFails, Ack, Abandon, db
<1>11. CASE UNCHANGED vars
  BY <1>11 DEF StoreHydrates, Valid, vars, db, worker
<1>12. QED
  BY <1>1, <1>2, <1>3, <1>5, <1>6, <1>7, <1>8, <1>9, <1>10, <1>11
  DEF Next, WorkerStep, WorkerFault

LEMMA AlwaysJudged == Spec => []Judged
BY AlwaysTyped, JudgedInit, JudgedNext, PTL DEF Spec

\* The store never holds a state its own hydration barrier refuses.
THEOREM HydrationCorrect == Spec => []StoreHydrates
<1>1. Judged => StoreHydrates
  BY DEF Judged
<1>2. QED
  BY AlwaysJudged, <1>1, PTL

-----------------------------------------------------------------------------
(* The optimistic lock *)

\* A load is never ahead of the head; one whose head is still current has read the
\* registry as it is; a judgement that nothing changes is right while it can win.
Locked ==
  /\ \A w \in Worker : loaded[w] <= version
  /\ \A w \in Worker : wpc[w] = "scopes" /\ loaded[w] = version => lsvcs[w] = services
  /\ SavesWhatItJudged
  /\ \A w \in Worker :
       wpc[w] = "saving" /\ loaded[w] = version /\ verdict[w] = "unchanged" =>
         lsvcs[w] = services /\ lscopes[w] = scopes

LEMMA LockedInit == Init => Locked
BY DEF Init, Locked, SavesWhatItJudged

\* What a winning save does: it advances the head, or it changes nothing.
LEMMA WriteAdvances ==
  ASSUME Typed, Locked, NEW w \in Worker, wpc[w] = "saving", version = loaded[w], Write(w)
  PROVE  \/ version' = version + 1 /\ services \subseteq services' /\ scopes \subseteq scopes'
         \/ UNCHANGED <<version, services, scopes>>
BY DEF Typed, TypeOK, InHand, Locked, Write, NewVersion

\* Neither kind of save disturbs what the other replicas have loaded.
LEMMA OthersStayLocked ==
  ASSUME Typed, Locked, NEW v \in Worker,
         \/ version' = version + 1
         \/ UNCHANGED <<version, services, scopes>>,
         UNCHANGED <<wpc[v], cmd[v], loaded[v], lsvcs[v], lscopes[v], verdict[v]>>
  PROVE  /\ loaded'[v] <= version'
         /\ wpc'[v] = "scopes" /\ loaded'[v] = version' => lsvcs'[v] = services'
         /\ (wpc'[v] = "saving" /\ loaded'[v] = version') =>
              /\ lsvcs'[v] = services' \cup {ServiceOf[cmd'[v][1]]}
              /\ lscopes'[v] = scopes' \cup Declared[cmd'[v][1]]
         /\ wpc'[v] = "saving" /\ loaded'[v] = version' /\ verdict'[v] = "unchanged" =>
              lsvcs'[v] = services' /\ lscopes'[v] = scopes'
BY DEF Typed, TypeOK, Locked, SavesWhatItJudged

LEMMA LockedNext == Typed /\ Judged /\ Locked /\ [Next]_vars => Locked'
<1> SUFFICES ASSUME Typed, Judged, Locked, [Next]_vars
             PROVE  Locked'
  OBVIOUS
<1> USE DEF Locked, SavesWhatItJudged, Typed, TypeOK
<1>1. ASSUME NEW d \in Declarant, DeclarantStep(d) \/ Restart(d)
      PROVE  Locked'
  BY <1>1, DeclarantsApart DEF db, worker
<1>2. ASSUME NEW w \in Worker, NEW c \in Command, Take(w, c)
      PROVE  Locked'
  BY <1>2 DEF Take, Goto, db
<1>3. ASSUME NEW w \in Worker, ReadHead(w)
      PROVE  Locked'
  BY <1>3 DEF ReadHead, Goto, db
<1>4. ASSUME NEW w \in Worker, ReadServices(w)
      PROVE  Locked'
  BY <1>4 DEF ReadServices, Goto, db
<1>5. ASSUME NEW w \in Worker, UNCHANGED db, Done(w)
      PROVE  Locked'
  BY <1>5 DEF Done, Goto, db
<1>6. ASSUME NEW w \in Worker, Judge(w)
      PROVE  Locked'
  <2>1. CASE Valid(cmd[w][1])
    <3>1. /\ wpc[w] = "scopes" /\ UNCHANGED <<db, cmd, loaded>>
          /\ lsvcs' = [lsvcs EXCEPT ![w] = @ \cup {ServiceOf[cmd[w][1]]}]
          /\ lscopes' = [lscopes EXCEPT ![w] = scopes \cup Declared[cmd[w][1]]]
          /\ wpc' = [wpc EXCEPT ![w] = "saving"]
      BY <1>6, <2>1 DEF Judge, Goto
    <3>2. verdict' = [verdict EXCEPT ![w] =
                        IF ServiceOf[cmd[w][1]] \in lsvcs[w] /\ Declared[cmd[w][1]] \subseteq scopes
                        THEN "unchanged" ELSE "changed"]
      BY <1>6, <2>1 DEF Judge
    <3>3. \A v \in Worker \ {w} :
            UNCHANGED <<wpc[v], cmd[v], loaded[v], lsvcs[v], lscopes[v], verdict[v]>>
      BY <3>1, <3>2
    <3>4. loaded'[w] = version' =>
            /\ lsvcs'[w] = services' \cup {ServiceOf[cmd'[w][1]]}
            /\ lscopes'[w] = scopes' \cup Declared[cmd'[w][1]]
      BY <3>1 DEF db
    <3>5. loaded'[w] = version' /\ verdict'[w] = "unchanged" =>
            lsvcs'[w] = services' /\ lscopes'[w] = scopes'
      BY <3>1, <3>2 DEF db
    <3>6. wpc'[w] = "saving" /\ loaded'[w] <= version'
      BY <3>1 DEF db
    <3>7. UNCHANGED <<version, services, scopes>>
      BY <3>1 DEF db
    <3>8. QED
      BY <3>3, <3>4, <3>5, <3>6, <3>7, OthersStayLocked
  <2>2. CASE ~Valid(cmd[w][1])
    BY <1>6, <2>2 DEF Judge, Goto, db
  <2>3. QED
    BY <2>1, <2>2
<1>7. ASSUME NEW w \in Worker, Save(w) \/ CommitReplyLost(w)
      PROVE  Locked'
  <2>1. wpc[w] = "saving" /\ version = loaded[w] /\ Write(w)
    BY <1>7 DEF Save, CommitReplyLost
  <2>2. \/ version' = version + 1 /\ services \subseteq services' /\ scopes \subseteq scopes'
        \/ UNCHANGED <<version, services, scopes>>
    BY <2>1, WriteAdvances
  <2>3. /\ \A v \in Worker \ {w} :
              UNCHANGED <<wpc[v], cmd[v], loaded[v], lsvcs[v], lscopes[v], verdict[v]>>
        /\ wpc'[w] \in {"confirming", "idle"}
        /\ loaded'[w] \in {loaded[w], 0}
    BY <1>7 DEF Save, CommitReplyLost, Done, Goto
  <2>4. loaded'[w] <= version'
    BY <2>1, <2>2, <2>3
  <2>5. QED
    BY <2>2, <2>3, <2>4, OthersStayLocked
<1>8. ASSUME NEW w \in Worker, VersionConflict(w)
      PROVE  Locked'
  <2>1. CASE tries[w] < MaxAttempts
    BY <1>8, <2>1 DEF VersionConflict, Goto, db
  <2>2. CASE ~(tries[w] < MaxAttempts)
    BY <1>5, <1>8, <2>2 DEF VersionConflict, db
  <2>3. QED
    BY <2>1, <2>2
<1>9. ASSUME NEW w \in Worker, Confirm(w)
      PROVE  Locked'
  BY <1>9 DEF Confirm, Goto, db
<1>10. ASSUME NEW w \in Worker, HydrationFails(w) \/ ConfirmFails(w) \/ Ack(w) \/ Abandon(w)
       PROVE  Locked'
  BY <1>5, <1>10 DEF HydrationFails, ConfirmFails, Ack, Abandon, db
<1>11. CASE UNCHANGED vars
  BY <1>11 DEF vars, db, worker
<1>12. QED
  BY <1>1, <1>2, <1>3, <1>4, <1>6, <1>7, <1>8, <1>9, <1>10, <1>11
  DEF Next, WorkerStep, WorkerFault

LEMMA AlwaysLocked == Spec => []Locked
BY AlwaysTyped, AlwaysJudged, LockedInit, LockedNext, PTL DEF Spec

\* A save that wins the optimistic lock writes the registry it was judged against, plus
\* the declaration, although the load was three statements with a snapshot each.
THEOREM LockCorrect == Spec => []SavesWhatItJudged
<1>1. Locked => SavesWhatItJudged
  BY DEF Locked
<1>2. QED
  BY AlwaysLocked, <1>1, PTL

\* No two registries share a version, and nothing is ever unregistered.
THEOREM VersionCorrect == Spec => OneRegistryPerVersion
<1>1. Typed /\ Locked /\ [Next]_vars =>
        [/\ services \subseteq services' /\ scopes \subseteq scopes'
         /\ <<services, scopes>>' # <<services, scopes>> => version' = version + 1]_vars
  <2> SUFFICES ASSUME Typed, Locked, [Next]_vars
               PROVE  \/ version' = version + 1 /\ services \subseteq services' /\ scopes \subseteq scopes'
                      \/ UNCHANGED <<version, services, scopes>>
    OBVIOUS
  <2>1. ASSUME NEW d \in Declarant, DeclarantStep(d) \/ Restart(d)
        PROVE  UNCHANGED db
    BY <2>1, DeclarantsApart
  <2>2. ASSUME NEW w \in Worker, Save(w) \/ CommitReplyLost(w)
        PROVE  \/ version' = version + 1 /\ services \subseteq services' /\ scopes \subseteq scopes'
               \/ UNCHANGED <<version, services, scopes>>
    BY <2>2, WriteAdvances DEF Save, CommitReplyLost
  <2>3. ASSUME NEW w \in Worker,
               \/ \E c \in Command : Take(w, c)
               \/ ReadHead(w) \/ ReadServices(w) \/ HydrationFails(w) \/ Judge(w)
               \/ VersionConflict(w) \/ Confirm(w) \/ Ack(w) \/ ConfirmFails(w) \/ Abandon(w)
        PROVE  UNCHANGED db
    BY <2>3 DEF Take, ReadHead, ReadServices, HydrationFails, Judge, VersionConflict, Confirm,
                Ack, ConfirmFails, Abandon
  <2>4. CASE UNCHANGED vars
    BY <2>4 DEF vars, db
  <2>5. QED
    BY <2>1, <2>2, <2>3, <2>4 DEF Next, WorkerStep, WorkerFault, db
<1>2. QED
  BY AlwaysTyped, AlwaysLocked, <1>1, PTL DEF Spec, OneRegistryPerVersion

-----------------------------------------------------------------------------
(* What a confirmation says *)

Registered(d) == ServiceOf[d] \in services /\ Declared[d] \subseteq scopes

\* A confirmation is true where it is made, in a buffer, and once it decided a wait.
Answered ==
  /\ \A w \in Worker : wpc[w] \in {"confirming", "acking"} =>
       /\ verdict[w] = "accepted" => Registered(cmd[w][1])
       /\ verdict[w] = "rejected" => ~Valid(cmd[w][1])
  /\ \A d \in Declarant :
       /\ "accepted" \in inbox[d] => Registered(d)
       /\ "rejected" \in inbox[d] => ~Valid(d)
       /\ dpc[d] = "accepted" => Registered(d)
       /\ dpc[d] = "rejected" => ~Valid(d)
       /\ dpc[d] = "disabled" => d \in Disabled
       /\ ready[d] => dpc[d] \in {"disabled", "accepted"}

LEMMA AnsweredInit == Init => Answered
BY DEF Init, Answered

LEMMA RegisteredStays ==
  ASSUME services \subseteq services', scopes \subseteq scopes', NEW d, Registered(d)
  PROVE  Registered(d)'
BY DEF Registered

LEMMA EmitAnswered ==
  ASSUME Typed, Answered, NEW w \in Worker, wpc[w] = "confirming", Emit(w) \/ UNCHANGED inbox,
         UNCHANGED db
  PROVE  \A d \in Declarant : /\ "accepted" \in inbox'[d] => Registered(d)'
                              /\ "rejected" \in inbox'[d] => ~Valid(d)
<1>1. \A d \in Declarant : Registered(d) => Registered(d)'
  BY DEF Registered, db
<1>2. cmd[w][1] \in Declarant /\ verdict[w] \in {"accepted", "rejected"}
  BY CommandParts DEF Typed, InHand
<1>3. /\ verdict[w] = "accepted" => Registered(cmd[w][1])
      /\ verdict[w] = "rejected" => ~Valid(cmd[w][1])
  BY DEF Answered
<1>4. \A d \in Declarant : inbox'[d] = inbox[d] \/ (d = cmd[w][1] /\ inbox'[d] = inbox[d] \cup {verdict[w]})
  BY <1>2 DEF Emit, Correlated, Typed, TypeOK
<1>5. QED
  BY <1>1, <1>2, <1>3, <1>4 DEF Answered

\* The registry only grows, so what was once answered stays true.
LEMMA StoreGrows == [Next]_vars => services \subseteq services' /\ scopes \subseteq scopes'
<1> SUFFICES ASSUME [Next]_vars
             PROVE  services \subseteq services' /\ scopes \subseteq scopes'
  OBVIOUS
<1>1. ASSUME NEW d \in Declarant, DeclarantStep(d) \/ Restart(d)
      PROVE  UNCHANGED db
  BY <1>1, DeclarantsApart
<1>2. ASSUME NEW w \in Worker, Write(w)
      PROVE  services \subseteq services' /\ scopes \subseteq scopes'
  BY <1>2 DEF Write
<1>3. QED
  BY <1>1, <1>2
  DEF Next, WorkerStep, WorkerFault, Take, ReadHead, ReadServices, HydrationFails, Judge, Save,
      VersionConflict, Confirm, Ack, CommitReplyLost, ConfirmFails, Abandon, vars, db

LEMMA AnsweredNext == Typed /\ Judged /\ Locked /\ Answered /\ [Next]_vars => Answered'
<1> SUFFICES ASSUME Typed, Judged, Locked, Answered, [Next]_vars
             PROVE  Answered'
  OBVIOUS
<1>1. \A d : Registered(d) => Registered(d)'
  BY StoreGrows, RegisteredStays
<1> USE DEF Answered, Typed, TypeOK, Valid
<1>2. ASSUME NEW d \in Declarant, OptOut(d) \/ Subscribe(d) \/ Declare(d) \/ WaitTimeout(d)
      PROVE  Answered'
  BY <1>1, <1>2 DEF OptOut, Subscribe, Declare, WaitTimeout, worker
<1>3. ASSUME NEW d \in Declarant, Resolve(d)
      PROVE  Answered'
  <2>1. PICK k \in inbox[d] : /\ dpc' = [dpc EXCEPT ![d] = k]
                              /\ ready' = [ready EXCEPT ![d] = (k = "accepted")]
    BY <1>3 DEF Resolve
  <2>2. k \in {"accepted", "rejected"} /\ inbox' = [inbox EXCEPT ![d] = {}] /\ UNCHANGED worker
    BY <1>3 DEF Resolve
  <2>3. /\ dpc'[d] = k /\ (ready'[d] <=> k = "accepted") /\ inbox'[d] = {}
        /\ \A e \in Declarant \ {d} : UNCHANGED <<dpc[e], ready[e], inbox[e]>>
    BY <2>1, <2>2
  <2>4. QED
    BY <1>1, <2>1, <2>2, <2>3 DEF worker
<1>4. ASSUME NEW d \in Declarant, Restart(d)
      PROVE  Answered'
  BY <1>1, <1>4 DEF Restart, worker
<1>5. ASSUME NEW w \in Worker, NEW c \in Command, Take(w, c)
      PROVE  Answered'
  BY <1>1, <1>5 DEF Take, Goto, declarant
<1>6. ASSUME NEW w \in Worker, ReadHead(w) \/ ReadServices(w)
      PROVE  Answered'
  BY <1>1, <1>6 DEF ReadHead, ReadServices, Goto, declarant
<1>7. ASSUME NEW w \in Worker, Done(w), UNCHANGED declarant
      PROVE  Answered'
  BY <1>1, <1>7 DEF Done, Goto, declarant
<1>8. ASSUME NEW w \in Worker, Judge(w)
      PROVE  Answered'
  <2>1. CASE Valid(cmd[w][1])
    BY <1>1, <1>8, <2>1 DEF Judge, Goto, declarant
  <2>2. CASE ~Valid(cmd[w][1])
    BY <1>1, <1>8, <2>2 DEF Judge, Goto, declarant
  <2>3. QED
    BY <2>1, <2>2
<1>9. ASSUME NEW w \in Worker, Save(w)
      PROVE  Answered'
  <2>1. Registered(cmd[w][1])'
    BY <1>9 DEF Save, Write, Registered, Judged, JudgedRegistry
  <2>2. QED
    BY <1>1, <1>9, <2>1 DEF Save, Goto, declarant
<1>10. ASSUME NEW w \in Worker, VersionConflict(w)
       PROVE  Answered'
  <2>1. CASE tries[w] < MaxAttempts
    BY <1>1, <1>10, <2>1 DEF VersionConflict, Goto, declarant
  <2>2. CASE ~(tries[w] < MaxAttempts)
    BY <1>7, <1>10, <2>2 DEF VersionConflict
  <2>3. QED
    BY <2>1, <2>2
<1>11. ASSUME NEW w \in Worker, Confirm(w)
       PROVE  Answered'
  <2>1. \A d \in Declarant : /\ "accepted" \in inbox'[d] => Registered(d)'
                             /\ "rejected" \in inbox'[d] => ~Valid(d)
    BY <1>11, EmitAnswered DEF Confirm
  <2>2. QED
    BY <1>1, <1>11, <2>1 DEF Confirm, Goto
<1>12. ASSUME NEW w \in Worker, ConfirmFails(w)
       PROVE  Answered'
  <2>1. \A d \in Declarant : /\ "accepted" \in inbox'[d] => Registered(d)'
                             /\ "rejected" \in inbox'[d] => ~Valid(d)
    BY <1>12, EmitAnswered DEF ConfirmFails
  <2>2. QED
    BY <1>1, <1>12, <2>1 DEF ConfirmFails, Done, Goto
<1>13. ASSUME NEW w \in Worker, HydrationFails(w) \/ CommitReplyLost(w) \/ Ack(w) \/ Abandon(w)
       PROVE  Answered'
  BY <1>7, <1>13 DEF HydrationFails, CommitReplyLost, Ack, Abandon
<1>14. CASE UNCHANGED vars
  BY <1>1, <1>14 DEF vars, worker, declarant
<1>15. QED
  BY <1>2, <1>3, <1>4, <1>5, <1>6, <1>8, <1>9, <1>10, <1>11, <1>12, <1>13, <1>14
  DEF Next, DeclarantStep, WorkerStep, WorkerFault

LEMMA AlwaysAnswered == Spec => []Answered
BY AlwaysTyped, AlwaysJudged, AlwaysLocked, AnsweredInit, AnsweredNext, PTL DEF Spec

\* A service that reports ready has its manifest and every scope it declared in the
\* registry, or has opted out.
THEOREM ReadyCorrect == Spec => []ReadyMeansRegistered
<1>1. Answered => ReadyMeansRegistered
  BY DEF Answered, ReadyMeansRegistered, Registered
<1>2. QED
  BY AlwaysAnswered, <1>1, PTL

\* Conflicts, crashes, lost replies and retries never turn into a rejection.
THEOREM RejectionCorrect == Spec => []RejectedOnlyIfInvalid
<1>1. Answered => RejectedOnlyIfInvalid
  BY DEF Answered, RejectedOnlyIfInvalid
<1>2. QED
  BY AlwaysAnswered, <1>1, PTL
=============================================================================
