-------------------------- MODULE ScopeDeclaration --------------------------
(***************************************************************************)
(* The boot-time scope declaration: declare_scopes (br-util-scope-         *)
(* declaration) in every replica of a service that owns scopes, and the    *)
(* Identity side (br-identity-app, br-identity-domain) whose replicas load *)
(* the registry, judge, save under the optimistic lock and confirm.        *)
(*                                                                         *)
(* The load is one transaction of three statements in READ COMMITTED, each *)
(* with a snapshot of its own; the save is one transaction that holds the  *)
(* head row's lock, hence one step here.  Commands reach Identity through  *)
(* the managed consumer (ManagedConsumer): at least once, possibly two     *)
(* replicas at a time.  Confirmations reach the declarants over core NATS  *)
(* subscriptions: at most once, and only while subscribed.                 *)
(***************************************************************************)
EXTENDS Naturals

CONSTANTS
  Service, Scope,
  Prefix,        \* the service each scope key is prefixed with
  Declarant,     \* replicas that run declare_scopes
  ServiceOf,     \* the service of each
  Declared,      \* the scopes each declares
  Disabled,      \* declarants with ScopeDeclarationConfig::disabled()
  Worker,        \* Identity replicas on the shared durable
  MaxAttempts,   \* MAX_ATTEMPTS
  NoCommand,
  MaxBoots,      \* bound: boots of one declarant
  MaxFrames,     \* bound: frames of one command on the stream
  MaxFaults      \* bound: crashes, restarts, lost acks, replies and confirmations

ASSUME RegistryAssumption ==
  /\ Prefix \in [Scope -> Service]
  /\ ServiceOf \in [Declarant -> Service]
  /\ Declared \in [Declarant -> SUBSET Scope]
  /\ Disabled \subseteq Declarant
ASSUME NumberAssumption ==
  MaxAttempts \in Nat \ {0} /\ MaxBoots \in Nat \ {0} /\ MaxFrames \in Nat \ {0} /\ MaxFaults \in Nat

\* A command carries the correlation id of one boot of one declarant.
Command == Declarant \X (1..MaxBoots)

\* DeclareServiceScopes::validate: every scope carries the declaring prefix.  (A
\* declarant built on another version of the contract may send one that does not.)
Valid(d) == \A s \in Declared[d] : Prefix[s] = ServiceOf[d]

VARIABLES
  version,    \* scope_registry_head.version
  services,   \* scope_registry_service
  scopes,     \* scope_registry: the scope keys (owning_service is the prefix)
  seenBy,     \* declarants whose accepted saves set last_seen_at, per scope (history)
  queue,      \* frames of each command the durable has not been acked for
  wpc, cmd, tries,       \* each worker: where it is, its delivery, its attempt
  loaded, lsvcs, lscopes,\* the version and the registry it loaded, then judged
  verdict,               \* what it is about to confirm
  alarm,      \* on_permanent_failure has fired
  dpc, boot, inbox, ready, \* each declarant: where, which boot, awaiter buffer, readiness
  faults

db == <<version, services, scopes, seenBy>>
worker == <<wpc, cmd, tries, loaded, lsvcs, lscopes, verdict, alarm>>
declarant == <<dpc, boot, inbox, ready>>
vars == <<db, queue, worker, declarant, faults>>

Init ==
  /\ version = 0 /\ services = {} /\ scopes = {}
  /\ seenBy = [s \in Scope |-> {}]
  /\ queue = [c \in Command |-> 0]
  /\ wpc = [w \in Worker |-> "idle"]
  /\ cmd = [w \in Worker |-> NoCommand]
  /\ tries = [w \in Worker |-> 0]
  /\ loaded = [w \in Worker |-> 0]
  /\ lsvcs = [w \in Worker |-> {}]
  /\ lscopes = [w \in Worker |-> {}]
  /\ verdict = [w \in Worker |-> "none"]
  /\ alarm = FALSE
  /\ dpc = [d \in Declarant |-> "boot"]
  /\ boot = [d \in Declarant |-> 1]
  /\ inbox = [d \in Declarant |-> {}]
  /\ ready = [d \in Declarant |-> FALSE]
  /\ faults = 0

Fault == faults < MaxFaults /\ faults' = faults + 1

-----------------------------------------------------------------------------
(* The declarant: declare_scopes *)

\* Opted out: up at once, nothing published.
OptOut(d) ==
  /\ dpc[d] = "boot" /\ d \in Disabled
  /\ ready' = [ready EXCEPT ![d] = TRUE]
  /\ dpc' = [dpc EXCEPT ![d] = "disabled"]
  /\ UNCHANGED <<db, queue, worker, boot, inbox, faults>>

\* await_events: the core subscriptions are open before anything is published.
Subscribe(d) ==
  /\ dpc[d] = "boot" /\ d \notin Disabled
  /\ dpc' = [dpc EXCEPT ![d] = "publishing"]
  /\ UNCHANGED <<db, queue, worker, boot, inbox, ready, faults>>

\* publish_command: a failure is only warned about.
Declare(d) ==
  /\ dpc[d] = "publishing"
  /\ LET c == <<d, boot[d]>> IN
       \/ /\ queue' = IF queue[c] < MaxFrames THEN [queue EXCEPT ![c] = @ + 1] ELSE queue
          /\ UNCHANGED faults
       \/ Fault /\ UNCHANGED queue
  /\ dpc' = [dpc EXCEPT ![d] = "waiting"]
  /\ UNCHANGED <<db, worker, boot, inbox, ready>>

\* wait_timeout: publish the same command again.
WaitTimeout(d) ==
  /\ dpc[d] = "waiting"
  /\ dpc' = [dpc EXCEPT ![d] = "publishing"]
  /\ UNCHANGED <<db, queue, worker, boot, inbox, ready, faults>>

\* await_correlation and resolve_match: the first match decides.
Resolve(d) ==
  /\ dpc[d] = "waiting"
  /\ \E k \in inbox[d] :
       /\ dpc' = [dpc EXCEPT ![d] = k]
       /\ ready' = [ready EXCEPT ![d] = (k = "accepted")]
  /\ inbox' = [inbox EXCEPT ![d] = {}]
  /\ UNCHANGED <<db, queue, worker, boot, faults>>

\* The pod dies, or declare_scopes returns the awaiter's error and the service exits;
\* the next boot has a readiness handle that starts down and a fresh correlation id.
Restart(d) ==
  /\ boot[d] < MaxBoots
  /\ Fault
  /\ boot' = [boot EXCEPT ![d] = @ + 1]
  /\ dpc' = [dpc EXCEPT ![d] = "boot"]
  /\ inbox' = [inbox EXCEPT ![d] = {}]
  /\ ready' = [ready EXCEPT ![d] = FALSE]
  /\ UNCHANGED <<db, queue, worker>>

-----------------------------------------------------------------------------
(* Identity: handle_delivery and ScopeDeclarationPipeline::handle *)

Goto(w, where) == wpc' = [wpc EXCEPT ![w] = where]

\* handle_delivery returns and its locals go.
Done(w) ==
  /\ Goto(w, "idle")
  /\ cmd' = [cmd EXCEPT ![w] = NoCommand]
  /\ tries' = [tries EXCEPT ![w] = 0]
  /\ loaded' = [loaded EXCEPT ![w] = 0]
  /\ lsvcs' = [lsvcs EXCEPT ![w] = {}]
  /\ lscopes' = [lscopes EXCEPT ![w] = {}]
  /\ verdict' = [verdict EXCEPT ![w] = "none"]

\* A delivery.  Another worker may hold the command too: its ack wait has elapsed.
Take(w, c) ==
  /\ wpc[w] = "idle"
  /\ queue[c] > 0
  /\ cmd' = [cmd EXCEPT ![w] = c]
  /\ tries' = [tries EXCEPT ![w] = 1]
  /\ Goto(w, "head")
  /\ UNCHANGED <<db, queue, loaded, lsvcs, lscopes, verdict, alarm, declarant, faults>>

\* load_in_tx, statement by statement.
ReadHead(w) ==
  /\ wpc[w] = "head"
  /\ loaded' = [loaded EXCEPT ![w] = version]
  /\ Goto(w, "services")
  /\ UNCHANGED <<db, queue, cmd, tries, lsvcs, lscopes, verdict, alarm, declarant, faults>>

ReadServices(w) ==
  /\ wpc[w] = "services"
  /\ lsvcs' = [lsvcs EXCEPT ![w] = services]
  /\ Goto(w, "scopes")
  /\ UNCHANGED <<db, queue, cmd, tries, loaded, lscopes, verdict, alarm, declarant, faults>>

\* build_hydration_input: a scope row under a service with no manifest row.
Orphaned(w) == \E s \in scopes : Prefix[s] \notin lsvcs[w]

\* The hydration barrier trips: a permanent failure, the callback, a Nak.
HydrationFails(w) ==
  /\ wpc[w] = "scopes"
  /\ Orphaned(w)
  /\ alarm' = TRUE
  /\ Done(w)
  /\ UNCHANGED <<db, queue, declarant, faults>>

\* The third statement, hydrate and judge_declaration.
Judge(w) ==
  /\ wpc[w] = "scopes"
  /\ ~Orphaned(w)
  /\ LET d == cmd[w][1] IN
       IF Valid(d)
         THEN /\ lsvcs' = [lsvcs EXCEPT ![w] = @ \cup {ServiceOf[d]}]
              /\ lscopes' = [lscopes EXCEPT ![w] = scopes \cup Declared[d]]
              /\ verdict' = [verdict EXCEPT ![w] =
                   IF ServiceOf[d] \in lsvcs[w] /\ Declared[d] \subseteq scopes
                   THEN "unchanged" ELSE "changed"]
              /\ Goto(w, "saving")
         ELSE /\ verdict' = [verdict EXCEPT ![w] = "rejected"]
              /\ Goto(w, "confirming")
              /\ UNCHANGED <<lsvcs, lscopes>>
  /\ UNCHANGED <<db, queue, cmd, tries, loaded, alarm, declarant, faults>>

\* The version the aggregate has after register_declaration: a no-op keeps it.
NewVersion(w) == IF verdict[w] = "changed" THEN loaded[w] + 1 ELSE loaded[w]

\* mutant: the manifest rows are left out
WriteScopesOnly(w) ==
  /\ version' = NewVersion(w)
  /\ scopes' = scopes \cup lscopes[w]
  /\ UNCHANGED <<services, seenBy>>

\* The head row advances, and every service of the registry is written again:
\* ON CONFLICT touches last_seen_at of each of its scopes.
Write(w) ==
  /\ version' = NewVersion(w)
  /\ services' = services \cup lsvcs[w]
  /\ scopes' = scopes \cup lscopes[w]
  /\ seenBy' = [s \in Scope |->
                  IF s \in lscopes[w] THEN seenBy[s] \cup {cmd[w][1]} ELSE seenBy[s]]

\* mutant: the UPDATE does not compare the version
SaveUnconditional(w) ==
  /\ wpc[w] = "saving"
  /\ Write(w)
  /\ verdict' = [verdict EXCEPT ![w] = "accepted"]
  /\ Goto(w, "confirming")
  /\ UNCHANGED <<queue, cmd, tries, loaded, lsvcs, lscopes, alarm, declarant, faults>>

\* mutant: nothing changed, so nothing is confirmed
SaveSilently(w) ==
  /\ wpc[w] = "saving"
  /\ version = loaded[w]
  /\ Write(w)
  /\ verdict' = [verdict EXCEPT ![w] = "accepted"]
  /\ Goto(w, IF verdict[w] = "unchanged" THEN "acking" ELSE "confirming")
  /\ UNCHANGED <<queue, cmd, tries, loaded, lsvcs, lscopes, alarm, declarant, faults>>

Save(w) ==
  /\ wpc[w] = "saving"
  /\ version = loaded[w]
  /\ Write(w)
  /\ verdict' = [verdict EXCEPT ![w] = "accepted"]
  /\ Goto(w, "confirming")
  /\ UNCHANGED <<queue, cmd, tries, loaded, lsvcs, lscopes, alarm, declarant, faults>>

\* mutant: one attempt too many
VersionConflictLate(w) ==
  /\ wpc[w] = "saving"
  /\ version # loaded[w]
  /\ IF tries[w] <= MaxAttempts
       THEN /\ tries' = [tries EXCEPT ![w] = @ + 1]
            /\ verdict' = [verdict EXCEPT ![w] = "none"]
            /\ Goto(w, "head")
            /\ UNCHANGED <<cmd, loaded, lsvcs, lscopes>>
       ELSE Done(w)
  /\ UNCHANGED <<db, queue, alarm, declarant, faults>>

\* mutant: the lost race is confirmed all the same
VersionConflictIgnored(w) ==
  /\ wpc[w] = "saving"
  /\ version # loaded[w]
  /\ verdict' = [verdict EXCEPT ![w] = "accepted"]
  /\ Goto(w, "confirming")
  /\ UNCHANGED <<cmd, tries, loaded, lsvcs, lscopes>>
  /\ UNCHANGED <<db, queue, alarm, declarant, faults>>

\* mutant: exhausted attempts are answered with a rejection
VersionConflictRejects(w) ==
  /\ wpc[w] = "saving"
  /\ version # loaded[w]
  /\ IF tries[w] < MaxAttempts
       THEN /\ tries' = [tries EXCEPT ![w] = @ + 1]
            /\ verdict' = [verdict EXCEPT ![w] = "none"]
            /\ Goto(w, "head")
       ELSE /\ verdict' = [verdict EXCEPT ![w] = "rejected"]
            /\ Goto(w, "confirming")
            /\ UNCHANGED tries
  /\ UNCHANGED <<cmd, loaded, lsvcs, lscopes>>
  /\ UNCHANGED <<db, queue, alarm, declarant, faults>>

\* mutant: a retry reads the head again, and saves what it had judged
VersionConflictKeepsJudgement(w) ==
  /\ wpc[w] = "saving"
  /\ version # loaded[w]
  /\ IF tries[w] < MaxAttempts
       THEN /\ tries' = [tries EXCEPT ![w] = @ + 1]
            /\ loaded' = [loaded EXCEPT ![w] = version]
            /\ UNCHANGED <<wpc, cmd, lsvcs, lscopes, verdict>>
       ELSE Done(w)
  /\ UNCHANGED <<db, queue, alarm, declarant, faults>>

\* A zero-row UPDATE: load and judge again, up to MAX_ATTEMPTS, then Nak.
VersionConflict(w) ==
  /\ wpc[w] = "saving"
  /\ version # loaded[w]
  /\ IF tries[w] < MaxAttempts
       THEN /\ tries' = [tries EXCEPT ![w] = @ + 1]
            /\ verdict' = [verdict EXCEPT ![w] = "none"]
            /\ Goto(w, "head")
            /\ UNCHANGED <<cmd, loaded, lsvcs, lscopes>>
       ELSE Done(w)
  /\ UNCHANGED <<db, queue, alarm, declarant, faults>>

\* The commit took effect and its reply was lost: a transient failure, a Nak.
CommitReplyLost(w) ==
  /\ wpc[w] = "saving"
  /\ version = loaded[w]
  /\ Fault
  /\ Write(w)
  /\ Done(w)
  /\ UNCHANGED <<queue, alarm, declarant>>

\* await_correlation keeps what carries the correlation id of its own boot; a frame of
\* another one is read and dropped, and one sent while nobody is subscribed is gone.
Correlated(d, b) == boot[d] = b /\ dpc[d] \in {"publishing", "waiting"}

Emit(w) ==
  LET d == cmd[w][1] IN
  inbox' = IF Correlated(d, cmd[w][2])
           THEN [inbox EXCEPT ![d] = @ \cup {verdict[w]}] ELSE inbox

\* publish_accepted or publish_rejected, acked by the stream.
Confirm(w) ==
  /\ wpc[w] = "confirming"
  /\ \/ Emit(w) /\ UNCHANGED faults
     \/ Fault /\ UNCHANGED inbox              \* lost on the way to the subscriber
  /\ Goto(w, "acking")
  /\ UNCHANGED <<db, queue, cmd, tries, loaded, lsvcs, lscopes, verdict, alarm,
                 dpc, boot, ready>>

\* The publish, or its ack, fails: a Nak, although the event may be out.
ConfirmFails(w) ==
  /\ wpc[w] = "confirming"
  /\ Fault
  /\ Emit(w) \/ UNCHANGED inbox
  /\ Done(w)
  /\ UNCHANGED <<db, queue, alarm, dpc, boot, ready>>

Ack(w) ==
  /\ wpc[w] = "acking"
  /\ \/ /\ queue' = [queue EXCEPT ![cmd[w]] = IF @ = 0 THEN 0 ELSE @ - 1]
        /\ UNCHANGED faults
     \/ Fault /\ UNCHANGED queue
  /\ Done(w)
  /\ UNCHANGED <<db, alarm, declarant>>

\* The replica dies, or a statement fails and the delivery is Nak'd.
Abandon(w) ==
  /\ wpc[w] # "idle"
  /\ Fault
  /\ Done(w)
  /\ UNCHANGED <<db, queue, alarm, declarant>>

-----------------------------------------------------------------------------
DeclarantStep(d) == OptOut(d) \/ Subscribe(d) \/ Declare(d) \/ WaitTimeout(d) \/ Resolve(d)

WorkerStep(w) ==
  \/ ReadHead(w) \/ ReadServices(w) \/ HydrationFails(w) \/ Judge(w)
  \/ Save(w) \/ VersionConflict(w) \/ Confirm(w) \/ Ack(w)

WorkerFault(w) == CommitReplyLost(w) \/ ConfirmFails(w) \/ Abandon(w)

Next ==
  \/ \E d \in Declarant : DeclarantStep(d) \/ Restart(d)
  \/ \E w \in Worker : WorkerStep(w) \/ WorkerFault(w) \/ \E c \in Command : Take(w, c)

Spec == Init /\ [][Next]_vars

\* Workers and declarants are polled; the durable brings every unacked command round
\* again; a buffered confirmation is returned by the next wait.
Fairness ==
  /\ \A w \in Worker : WF_vars(WorkerStep(w))
  /\ \A d \in Declarant : WF_vars(DeclarantStep(d)) /\ SF_vars(Resolve(d))
  /\ \A c \in Command : SF_vars(\E w \in Worker : Take(w, c))

FairSpec == Spec /\ Fairness

-----------------------------------------------------------------------------
(* Properties *)

TypeOK ==
  /\ version \in Nat /\ services \subseteq Service /\ scopes \subseteq Scope
  /\ seenBy \in [Scope -> SUBSET Declarant]
  /\ queue \in [Command -> 0..MaxFrames]
  /\ wpc \in [Worker -> {"idle", "head", "services", "scopes", "saving", "confirming", "acking"}]
  /\ cmd \in [Worker -> Command \cup {NoCommand}]
  /\ tries \in [Worker -> 0..MaxAttempts]
  /\ loaded \in [Worker -> Nat]
  /\ lsvcs \in [Worker -> SUBSET Service] /\ lscopes \in [Worker -> SUBSET Scope]
  /\ verdict \in [Worker -> {"none", "changed", "unchanged", "accepted", "rejected"}]
  /\ alarm \in BOOLEAN
  /\ dpc \in [Declarant -> {"boot", "disabled", "publishing", "waiting", "accepted", "rejected"}]
  /\ boot \in [Declarant -> 1..MaxBoots]
  /\ inbox \in [Declarant -> SUBSET {"accepted", "rejected"}]
  /\ ready \in [Declarant -> BOOLEAN]
  /\ faults \in Nat

\* A service enters the rotation only over a registry that holds its manifest and
\* every scope it declared (or because its project opted out), whichever replica
\* answered, and whatever was retried, lost or answered twice on the way.
ReadyMeansRegistered ==
  \A d \in Declarant :
    ready[d] => \/ dpc[d] = "disabled" /\ d \in Disabled
                \/ /\ dpc[d] = "accepted"
                   /\ ServiceOf[d] \in services
                   /\ Declared[d] \subseteq scopes

\* A rejection is deterministic: lock conflicts, crashes and retries never turn into
\* one, so a declarant that stops retrying had a declaration no retry can help.
RejectedOnlyIfInvalid ==
  \A d \in Declarant : dpc[d] = "rejected" => ~Valid(d)

\* The store never holds a state the hydration barrier refuses.
StoreHydrates == \A s \in scopes : Prefix[s] \in services

\* A save that wins the optimistic lock writes the registry it was judged against,
\* plus the declaration: reading the head before the rows makes a torn load lose.
SavesWhatItJudged ==
  \A w \in Worker :
    (wpc[w] = "saving" /\ loaded[w] = version) =>
      /\ lsvcs[w] = services \cup {ServiceOf[cmd[w][1]]}
      /\ lscopes[w] = scopes \cup Declared[cmd[w][1]]

\* No two registries share a version, and nothing is ever unregistered.
OneRegistryPerVersion ==
  [][/\ services \subseteq services' /\ scopes \subseteq scopes'
     /\ <<services, scopes>>' # <<services, scopes>> => version' = version + 1]_vars

\* Under finitely many faults every declarant is answered: up when its declaration is
\* valid, and down with a rejection when it is not.
EventuallyAnswered ==
  \A d \in Declarant \ Disabled :
    <>[](dpc[d] = IF Valid(d) THEN "accepted" ELSE "rejected")

\* br-identity-app/README.md:130-132: a permanent failure means corrupt rows; "a
\* redelivery re-loads the same corrupt rows and re-fails identically".
CorruptionIsReal == alarm => ~StoreHydrates

\* br-identity-app/README.md:47-49: last_seen_at is touched "on every (re-)declaration that
\* references the scope".
LastSeenByItsDeclarants ==
  \A s \in Scope : seenBy[s] \subseteq {d \in Declarant : s \in Declared[d]}
=============================================================================
