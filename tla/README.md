# TLA+ models of br-rust-common

This directory models `br-rust-common`: the parts whose correctness depends on the
order in which several processes act, and the sequential parts in between whose
answers those rely on. TLC checks the models on small instances; TLAPS proves every safety
property that a passing run checks, for every value of the constants the assumptions admit.
What is only model-checked is liveness. Source paths below are relative to `src/`, those of
crates to `src/crates/`.

## 1. The system

`br-rust-common` is a workspace of libraries that services link. Nothing in it
is a process of its own: a *service* is a set of replicas, each with tokio
tasks, a Postgres pool and a NATS/JetStream connection. The parts meet in three
places: Postgres rows, JetStream streams and buckets, and `watch` channels
inside one process.

| Component | State it keeps | Operations | Talks to |
| --- | --- | --- | --- |
| Outbox (`br-util-nats-fabric/src/outbox`, `br-core-integration/src/outbox`) | rows of `integration_outbox` (status, attempts), row locks; per relay: cursor, pass counters, retry sleep, health | `stage`, `OutboxRelay::run` / `run_once_detailed`, `schedule_after`, `update_health` | Postgres (`FOR UPDATE SKIP LOCKED`, `LISTEN`), stream `INTEGRATION_EVT` |
| Managed consumer (`br-util-nats-fabric/src/consumer`) | the durable (server side); per loop: message stream and its prefetch buffer, `Recovery` (failure count, backoff) | `run_commands`, `run_events`, `recover`, `rebind` | streams `INTEGRATION_CMD`, `INTEGRATION_EVT`; the service's handler and poison callback |
| Scope declaration (`br-util-scope-declaration`, `br-util-axum-readiness`, `awaiter.rs`) | correlation id of the boot, awaiter subscription, readiness | `declare_scopes`, `await_correlation` | publishes a command, waits for a confirmation |
| Scope registry (`br-identity-app`, `br-identity-domain`, `br-core-scope`) | `scope_registry_head.version`, `scope_registry_service`, `scope_registry` | `run_scope_declarations`, `handle`, `load`, `save`, `publish_accepted/rejected` | the managed consumer, Postgres, stream `INTEGRATION_EVT` |
| Integration bus (`br-core-integration/src/coords`, `br-util-nats-fabric/src/{coords,fabric,consumer}`) | streams and the subjects they bind; durables and their filters; frames in hand | `publish`, `publish_if_connected`, `verify`, `ensure_consumer`, `ensure_durable`, `recv`, settle, `progress`, `drain` | JetStream; used by the consumer loop, the relay and the declarant |
| KV published language (`br-util-nats-fabric/src/kv`) | bucket `PUBLISHED_LANGUAGE`; per consumer: sink, health, backoff | publisher `put/retract/reconcile/update_if/delete_if`; consumer `bootstrap`, `watch`, `run` | JetStream KV, a projection sink |
| Ephemeral auth (`kv/ephemeral_auth*.rs`) | bucket `EPHEMERAL_AUTH` with per-key TTL; watch progress and health | `create(_with_ttl)`, `update_if`, `delete_if`, `entries`, watcher | JetStream KV |
| Directory (`br-util-directory`, `br-core-directory`) | `known_users`, `known_groups`, `known_user_group`, `known_service_accounts`; projector health; migration ledger; snapshots | publisher `reconcile`; projector `reconcile`, `watch`; sinks `project`, `retract`; `migrate`; typed readers | KV published language, Postgres, an impact stager |
| Broadcast (`br-util-broadcast`) | tokio broadcast channel; pending events of a unit of work | `push`, `publish_after_commit`, `subscribe` | in process |
| Postgres and boot (`br-util-postgres`, `br-util-boot`) | roles, grants, migrations; the configuration of the process | `BootEnv::from_lookup`, pools and their TLS, `ensure_app_role`, `grant_app_access`, the migrations gate, catalog retry | Postgres, the environment |
| Auth and events (`br-core-auth`, `br-util-axum-auth`, `br-core-kernel`, `br-core-events`) | the passport of a request; the actor and correlation of a message | builder, header, session cookie, guard, accessors, `ToActor`, metadata | HTTP, the integration bus |
| Values and their edge (`br-core-values`, `br-util-graphql`) | one value on its way | parse, edit, (de)serialise, show, reject | clients, stored documents |
| HTTP edge (`br-util-observability`, `br-util-axum-readiness`) | gauge and counters, readiness, log lines | metrics layer, `set_ready`, `set_not_ready`, log layer | Prometheus, the orchestrator |
| Test support, chart | - | - | - |

What is hard here is never the computation but the schedule: relays that crash
between the broker's ack and the commit; locks that vanish with a session;
acks, commit replies and confirmations that are lost after they took effect;
two replicas holding the same delivery; a load of three statements interleaved
with a save; retry timers that live in the memory of one process. `PROJECT.json`
lists each of these under `hazards`, at its line.

What makes each component correct:

* **Outbox** - a staged row is never silently lost: it ends `PUBLISHED` over a
  frame the stream holds or `FAILED` after exactly the attempt cap; a settled row
  stays settled; one message id is one frame per duplicate window; nobody goes to
  sleep over a pending row without saying so through health.
* **Managed consumer** - a frame leaves the durable only over a verdict of the
  handler; a delivery is handled at most once; recovery ends at its budget and its
  backoff keeps up with the failures; nothing is stuck for ever.
* **Scope declaration** - a service is ready only over a registry that holds what
  it declared; a rejection is final only for a declaration that is really invalid;
  the registry never enters a state its own hydration barrier refuses; of two
  racing replicas one wins and the other judges again.
* **Integration bus** - a frame is handed only to those who asked for its coordinates,
  its subject names one coordinate, and what a probe or a publish tells the caller
  agrees with the broker.
* **KV mirror, directory** - the projection converges to the published bucket, the
  bucket to the publisher's source, replicas over one database to each other; health is
  `Healthy` only while every active stream is followed; the impacts staged with a write
  are enough for whoever derives state from them.
* **Conditional writes, ephemeral auth** - of several concurrent `update_if`/`delete_if`
  on a revision one succeeds; what is gone is not brought back; a consumer of the watch
  misses no change but those in the gap before it.
* **Boot** - a refusal names every problem once and quotes no secret; no remote database
  is reached in the clear; replicas that boot together do not stop each other; a replica
  serves only over the schema it embeds.
* **Auth, events, values, HTTP edge, broadcast** - one passport per admitted request and
  the same actor down the chain of messages; what was accepted reads back as it was;
  metrics, log lines and reports say what happened, whatever was cancelled or came and
  went meanwhile.

## 2. Modules

| Module | Models | State and actions |
| --- | --- | --- |
| `OutboxDelivery` | what the outbox promises to the staging service | `status`, `delivered`; `Stage`, `Deliver`, `Publish`, `GiveUp` |
| `OutboxRelay` | rows, any number of relays, the stream with its duplicate window | one action per await of `process_one` (`Fetch`, `Publish`, `Settle`), of the driver loop (`Start`, `EndPass`, `WakeUp`) and per fault |
| `OutboxRelayProofs` | theorems about `OutboxRelay` | - |
| `ManagedConsumer` | loops on one durable, the broker's redelivery, recovery | one action per await of `run_inner` and `recover`: `Receive`, `Handle`, `Settle`, `TermPoison`, `ReportPoison`, `StreamError`, `Rebind`, `RebindFails` |
| `ManagedConsumerProofs` | theorems about `ManagedConsumer` | - |
| `Backoff` | the schedule that the consumer loop and both supervised watches sleep by | `NextDelay` |
| `BackoffProofs` | induction over the natural numbers, and what the schedule keeps | - |
| `ScopeDeclaration` | declarants and Identity replicas around one registry | declarant: `OptOut`, `Subscribe`, `Declare`, `WaitTimeout`, `Resolve`, `Restart`; worker: `Take`, `ReadHead`, `ReadServices`, `Judge`/`HydrationFails`, `Save`/`VersionConflict`, `Confirm`, `Ack` |
| `ScopeDeclarationProofs` | theorems about `ScopeDeclaration` | - |
| `KvMirror` | the bucket's log, publishers that write anything, one supervised `PublishedLanguageConsumer` and its sink | publishers: `Write`; `bootstrap`: `List`, `Get`, `ScanDone`, `Project`, `KnownKeys`, `Retract`, `Bootstrapped`; `follow_once`: `Subscribe`, `Deliver`, `FollowEnds`; `supervise`: `Start`, `Sleep`; faults: `ReconcileFails`, `Crash`, `Drop` |
| `KvMirrorProofs` | theorems about `KvMirror` | - |
| `KvStore` | one bucket, clients that read with a revision and write back, the versioned loop of the crate's README | `Create`, `CreateWithTtl`, `Put`, `Read`, `UpdateIf`, `DeleteIf`, `Conflict`, `Delete`, `Expire`, `UpdateReplyLost`, `Want` |
| `EphemeralWatch` | `EphemeralAuthWatcher::run` and a consumer with derived state | `Probe`, `ProbeFails`, `Open`, `Deliver`, `FollowEnds`, `Sleep`; bucket: `Write`, `Expire`, `BucketGoes`, `BucketReturns`; consumer: `ReRead` |
| `ProjectorHealth` | the composed health of a `DirectoryProjector`, composed and sent in two steps | `Activate`, `Bound`, `Returned`, `Dropped`, `Send` |
| `DirectoryPublication` | `DirectoryPublisher::reconcile` of several processes and the incremental calls meanwhile | `Event`, `Call`, `CallFails`; `Start`, `Desire`, `Scan`, `Compare`, `Write`, `FinishKind`, `WriteMeta`, `Fail` |
| `DirectoryProjection` | replicas with a projector each, the sinks' transactions, the adopter of the impacts | `Publish`, `WriteMeta`; `Reconcile`, `Watch`, `Bootstrap`, `Follow`, `NothingToRetract`; a transaction: `First`, `ReadLinks`, `Commit`, or `ApplyAlone`; `Fails`; `React` |
| `DirectoryReaders` | the published shapes and keys, the snapshot and its readers, `ForeignRef` | `Publish`, `WriteForeign`, `Load`, `SetMembers`, `Rebuild` |
| `DatabaseBoot` | replicas of several databases that ensure the role, migrate and grant | `Begin`, `CommitCatalog`, `Collide`, `ReadLedger`, `ApplyNext`, `RunSql`, `CommitLedger`, `Mishap`, `Restart`; an old release: `OldBegins`, `OldCommits`, `OldFails` |
| `ServiceBoot` | what one replica decides before it serves | `ReadEnv`, `OpenMigrationPool`, `EnsureAppRole`, `Serve` |
| `IntegrationBus` | coordinates and subjects, streams and durables, callers with their own verdicts | `Configure`, `Publish`, `PublishIfConnected`, `Verify`, `EnsureConsumer`, `EnsureDurable`, `Recv`, `Settle`, `Progress`, `Drain`, `Expire` |
| `ScopeNames` | the syntax of service and scope keys | operators |
| `ScopeRegistry` | the registry aggregate, its events, its rows, its reply | `Handle` (one declaration, from the raw command to the reply) |
| `Identities` | who is asking, from the builder to the event that answers | `Prepare`, `Present`, `Admit`, `Impersonate`, `SendCommand`, `Answer` |
| `ValueEdge` | values between clients, documents and the wire | `Receive`, `Load`, `Translate`, `Wrap`, `Persist`, `Query`, `RefuseAmount`, `Reject`, `Fail` |
| `ServiceEdge` | metrics, readiness and log lines of one process | `Call`, `Enter`, `Count`, `Leave`, `Abandon`; `SetReady`, `SetNotReady`, `Turned`; `Log` |
| `PostCommitBroadcast` | commands, their pending batches, the channel and its subscribers | `Push`, `End`, `Publish`, `Step`; `Subscribe`, `Recv`, `Unsubscribe` |
| `MCOutboxRelay`, `MCManagedConsumer`, `MCScopeDeclaration`, `MCKvMirror`, `MCProjectorHealth` | instances for TLC | - |
| `ProvedComponents` | the fourteen components below `KvMirrorProofs` and above the `MC` modules, as alternatives of one specification (`ScopeNames` is part of two of them) | - |
| `ComponentsProofs` | theorems about seven of them: `kv`, `watch`, `health`, `broadcast`, `publication`, `database`, `readers` | - |
| `EdgeProofs` | four more: `projection`, `identities`, `edge`, `values` | - |
| `ContractsProofs` | the other three: `bus`, `boot`, `registry` | - |
| `MCComponents`, `MCInputs` | the instance of `ProvedComponents` for TLC, and the inputs of the parts that start from one | - |

A step of a model ends where the code awaits: what a task does between two
awaits is one action, and a database transaction is one step exactly where its
locks make it one (`Save` holds the head row; `load` holds nothing and is three
steps). Definitions marked as mutants are deliberately wrong variants of one
action or operator each; no specification uses them, they show that the property
they are listed with can fail.

**OutboxRelay.** `lock` is the relay whose open transaction holds the row.
`LoseSession` frees it behind the relay's back, so `Publish` does not look at it
and `Settle` does; that is how Postgres behaves when the connection is dropped.
`late` holds frames whose publisher timed out: they may still arrive, at any later
time. `window` is the broker's duplicate window, which may elapse `MaxExpiries`
times per id. `pass` keeps of `RelayPass` only what `schedule_after` and
`update_health` read. `NoResponders` is what async-nats reports as `StreamNotFound`
and `classify_failure` treats as structural.

**ManagedConsumer.** `outstanding` are the frames whose ack wait runs; a frame can
be held by a loop and no longer be outstanding, which is when another loop may get
it. `early` counts how often that happened to a frame. `buffer` is the client's
prefetch buffer, which may hold a frame and its redelivery at once: it counts the
copies of each frame. `sinceFrame` and `spent` are history variables: what has gone wrong since
the last decoded frame, and the errors among it that are `Other`.

**ScopeDeclaration.** The consumer below is abstracted to what it guarantees: a
command stays until it is acked, and any idle worker may take it, even one another
worker still holds. `NoCommand`, `alarm` (the `on_permanent_failure` callback) and
`seenBy` (whose save last touched a scope) are observations. Scope ownership is
the key prefix, which the validated key types make a function, so the
unique-violation branch of `save` (`ScopeConflict`) is unreachable from stores
that only `save` has written and is not an action.

**KvMirror.** `log` is the stream behind the bucket; its n-th entry has revision n,
`ValueAt(k, n)` is what a read at that revision returns, and a deleted or purged
key reads as `Nothing`. The bucket keeps one entry per key, so a watch skips an entry
that was superseded before it was sent (`Superseded`, `NextEntry`). Values are of
four kinds: two that pass the copy filter, one that does not, one that does not
decode. `scanned`, `opened` and `idle` are history variables: they say what a
property is allowed to excuse (the gap between a key's scan and the opening of the
watch) or to count. `Crash` is the death of the process, after which the health
channel is a new one; `Drop` is the cancellation of the `run()` future in a process
that lives on, after which nobody corrects the channel.

**KvStore.** `held` is the revision a client has read; an entry's revision is that of
the whole bucket, as in JetStream. `heirs` counts the conditional writes that built on a
revision. A versioned key is written only by the loop of the crate's README (`Want`,
then read, compare, create or update); the other keys by anything.

**EphemeralWatch.** The log and `Superseded` are those of `KvMirror`. `derived` and `due`
are the consumer's: it re-reads every key when health turns `Healthy`, and the keys of
skipped entries. `missable` is the history of what may be missed.

**DirectoryPublication, DirectoryProjection.** The first ends at the bucket, the second
starts from it with any writes at all; the interface is the bucket and its manifest.
`stale` and `gap` are histories of the keys on which a race is documented. A sink call is
a transaction of up to three steps, with the row lock it takes.

**DatabaseBoot, ServiceBoot.** The first has what replicas do to each other and takes a
boot's decisions as given, the second is the reverse. A URL is the record its parser
yields.

**The sequential modules.** `ScopeRegistry`, `Identities`, `ValueEdge`,
`DirectoryReaders`, `ServiceBoot` translate functions rather than schedules. Their inputs
(`MCInputs`) are chosen at the edges the code tests for: text that is blank after
trimming, a key of another service, a cookie that comes twice, an amount at either end of
its integer type, a host spelled in a query parameter. Each has a property that relates
two functions written apart (a reader and a writer, a checker and its user) instead of
restating one.

## 3. Runs

| Run | Question | Bounds |
| --- | --- | --- |
| `outbox` | the four safety invariants, the refinement of `OutboxDelivery`, and that every staged row is settled while the broker answers | 2 relays, 2 rows (one with an envelope id, one unparseable), batch 1, 2 attempts, 2 faults, 1 window expiry per id |
| `consumer_safety` | no loss, one run per delivery, budget, backoff | 2 loops, 1 good and 1 poison frame, budget 2, 3 errors, 1 crash or lost ack, 1 Nak, 1 early expiry |
| `consumer_liveness` | every published frame is settled | as above with budget 1, 1 error |
| `declaration_safety` | readiness, rejection, hydration, optimistic lock | 2 declarants with 2 boots, 2 workers, 2 attempts, 1 fault |
| `declaration_liveness` | each declarant gets the answer it deserves | a valid, an opted-out and an invalid declarant, 1 fault; the opted-out one, of which nobody hears, opts out first |
| `kv_mirror` | a `Healthy` mirror is fresh, only the admitted gap is missed, flapping backs off, the mirror converges | 2 selected keys and 1 other, 4 kinds of value, 3 writes, 2 faults, backoff cap 2 doublings, 3 sleeps counted |
| `components` | the properties of fourteen components, see below | see below |
| `consumer_flapping`, `consumer_poison`, `declaration_torn_load`, `declaration_last_seen`, `projector_health` | a sentence of the documentation the code does not keep | the smallest that shows it |

Two relays, loops or workers are enough for every race in this code, which is
always between one holder and one newcomer; a third would repeat the second.
A batch of one with two claimable rows makes every pass saturate. Each fault is
placed at every possible step; the proofs about the outbox need no bound. The
delays of the backoff are counted in units of its first delay, with the cap two
doublings above. `CHECK_DEADLOCK FALSE` is set where the bounded environment can
run dry (no error left, everything settled, every declarant answered): a loop
that waits for the next message is not a deadlock. The outbox run checks
deadlock: staging is always possible. Three writes to the bucket are a value, its
deletion or replacement, and one more in the gap; two faults are a failed cycle and
a second one during the recovery from it.

### The run `components`

The components of this run share no state in the program, so nothing is gained by
composing them. `part` picks one of them in the initial state and every behaviour stays
with it; the variables of the parts share the slots `s1` to `s17`, and each property is
guarded by its part. `MCComponents` keeps out, in `Init` and in `Plain`, what is like
something that is in, and combinations that no property relates; the proofs assume
neither. Symmetry swaps the first two actors and the two watched keys; no part has a
liveness property here. The parts and what makes their instances large enough:

| Part | Property | Bounds |
| --- | --- | --- |
| `kv` (`KvStore`) | `RevisionsGuard` | 2 clients, 1 versioned and 1 free key, 4 revisions, 1 lost reply, one value under the free key: create, a race of two holders, a lost reply, a re-creation |
| `watch` (`EphemeralWatch`) | `DerivedUpToTheGap` | 2 keys and one that cannot be named, 3 writes, 1 fault (a probe or a watch that fails, or the bucket that goes and may return), 2 sleeps counted, at most one readable write to the key without a name |
| `health` (`ProjectorHealth`) | `HealthyMeansInFlight` | 2 streams, 3 watches, one after another |
| `publication` (`DirectoryPublication`) | `PublicationHolds` | 2 publishers, 2 kinds, 1 id, 1 event, 1 fault, manifests with and without the second kind, which is the one that has an entry at first |
| `projection` (`DirectoryProjection`) | `ReplicasAgree`, `StagedOnlyForAChange` | 2 replicas, 1 user with two contents, 1 group, 2 publications, 1 fault, the manifest without accounts |
| `readers` (`DirectoryReaders`) | `DirectoryReadsHold` | 2 ids in each kind, 2 loaded entities, 2 maps of extensions, entries of another producer, 4 dependencies |
| `database` (`DatabaseBoot`) | `BootsAgree` | 2 replicas of one database and 1 of another, 2 migrations, 3 builds (two replicas of the newest or of two different ones), 2 attempts, 1 fault (a crash, an error, or the old release rolling back), release 0.1.0 on the first database |
| `boot` (`ServiceBoot`) | `BootDecides` | environments that vary the variables of the process or those of the database, 7 role names, 4 passwords, 10 states of the database |
| `bus` (`IntegrationBus`) | `BusKeepsAddresses` | 2 clients, 1 frame, 2 stream configurations (events alone; patterns in odd places), one coordinate, two or none to bind; one coordinate is also published on unreadably, and nobody verifies or is answered while a frame is lent |
| `registry` (`ScopeRegistry`) | `RegistryIsJust` | every sequence of declarations of two services, with ill-formed keys, labels that change, a scope given twice and a scope of the other service |
| `identities` (`Identities`) | `IdentityHolds` | every builder; headers that are missing, doubled, garbled or of the wrong kind; cookies that come twice; one hop |
| `values` (`ValueEdge`) | `ValuesHold` | amounts in -2..1, products that differ in how serde and how their codec write and read 2 locales |
| `edge` (`ServiceEdge`) | `EdgeTells` | 2 requests, 2 tasks, 2 readiness calls from a gate that is down, 1 event of the service, in a behaviour without requests |
| `broadcast` (`PostCommitBroadcast`) | `BroadcastIsHonest` | 2 commands, 2 subscribers, 2 events of one and 1 of the other, capacity 1 |

A property of this run names the properties of its module, which the module states and
comments one by one, and the module's `TypeOK`. Next to the mutant that `PROJECT.json`
names for each property, the modules have further mutants, one for most of the other
conjuncts: substituted for the definition they vary, they break that conjunct.

The instances were also run larger, once each, without an error: the outbox with 3 rows,
one fault and no expiry (769,196 states); the projection with a service account as well
(8,139,606 states); the publication with 3 publishers and 2 events (8,196,364) and with 2 ids
(1,104,715); the ephemeral watch with 2 faults (1,870,572) and with 3 keys (3,718,592); the consumer with its
safety and liveness bounds merged (2,186,547); and all of `components` without `Plain`, from all
initial states and with the larger inputs (4 stream configurations, 3 sleeps; 3,748,457). In the run `components` the projection has
no service account, whose sink is the user's without the filter and without members.

### Violations

* `consumer_flapping`: README of the fabric crate, lines 273-274. Uncounted triggers
  (`HeartbeatMissed`, `NoResponders`) after each successful re-bind repeat without
  end; only the backoff slows them down (`BackoffKeepsPace` holds).
* `consumer_poison`: same README, lines 235-236. `Term` first, callback second: a
  crash between the two drops the frame unreported.
* `declaration_torn_load`: README of `br-identity-app`, lines 130-132. A save that
  commits between the second and the third statement of a load trips the hydration
  barrier over a healthy store; the redelivery succeeds. `SavesWhatItJudged` shows
  that a torn load never reaches the store.
* `declaration_last_seen`: same README, lines 47-49. Every save touches
  `last_seen_at` of every scope in the registry.

* `projector_health`: README of `br-util-directory`, lines 281-284. The health is composed
  under the lock and sent after it; when a second `watch()` overlaps the end of the first,
  an older composition sent late leaves `Healthy` in the channel with nothing running
  behind it. One `watch()` after another the sentence holds (`HealthyMeansInFlight`).

Other sentences of the documentation that the code does not keep, found while modelling
and reproduced by no run:

* `crates/br-core-auth/README.md:200-203`: "If the exact name appears more than once" the
  answer is `None`. `session_cookie.rs:14` passes over a pair with an empty value, so
  `session_id=; session_id=s1` yields `s1`. `OneSession` says where the two differ, exactly: where
  all the cookies of the name but one are empty.
* `crates/br-util-graphql/README.md:136-139` promises "the offending value as a param".
  `values/error.rs:40` puts the code of the source error there for `ValueRejected`, also where
  there is no value that offends. `Tells` is exact about it.
* `crates/br-util-graphql/README.md:131`, `:157-159` and `:171-172`: `TryFrom<GqlMoneyInput>` refuses an
  amount with `money_out_of_range`, the raw string as its `amount` param. `values/money.rs:28-35`
  is given an `i64` and refuses currencies only; the amount is refused by the scalar, and
  `values/money_amount.rs:24-28` says no more than the code, as `:164-170` of the README has it.
  `RefuseAmount` and `Honest` have it that way.
* `crates/br-util-directory/README.md:120-122`: readers degrade by themselves for "an entity
  the manifest does not declare". `snapshot.rs:66-74` (`resolve_user`, `user_extensions`)
  does not ask the manifest. `SnapshotTells` has the two behaviours side by side.

### Fairness

* Outbox: weak fairness of `RelayStep(r)` - each relay task is polled and restarted
  by its supervisor when `run` returns. Nothing is assumed of faults, of the broker
  or of the listener; `EventuallySettled` is conditional on the broker answering.
* Consumer: weak fairness of each loop, of delivery to some loop, and of the
  ack-wait timer of each frame - the broker's own scheduling.
* Declaration: weak fairness of each worker and each declarant; strong fairness of
  `Take` per command (the durable redelivers a Nak-ed or expired command until it is
  acked) and of `Resolve` (a buffered confirmation is polled before a wait that has
  barely started times out; with only weak fairness the timeout could win for ever).
* KV mirror: weak fairness of `Step` - the task is polled, whoever spawned `run()`
  spawns it again, and the broker delivers what the watch has to send. Writes and
  faults are never fair. `EventuallyMirrored` is conditional on every corrupt value
  being repaired: `scan_passing` fails on it by design.
* The parts of `components` have no liveness property and state no fairness.

## 4. Proofs

`OutboxRelayProofs` proves, for any finite or infinite sets of rows and relays and
any policy, from the assumptions named in `OutboxRelay` only:

* `TypeCorrect`: `TypeOK`, strengthened with `InHand` (a relay that publishes or
  settles has a row in hand).
* `BudgetCorrect`: needs `LockHeld` - while a relay holds the lock, what it read
  (`seen`) is still what the row says, and no other relay holds it. Without that a
  stale `seen` could write the attempts backwards.
* `OneFrameCorrect`, `PayloadCorrect`: `OnStream` ties the relay's ack, the row's
  status and the broker's window to the frames: an accepted ack and a `PUBLISHED`
  status both imply a stored frame, and a frame inside the window is counted.
* `ImplementsDelivery`: the refinement. Each step maps to a step of
  `OutboxDelivery` or leaves `status` and `delivered` unchanged; `Settle` needs
  `LockHeld` (the row is `PENDING`) and `OnStream` (the frame is there).
* `NoStrandingCorrect`: the invariant `Attended` - for each pending row some relay is
  going to look at it (it drains with its cursor below the row, holds it, has a
  notification or a timer, is down and will drain when it starts) or is `Degraded`.
  The interesting step is `EndPass`: a row that a relay passed over was locked,
  hence attended by its holder, or was counted in the pass.

`ManagedConsumerProofs` proves, for any loops, frames, budget and delays:

* `TypeCorrect`: `TypeOK`, strengthened with `InHand` (a loop past `Receive` has a
  frame in hand).
* `BudgetCorrect`: the invariant `Counted` - `failures` is the number of `Other` errors a loop
  has had since its last decoded frame, which `spent` records whatever the code does.
* `NothingLostCorrect`: the invariant `Settled` - an ack on its way, like a closed
  frame, stands over a handler's verdict, and a frame that is termed never decodes.
* `SharingCorrect`: the invariant `Shared` - a held frame is outstanding, closed, or
  one whose ack wait ran out too soon, and only the last is ever held twice, be it by
  two loops or by the buffer and the hand of one.

`ScopeDeclarationProofs` proves, for any services, scopes, declarants and workers:

* `TypeCorrect`: the attempts of a worker stay within `MAX_ATTEMPTS`.
* `HydrationCorrect`: `Judged` - what a worker has judged hydrates and holds its
  declaration; a save adds services and scopes together.
* `LockCorrect`, `VersionCorrect`: `Locked` - the rows only grow, and they grow with
  the version; therefore a worker whose head version is still the store's has read,
  in three statements, exactly the rows of that version.
* `ReadyCorrect`, `RejectionCorrect`: `Answered` - every confirmation on the wire was
  sent over a registry that holds what it confirms, every rejection over a
  declaration that is invalid.

`ManagedConsumerProofs` also proves, with loops and frames finite in number:

* `BackoffCorrect`: the sleep that follows n failures in a row is at least the n-th
  doubling or the cap. It rests on `BackoffProofs`, see below.
* `RunsCorrect`: how often a frame was handed to a handler is compared with how often the
  durable delivered it. Both are sums over the loops (in hand, in the buffer), so the
  lemmas are about finite sums of which one term changes.

`BackoffProofs` proves, for any first delay and cap, that the schedule of `backoff.rs`
keeps up with a count of failures (`PaceKept`). The definition of the n-th doubling is
recursive, so it takes an induction; the library's rules have an operator as a parameter,
which no prover here can instantiate. `SetInduction` states the rule about a set of
natural numbers instead, and is proved from the least element of a set (`LeastNat`, from
the well-foundedness of `<`). The other inductions here go through it or through `LeastNat`.

`KvMirrorProofs` proves `MirrorIsFresh`, `OnlyTheGapIsMissed` and `FlappingBacksOff`. What
the bucket held at a revision (`ValueAt`) is that of the latest entry of the key, which
exists and is unique; a later write changes no earlier revision. The invariant follows the
cycle: what the scan has found (`ScanHolds`), how far the sink has been brought to it
(`ReconcileHolds`), and while the watch runs, that each selected row is what the bucket held
at the scan or at a delivered entry, and that whatever the watch has passed over since is
superseded by an entry still to come (`WatchHolds`).

`ComponentsProofs`, `EdgeProofs` and `ContractsProofs` prove, as theorems of `ProvedSpec`,
what the run `components` checks of its fourteen parts. A behaviour is about one part for
good, so each invariant is guarded by its part and kept by that part's steps alone. The
invariant is the last section of the component's own module:

* `RevisionsGuardCorrect`: of all who hold a revision one succeeds, no conditional write
  brings back what is gone, and a version never goes back. Revisions are handed out once and
  counted upwards (`Numbered`), one that was written over is no entry's any more
  (`Consumed`), and what a client holds is the revision of a live entry of a lower version,
  or of none (`Held`).
* `DerivedCorrect`: what the consumer of an ephemeral watch derived for a key is what the
  bucket holds, or the key is one it was told to re-read, one whose entry is still ahead of
  the watch, or one that changed in the gap before it (`Accounted`).
* `HealthyCorrect`: `Composed` - one task at a time owns the activation, what it composed
  is the worst of the streams, and `InFlight`: nothing is `Healthy` that is not followed.
* `BroadcastCorrect`: `Sends` (the first k events of a command are on the channel, once and in
  order) and `Hearing` (a subscriber has heard what it did not lose, at places of the channel
  that rise, `InOrder`).
* `PublicationCorrect`: where nothing has raced, what a reconcile read is what the source
  still says (`DesiredIsTrue`), and what it has dealt with is in the bucket, or it has yet to
  look there (`DealtWith`); every race is on record (`RacesAreStale`); a kind that was
  reconciled keeps what it has (`Reconciled`).
* `BootsCorrect`: an open transaction holds the lock of its step, so what it has read is what
  the ledger says (`ReadsTheLedger`); only release 0.1.0 takes no such lock, and a table it
  creates between the look-up and the SQL stops the replica; every attempt that was in vain has lost to a replica of
  another database (`AttemptsCounted`); a table has a record or is that of an old release.
* `ReplicasCorrect`: a row that is not what was published is owed by somebody - a replica
  whose reconcile, watch or transaction is still to settle it (`MirroredOrOwed`); a user whose
  derived state is behind is among the impacts, or a member of a group that is
  (`DerivedOrTold`). `ImpactsCorrect` is of single steps.
* `IdentityCorrect`: a loop over the cookies that keeps the first value and gives up at the
  second yields the one value there is (`SessionIsTheOne`); a passport is of one of two shapes and reads back from its own header
  (`RoundTrip`); what was built is in the header it is presented with (`Presented`); the
  metadata of command and answer names the passport's actor (`OnItsWay`).
* `EdgeCorrect`: the gauge, the counter and the log are compared with cardinalities; each
  step adds an element to one of the sets counted, or takes one away. A log line
  is right because of what the visitor has after the first k fields of the event
  (`HasVisited`), by `SetInduction` on k over the fold that reads them.
* `ValuesCorrect`: whatever is held, or stored in a document, is what the constructors make
  (`IsValue`): localized text is trimmed, has each locale once and the primary one among
  them, money fits its document. Therefore a document reads back as the value it was
  written from: serde reads each locale from what it writes of it (`Conforms`, which the
  conformance check of a product establishes). What a client is shown goes through the
  product's `LocaleCodec`, which nothing checks, so the round trip of text is proved of the
  products whose codec returns (`CodecReturns`), and that of money of all. Trimming a trimmed
  text changes nothing, by the least and the largest place of a character that is no white
  space. A refusal holds what its code has (`IsError`) and its answer is exactly `Tells`; no edge
  tells more than the other, and an amount out of range is a message of GraphQL (`Honest`).
* `BusCorrect`: a subject names one coordinate, because it has six tokens and each of them is
  at its place (`SubjectTells`); what `pattern_covers` says of two patterns is what the
  broker's matching does, by induction on the tokens left to compare (`Covered`). A durable
  filters on declared subjects and on at least one (`Declared`), so a frame reaches only those
  who asked for its coordinates.
* `ReadersCorrect`: the snapshot is what was told to it, for each id the last thing of its
  kind (`SnapshotFollows`), whatever the manifest declares meanwhile and also half way through
  a change of members; a published shape reads back as it was built (`ReadsBack`); a
  `ForeignRef` is reached exactly when something was told under its namespace and key
  (`OneRefPerEntity`).
* `BootCorrect`: `from_lookup` folds over the variables in a fixed order; after k of them each
  is got or is a problem, once and in that order, a history proved by induction on k. The
  statement that gives a role its password is its words, the name and the verifier, each at
  its place; the password itself is not in it. A replica serves only over the rows of the
  migrations it embeds.
* `RegistryCorrect`: the rows load again (`RowsLoad`) and are what the events say
  (`EventsTellAll`), the reply is that of the declaration (`RepliesAreJust`). What
  `register_declaration` has after the first k scopes of a command is a history again, proved
  by induction on k; each of its steps adds one scope and its event, or finds the key there
  and changes nothing.

The assumptions on the constants are named next to the instance that needs them
(`KvConstants` to `ValuesConstants` in `ProvedComponents`), and TLC evaluates them in the
run. They say: bounds are numbers; a user's key is not a group's; what stands for "nothing"
is no value; a readiness line is no line of the service; requests and tasks are finite in
number; what arrives from outside has the type its parser gives it (cookies, claims, JSON
objects, environments, declarations, documents); different passwords have different keys, and
no secret is a word of a statement; a currency's code is three letters, a country's two, and
letters are no white space.

What stays with TLC:

* all liveness: `EventuallySettled` of the outbox and of the consumer, `EventuallyAnswered`,
  `EventuallyMirrored`. The prover has neither fairness nor `ENABLED`.
* the five runs that expect a violation, of course.

## 5. What is left

* `await_commands`: the caller's other way to wait for the confirmation of a declaration.
* `ScopeDeclaration` and `ScopeRegistry` model one registry at two grains, the schedule and the
  judgement. That the first abstracts the second is argued here and not proved.

### Not modelled

* `br-test-support` and every `#[cfg(test)]` module: they are not part of a service.
* The Helm chart and the operations contract: templates, no state and no steps.
* The affordances, pagination, mutation and subscription payloads of `br-util-graphql`:
  records that a resolver fills, with no behaviour of their own.
* Counters nobody decides on: `outbox/duplicate_counter.rs` and
  `br-util-directory/src/consumer/progress.rs`.
* What libraries compute: SCRAM, certificates, ISO tables, JSON text, histogram buckets.
