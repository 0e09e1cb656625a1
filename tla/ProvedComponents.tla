--------------------------- MODULE ProvedComponents ---------------------------
(***************************************************************************)
(* The fourteen components that share the run of MCComponents: ProvedSpec  *)
(* is about one of them, and ComponentsProofs, EdgeProofs and              *)
(* ContractsProofs prove what the run checks of it.                        *)
(*                                                                         *)
(* The parts share no state: `part` says which of them a behaviour is      *)
(* about.  Each keeps its own initial states, next-state relation and      *)
(* properties, and nothing is composed.  As no two of them run in one      *)
(* behaviour, their variables share the slots s1, s2, ...; a slot that the *)
(* part does not use stays Void.                                           *)
(***************************************************************************)
EXTENDS Backoff, Integers, Sequences, FiniteSets

CONSTANTS
  Actors,               \* clients, tasks, commands
  KvKeys, Versioned,    \* keys of a bucket, those that hold a version
  Versions,
  Revisions,            \* bound: of a bucket
  corrupt, Tombstone,
  WatchKey, Nameless,   \* keys of a watch, subscribers; keys that KvKey does not take
  Legible, Bad,
  Writes, Sleeps,       \* bounds: of a watched bucket, of a backoff
  Streams, users,       \* of a projector, the one it always has
  Watches,              \* bound: of a projector
  Capacity, Batch,      \* of a broadcast channel, of a command
  KindCount, Manifests, \* of a directory, what versions of its publisher declare of them
  Id, Good,             \* of a kind; what a publisher shows of an id
  Changes,              \* bound: of a directory
  BootReplica, Database, Home,
  MaxVersion, Sum, OldSum, NoSum, Builds,
  MaxAttempts,          \* of a catalog step
  User, Account, Group, \* keys of a roster
  Content, Name,        \* what its users and accounts hold, of its groups
  Publications,         \* bound: of a roster
  NoOne,
  Incoming,             \* requests as they arrive at an edge
  AdminId, UserIds, ClaimSets, ScopeKeys, Correlations, NoId,
  Routes, NoRoute,      \* what a request may ask for, see ServiceEdge
  Statuses, Reasons, Component, LogEvents,
  GateCalls, LogLines,  \* bounds: of a readiness gate, of a log
  BusWord, BusRaw, BusWishes, BusStreams, \* names, coordinates, bound sets and streams of a bus
  BusFrames,            \* bound: of a bus
  RowId, RowCore, RowExtensions, RowForeign, \* uuids, and what is written under them
  RowKept, RowManifests, RowDependencies,    \* what a consumer of the roster keeps and declares
  RowsKnown,            \* bound: of a snapshot
  BootEnvironments, BootDatabases, BootBinaries, \* what a boot may find, and embed
  LoopbackHosts, BareHosts, NoText, SecretText, MaskedText,
  BootRoles, BootPasswords, BootKeys,
  LongestRole,          \* bound: of a role's name
  KeySegments, RegistryCommands, UnnamedService, \* segments of keys, declarations, the sentinel
  Blank, ValueProducts, LowerForms, UpperForms, CodeLetters, CurrencyCodes, CountryCodes,
  LeastAmount, LargestAmount,             \* of characters, locales, codes and money, see ValueEdge
  ValueInputs, ValueDocuments, ValueEdits, \* what clients send, what is stored, translations
  Faults,               \* bound: of a part
  Void

VARIABLES part, s1, s2, s3, s4, s5, s6, s7, s8, s9, s10, s11, s12, s13, s14, s15, s16, s17

vars == <<part, s1, s2, s3, s4, s5, s6, s7, s8, s9, s10, s11, s12, s13, s14, s15, s16, s17>>

-----------------------------------------------------------------------------
(* The parts *)

Kv == INSTANCE KvStore WITH
  Client <- Actors, Version <- Versions, Key <- KvKeys, Corrupt <- corrupt, Absent <- Void,
  MaxRevision <- Revisions, MaxFaults <- Faults,
  revision <- s1, entry <- s2, held <- s3, goal <- s4, heirs <- s5, faults <- s6

ASSUME KvConstants == Kv!Bounds

WatchedKeys == WatchKey \cup Nameless

Watch == INSTANCE EphemeralWatch WITH
  Nothing <- Void, Key <- WatchedKeys, Unnamable <- Nameless, Value <- Legible, Corrupt <- Bad,
  MaxWrites <- Writes, MaxIdle <- Sleeps, MaxFaults <- Faults,
  log <- s1, stored <- s2, present <- s3, pc <- s4, position <- s5, observed <- s6, health <- s7,
  delay <- s8, derived <- s9, due <- s10, missable <- s11, idle <- s12, faults <- s13

Health == INSTANCE ProjectorHealth WITH
  Task <- Actors, Stream <- Streams, Users <- users, Overlapping <- FALSE, MaxWatches <- Watches,
  generation <- s1, streams <- s2, channel <- s3, stage <- s4, guard <- s5, binding <- s6,
  following <- s7, composed <- s8

ASSUME HealthConstants == Watches \in Nat

Broadcast == INSTANCE PostCommitBroadcast WITH
  Command <- Actors, Subscriber <- WatchKey, MaxEvents <- Batch,
  phase <- s1, pending <- s2, sent <- s3, report <- s4, channel <- s5, audience <- s6, since <- s7,
  position <- s8, heard <- s9, lagged <- s10

ASSUME BroadcastConstants == Capacity \in Nat \ {0} /\ Batch \in Nat

\* The kinds are known by their turn.
KindsInTurn == [n \in 1..KindCount |-> n]

Publication == INSTANCE DirectoryPublication WITH
  Publisher <- Actors, Kinds <- KindsInTurn, Value <- Good, Absent <- Void,
  MaxEvents <- Changes, MaxFaults <- Faults,
  truth <- s1, bucket <- s2, meta <- s3, calls <- s4, at <- s5, manifest <- s6, turn <- s7,
  desired <- s8, observed <- s9, pending <- s10, settled <- s11, touched <- s12, stale <- s13,
  events <- s14, faults <- s15

ASSUME PublicationConstants ==
  KindCount \in Nat \ {0} /\ Manifests \subseteq SUBSET (1..KindCount)

Migrations == INSTANCE DatabaseBoot WITH
  None <- NoSum, Replica <- BootReplica, MaxFaults <- Faults,
  build <- s1, step <- s2, at <- s3, holder <- s4, attempts <- s5, overlapped <- s6, beaten <- s7,
  recorded <- s8, next <- s9, ran <- s10, noted <- s11, ledger <- s12, legacy <- s13, schema <- s14,
  old <- s15, why <- s16, mishaps <- s17

ASSUME MigrationsConstants ==
  /\ Home \in [BootReplica -> Database] /\ NoSum \notin BootReplica
  /\ MaxVersion \in Nat \ {0} /\ MaxAttempts \in Nat \ {0}
  /\ OldSum \in Sum /\ NoSum \notin Sum
  /\ Builds \subseteq [1..MaxVersion -> Sum \cup {NoSum}]

Projection == INSTANCE DirectoryProjection WITH
  Nothing <- Void, Replica <- Actors, Copied <- Good,
  MaxWrites <- Publications, MaxFaults <- Faults,
  published <- s1, declared <- s2, stages <- s3, phase <- s4, follows <- s5, taken <- s6,
  todo <- s7, tx <- s8, locked <- s9, rows <- s10, links <- s11, impacts <- s12, derived <- s13,
  gap <- s14, failures <- s15

\* A key is of one kind.
ASSUME ProjectionConstants ==
  /\ User \cap Group = {} /\ User \cap Account = {} /\ Account \cap Group = {}
  /\ Void \notin Content \cup Name \cup [name : Name, members : SUBSET User]
  /\ NoOne \notin Actors /\ Faults \in Nat

Requests == INSTANCE Identities WITH
  Requests <- Incoming, Ids <- UserIds,
  draft <- s1, request <- s2, stage <- s3, passport <- s4, response <- s5, session <- s6,
  sent <- s7, wire <- s8

ASSUME RequestsConstants ==
  /\ \A request \in Incoming :
       /\ DOMAIN request = {"headers", "graphql", "cookies", "secure"}
       /\ request.cookies \in Seq([name : STRING, value : STRING])
  /\ \A key \in ScopeKeys : Requests!IsScopeKey(key)

Edge == INSTANCE ServiceEdge WITH
  Request <- Actors, Targets <- Routes, Task <- WatchKey, Events <- LogEvents,
  MaxSets <- GateCalls, MaxEvents <- LogLines,
  stage <- s1, target <- s2, reply <- s3, gauge <- s4, total <- s5, readiness <- s6, owed <- s7,
  lines <- s8, turns <- s9, sets <- s10, seen <- s11

\* The text of an event is not what stands for a missing text, or for a number that is none.
ASSUME EdgeConstants ==
  /\ IsFiniteSet(Actors) /\ IsFiniteSet(WatchKey)
  /\ Statuses \subseteq Nat \ {0}
  /\ "none" \notin Reasons /\ "NaN" \notin Reasons
  /\ Edge!Up \notin LogEvents /\ \A reason \in Reasons : Edge!Down(reason) \notin LogEvents
  /\ \A event \in LogEvents :
       /\ event.fields \in Seq([name : STRING, kind : STRING, value : STRING])
       /\ \A n \in DOMAIN event.fields :
            event.fields[n].kind = "number" \/ event.fields[n].value \notin {"none", "NaN"}

Bus == INSTANCE IntegrationBus WITH
  Client <- Actors, Word <- BusWord, Raw <- BusRaw, Wishes <- BusWishes,
  Streams <- BusStreams, MaxFrames <- BusFrames,
  streams <- s1, frames <- s2, durables <- s3, lent <- s4, settled <- s5, opened <- s6, held <- s7,
  declared <- s8, said <- s9

\* A name is what its dots make of it, and a class and a version are one of the types' own.
ASSUME BusConstants ==
  /\ \A raw \in BusRaw :
       raw \in [class : Bus!Class, owner : Seq(STRING), aggregate : Seq(STRING), fact : Seq(STRING),
               version : Bus!VersionToken]
  /\ \A streams \in BusStreams :
       streams \in [Bus!Class -> [present : BOOLEAN, subjects : SUBSET Seq(STRING)]]

Readers == INSTANCE DirectoryReaders WITH
  Nothing <- Void, Id <- RowId, Core <- RowCore, Extensions <- RowExtensions,
  Foreign <- RowForeign, Kept <- RowKept, Manifests <- RowManifests,
  Dependencies <- RowDependencies, MaxKnown <- RowsKnown,
  wire <- s1, snapshot <- s2, half <- s3, told <- s4, dependency <- s5, reached <- s6

\* What is published and what is read are JSON objects, and a publisher passes whole cores.
ASSUME ReadersConstants ==
  /\ Void \notin RowId
  /\ \A kind \in Readers!Kinds : \A core \in RowCore[kind] : Readers!IsCore(kind, core)
  /\ \A extensions \in RowExtensions : Readers!IsObject(extensions)
  /\ \A entry \in RowForeign : Readers!IsObject(entry.bag)
  /\ \A asked \in RowDependencies : asked = [namespace |-> asked.namespace, key |-> asked.key]

Boot == INSTANCE ServiceBoot WITH
  Environments <- BootEnvironments, Databases <- BootDatabases, Embedded <- BootBinaries,
  Loopback <- LoopbackHosts, Bare <- BareHosts, Secret <- SecretText, Masked <- MaskedText,
  RoleNames <- BootRoles, MaxRoleName <- LongestRole, Passwords <- BootPasswords, Keys <- BootKeys,
  environ <- s1, database <- s2, embedded <- s3, stage <- s4, got <- s5, refusal <- s6,
  connected <- s7, sent <- s8, logged <- s9

\* Different passwords have different keys, and neither they nor the secret are words of a
\* statement.
ASSUME BootConstants ==
  /\ \A env \in BootEnvironments : Boot!IsEnvironment(env)
  /\ \A binary \in BootBinaries : Boot!IsBinary(binary)
  /\ \A found \in BootDatabases : found.rows = [v \in DOMAIN found.rows |-> found.rows[v]]
  /\ SecretText \notin {NoText, MaskedText} \cup Boot!Words
  /\ \A name \in BootRoles : name \in Seq(STRING)
  /\ \A p \in BootPasswords : BootKeys[p] \notin Boot!Words \cup {SecretText}
  /\ \A p, q \in BootPasswords : BootKeys[p] = BootKeys[q] => p = q

Registry == INSTANCE ScopeRegistry WITH
  Segments <- KeySegments, Commands <- RegistryCommands, Sentinel <- UnnamedService,
  head <- s1, services <- s2, scopes <- s3, journal <- s4, reply <- s5, answered <- s6, loaded <- s7

ASSUME RegistryConstants ==
  /\ \A segment \in KeySegments : segment.len \in Nat /\ segment.plain \in BOOLEAN
  /\ \A command \in RegistryCommands : Registry!IsCommand(command)

Values == INSTANCE ValueEdge WITH
  Space <- Blank, Products <- ValueProducts, Lowercase <- LowerForms, Upper <- UpperForms,
  Letters <- CodeLetters, Currencies <- CurrencyCodes, Countries <- CountryCodes,
  MinAmount <- LeastAmount, MaxAmount <- LargestAmount,
  Inputs <- ValueInputs, Documents <- ValueDocuments, Edits <- ValueEdits,
  product <- s1, stage <- s2, value <- s3, stored <- s4, shown <- s5, refusal <- s6, answers <- s7

\* A code is three or two upper-case letters, which are no white space.
ASSUME ValuesConstants ==
  /\ Blank \notin CodeLetters /\ CodeLetters \cap DOMAIN UpperForms = {}
  /\ CurrencyCodes \subseteq [1..3 -> CodeLetters] /\ CountryCodes \subseteq [1..2 -> CodeLetters]
  /\ \A p \in ValueProducts : Values!IsProduct(p)
  /\ \A input \in ValueInputs : Values!IsInput(input)
  /\ \A doc \in ValueDocuments : Values!IsDocument(doc)
  /\ \A content \in ValueEdits : content \in Seq(STRING)

-----------------------------------------------------------------------------
(* The slots from the n-th on, which a part with fewer variables does not use. *)

Idle16 == s16 = Void /\ s17 = Void
Idle14 == s14 = Void /\ s15 = Void /\ Idle16
Idle12 == s12 = Void /\ s13 = Void /\ Idle14
Idle11 == s11 = Void /\ Idle12
Idle10 == s10 = Void /\ Idle11
Idle9 == s9 = Void /\ Idle10
Idle8 == s8 = Void /\ Idle9
Idle7 == s7 = Void /\ Idle8

from16 == <<s16, s17>>
from14 == <<s14, s15, from16>>
from12 == <<s12, s13, from14>>
from11 == <<s11, from12>>
from10 == <<s10, from11>>
from9 == <<s9, from10>>
from8 == <<s8, from9>>
from7 == <<s7, from8>>

-----------------------------------------------------------------------------
ProvedInit ==
  \/ part = "kv" /\ Kv!Init /\ Idle7
  \/ part = "watch" /\ Watch!Init /\ Idle14
  \/ part = "health" /\ Health!Init /\ Idle9
  \/ part = "broadcast" /\ Broadcast!Init /\ Idle11
  \/ part = "publication" /\ Publication!Init /\ Idle16
  \/ part = "database" /\ Migrations!Init
  \/ part = "projection" /\ Projection!Init /\ Idle16
  \/ part = "identities" /\ Requests!Init /\ Idle9
  \/ part = "edge" /\ Edge!Init /\ Idle12
  \/ part = "bus" /\ Bus!Init /\ Idle10
  \/ part = "readers" /\ Readers!Init /\ Idle7
  \/ part = "boot" /\ Boot!Init /\ Idle10
  \/ part = "registry" /\ Registry!Init /\ Idle8
  \/ part = "values" /\ Values!Init /\ Idle8

ProvedNext ==
  /\ UNCHANGED part
  /\ \/ part = "kv" /\ Kv!Next /\ UNCHANGED from7
     \/ part = "watch" /\ Watch!Next /\ UNCHANGED from14
     \/ part = "health" /\ Health!Next /\ UNCHANGED from9
     \/ part = "broadcast" /\ Broadcast!Next /\ UNCHANGED from11
     \/ part = "publication" /\ Publication!Next /\ UNCHANGED from16
     \/ part = "database" /\ Migrations!Next
     \/ part = "projection" /\ Projection!Next /\ UNCHANGED from16
     \/ part = "identities" /\ Requests!Next /\ UNCHANGED from9
     \/ part = "edge" /\ Edge!Next /\ UNCHANGED from12
     \/ part = "bus" /\ Bus!Next /\ UNCHANGED from10
     \/ part = "readers" /\ Readers!Next /\ UNCHANGED from7
     \/ part = "boot" /\ Boot!Next /\ UNCHANGED from10
     \/ part = "registry" /\ Registry!Next /\ UNCHANGED from8
     \/ part = "values" /\ Values!Next /\ UNCHANGED from8

ProvedSpec == ProvedInit /\ [][ProvedNext]_vars

-----------------------------------------------------------------------------
(* What each of them promises, as its module states it; its types with it. *)

\* KvStore: of all who hold a revision one succeeds, what is gone is not brought back by a
\* conditional write, and a version never goes back (kv/revision.rs).
RevisionsGuard ==
  /\ [](part = "kv" => Kv!TypeOK /\ Kv!OneHeirPerRevision)
  /\ [][part = "kv" => Kv!GoneStaysGone /\ Kv!VersionsClimb]_vars

\* EphemeralWatch: a consumer that re-reads what it is told about misses a change only in the
\* gap before a watch, and a watch that flaps backs off (kv/ephemeral_auth_watch.rs).
DerivedUpToTheGap ==
  part = "watch" => /\ Watch!TypeOK
                    /\ Watch!DerivedUpToTheGap /\ Watch!FlappingBacksOff

\* ProjectorHealth: the projector is Healthy only while its watches are in flight.
HealthyMeansInFlight == part = "health" => Health!TypeOK /\ Health!HealthyMeansInFlight

\* PostCommitBroadcast: the report of a publish is true of those who were subscribed, and they
\* hear the events of a command in its order.
BroadcastIsHonest ==
  part = "broadcast" => Broadcast!TypeOK /\ Broadcast!ReportIsTrue /\ Broadcast!HeardInOrder

\* DirectoryPublication: whatever fails on the way the bucket comes to be the roster, and a
\* manifest is never there before the roster it declares.
PublicationHolds ==
  part = "publication" =>
    Publication!TypeOK /\ Publication!RosterIsTruth /\ Publication!ManifestImpliesRoster

\* DatabaseBoot: replicas that boot together neither stop each other nor leave a ledger that
\* is not the schema.
BootsAgree ==
  part = "database" =>
    Migrations!TypeOK /\ Migrations!ContentionIsForeign /\ Migrations!ParallelMigrationsAgree

\* DirectoryProjection: replicas over one database agree on the roster, and the impacts are
\* enough for the adopter.
ReplicasAgree ==
  part = "projection" =>
    Projection!TypeOK /\ Projection!ReplicasConverge /\ Projection!ImpactsSuffice

\* DirectoryProjection: no impact is staged by a write that changed nothing.
StagedOnlyForAChange == [][part = "projection" => Projection!StagedOnlyForAChange]_vars

\* Identities: who is admitted, what it may do, and whom its events name.
IdentityHolds == part = "identities" => Requests!TypeOK /\ Requests!IdentityHolds

\* ServiceEdge: the metrics and the log lines say what happened to the requests and the gate.
EdgeTells ==
  part = "edge" => /\ Edge!TypeOK /\ Edge!GaugeFollowsRequests /\ Edge!NoPathInLabels
                   /\ Edge!LinesAreOurs /\ Edge!EveryTransitionLoggedOnce

\* IntegrationBus: a frame, its subject and its coordinate stay one thing from the publisher to
\* the consumer, and a probe says of a stream what a bind would meet.
BusKeepsAddresses == part = "bus" => Bus!TypeOK /\ Bus!AddressesHold /\ Bus!ProbeAgrees

\* DirectoryReaders: what a consumer resolves is what was published, and nobody who left.
DirectoryReadsHold == part = "readers" => Readers!DirectoryReadsHold

\* ServiceBoot: a boot reports every problem once, never connects to a remote database without
\* TLS, logs no secret and sends none, and serves only the schema it embeds.
BootDecides ==
  part = "boot" => /\ Boot!TypeOK /\ Boot!EveryProblemOnce /\ Boot!NoRemotePlaintext
                   /\ Boot!SecretsStayIn /\ Boot!RoleStatementIsPlain /\ Boot!ServesItsSchema

\* ScopeRegistry: the registry is what the accepted declarations make of it, and loads back.
RegistryIsJust == part = "registry" => Registry!TypeOK /\ Registry!RegistryIsJust

\* ValueEdge: values keep their meaning between clients, the store and the wire, and a refusal
\* talks about the value and not about the service.
ValuesHold == part = "values" => Values!TypeOK /\ Values!ValuesHold
=============================================================================
