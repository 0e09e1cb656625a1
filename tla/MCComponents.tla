--------------------------- MODULE MCComponents ---------------------------
(***************************************************************************)
(* The instance of ProvedComponents that TLC checks: one run over fourteen *)
(* components, of which nothing is composed.                               *)
(***************************************************************************)
EXTENDS ProvedComponents, TLC

CONSTANTS
  a1, a2, a3,       \* clients, publishers, replicas, requests, commands
  d1, d2,           \* databases
  e1, e2,           \* keys of a watch, tasks, subscribers
  accounts,         \* a stream
  x, y              \* checksums

MCHome == [r \in BootReplica |-> IF r = a3 THEN d2 ELSE d1]
MCBuilds == {<<x, y>>, <<x, NoSum>>, <<y, NoSum>>}

In == INSTANCE MCInputs

MCIncoming == In!IncomingRequests
MCClaimSets == In!Claims
MCScopeKeys == {In!ViewKey, In!EditKey}
MCRoutes == In!EdgeTargets
MCLogEvents == In!EventsLogged
MCBusWord == In!Words
MCBusRaw == In!RawCoords
MCBusWishes == In!WishedCoords
MCBusStreams == In!BoundStreams
MCRowCore == In!CoreFields
MCRowExtensions == In!ExtensionMaps
MCRowForeign == In!ForeignEntries
MCRowManifests == In!RosterManifests
MCRowDependencies == In!DependencyNames
MCEnvironments == In!Environments
MCDatabases == In!Databases
MCBinaries == In!EmbeddedSets
MCBareHosts == "[::1]" :> "::1"
MCNoText == ""
MCRoles == In!RoleNames
MCPasswords == In!RolePasswords
MCSegments == In!RegistrySegments
MCDeclarations == In!Declarations
MCSentinel == In!RegistrySentinel
MCProducts == In!Products
MCUppercase == In!Uppercase
MCCurrencies == {<<"E", "U", "R">>}
MCCountries == {<<"F", "R">>, <<"S", "S">>}
MCInputForms == In!ClientInputs
MCDocuments == In!StoredDocuments
MCEdits == In!Texts
MCLeastAmount == -2
MCBlank == " "
MCKeys == [p \in In!RolePasswords |-> "keys of " \o ToString(p)]

-----------------------------------------------------------------------------
\* Where the behaviours start: the replica of the other database is of the newest release, and
\* those of the first one are alike only in that release; of a roster, the kind that every
\* manifest declares is empty and the other is not; and a gate starts not ready.
Init ==
  /\ ProvedInit
  /\ part = "database" => s1[a3] = <<x, y>> /\ (s1[a1] = s1[a2] => s1[a1] = <<x, y>>)
  /\ part = "publication" => s1[1] = Publication!Nobody /\ s1[2] # Publication!Nobody
  /\ part = "edge" => s6 = "boot"

\* What a behaviour need not have, because it is like what it has: with no account the two
\* manifests of a roster are one, release 0.1.0 runs on one of the databases, nobody looks at what
\* is under a key without a name, a value that is no version is as good as any other, the longer
\* of two commands meets all that a short one does, and any event may be garbled.  Nor do two
\* things meet of which no property says anything together: a question about a stream and a lent
\* frame, or a log line of the service and a request.
Plain ==
  /\ part = "projection" => s2 # "accounts"
  /\ part = "database" => s15[d2] = "out"
  /\ part = "watch" =>
       LET unnamed == {n \in DOMAIN s1 : s1[n].key \in Nameless} IN
       Cardinality(unnamed) <= 1 /\ \A n \in unnamed : s1[n].val # corrupt
  /\ part = "kv" => \A k \in KvKeys \ Versioned : s2[k].val # 2
  /\ part = "broadcast" => Len(s2[a1]) + Len(s2[a2]) <= 3
  /\ part = "bus" => /\ \A n \in DOMAIN s2 : s2[n].of # In!Made => s2[n].readable
                     /\ s9 = Bus!Silence \/ s4 = {}
  /\ part = "edge" => \/ \A r \in Actors : s1[r] = "idle"
                      \/ \A n \in DOMAIN s8 : s8[n].event \notin LogEvents

Next == ProvedNext /\ Plain'

Spec == Init /\ [][Next]_vars

\* Clients, publishers, requests, commands and the replicas of one database are alike, and so
\* are the watched keys, the tasks and the subscribers.
MCSymmetry == Permutations({a1, a2}) \cup Permutations({e1, e2})
=============================================================================
