--------------------------- MODULE DirectoryReaders ---------------------------
(***************************************************************************)
(* The roster between two services: br-core-directory's published shapes   *)
(* and KV keys, as Identity writes them and any other producer may, and    *)
(* br-util-directory's DirectorySnapshot with its typed readers, which the *)
(* consuming service fills one entry at a time, and ForeignRef, the name   *)
(* under which the sinks tell an adopter what changed.                     *)
(*                                                                         *)
(* A JSON object is a function from field names to tagged values, a KV key *)
(* the sequence of its segments, an id is its uuid.                        *)
(***************************************************************************)
EXTENDS Naturals, Sequences, FiniteSets, SequencesExt

CONSTANTS
  Id,           \* uuids
  Core,         \* per kind, the core fields a publisher passes to new()
  Extensions,   \* the extension maps it passes
  Foreign,      \* entries another producer writes: a key and a JSON object
  Kept,         \* the extension keys extract_user_extensions keeps
  Manifests,    \* the entities a manifest declares
  Dependencies, \* the namespace and key an adopter names what it renders by
  Nothing,
  MaxKnown      \* bound: entities of the snapshot

VARIABLES
  wire,       \* the entry the consumer reads next: its key, its JSON, and who published it as what
  snapshot,   \* DirectorySnapshot
  half,       \* the group whose name is in the snapshot and whose members are not yet
  told,       \* per kind and id, what was last decoded for it, {} for nothing (history)
  dependency, \* what the adopter asked for, and what ForeignRef::new made of it
  reached     \* did an impact of a sink name the adopter's dependency

vars == <<wire, snapshot, half, told, dependency, reached>>

Kinds == {"users", "groups", "service_accounts"}
NoObject == [name \in {} |-> Nothing]

-----------------------------------------------------------------------------
(* Keys *)

Prefix(kind) == <<"identity", kind>>

KvKeyOf(kind, id) == Append(Prefix(kind), id)

\* KvPrefix::matches
Matches(prefix, key) == IsStrictPrefix(prefix, key)

\* The key without its prefix, if that is a uuid.
IdFromKvKey(kind, key) ==
  IF Matches(Prefix(kind), key) /\ Len(key) = Len(Prefix(kind)) + 1 /\ Last(key) \in Id
    THEN Last(key) ELSE Nothing

-----------------------------------------------------------------------------
(* The published shapes *)

Text(s) == [is |-> "string", value |-> s]
Null == [is |-> "null", value |-> ""]
IdList(ids) == [is |-> "ids", value |-> ids]

UserReservedKeys == {"email", "first_name", "last_name"}
Reserved ==
  [users |-> UserReservedKeys, groups |-> {"name", "member_ids"}, service_accounts |-> {"name"}]

Failed(why) == [is |-> why, core |-> NoObject, extensions |-> NoObject]

\* mutant: the last of a user's core keys is forgotten
ShadowsSome(kind, extensions) ==
  DOMAIN extensions \cap (Reserved[kind] \ {"last_name"}) # {}

\* reject_reserved_keys
Shadows(kind, extensions) == DOMAIN extensions \cap Reserved[kind] # {}

New(kind, core, extensions) ==
  IF Shadows(kind, extensions) THEN Failed("reserved")
  ELSE [is |-> kind, core |-> core, extensions |-> extensions]

PublishedUser(core, extensions) == New("users", core, extensions)
PublishedGroup(core, extensions) == New("groups", core, extensions)
PublishedServiceAccount(core, extensions) == New("service_accounts", core, extensions)

\* The typed fields, a None not among them, and then the flattened extensions, so that of a
\* field written twice the reader sees the extension.
Serialize(dto) ==
  [field \in DOMAIN dto.extensions \cup DOMAIN dto.core |->
     IF field \in DOMAIN dto.extensions THEN dto.extensions[field] ELSE dto.core[field]]

RequiredString(bag, field) == field \in DOMAIN bag /\ bag[field].is = "string"
OptionalString(bag, field) == field \in DOMAIN bag => bag[field].is \in {"string", "null"}
RequiredIds(bag, field) == field \in DOMAIN bag /\ bag[field].is = "ids"

Part(bag, fields) == [field \in DOMAIN bag \cap fields |-> bag[field]]

\* Every core field is taken out of the object, a null one for None; the rest are extensions.
Taken(kind, bag) ==
  LET given == {field \in DOMAIN bag : bag[field] # Null} IN
  New(kind, Part(bag, Reserved[kind] \cap given), Part(bag, DOMAIN bag \ Reserved[kind]))

ReadUser(bag) ==
  IF /\ RequiredString(bag, "email")
     /\ OptionalString(bag, "first_name") /\ OptionalString(bag, "last_name")
    THEN Taken("users", bag) ELSE Failed("malformed")

ReadGroup(bag) ==
  IF RequiredString(bag, "name") /\ RequiredIds(bag, "member_ids")
    THEN Taken("groups", bag) ELSE Failed("malformed")

ReadServiceAccount(bag) ==
  IF RequiredString(bag, "name") THEN Taken("service_accounts", bag) ELSE Failed("malformed")

Deserialize(kind, bag) ==
  CASE kind = "users" -> ReadUser(bag)
    [] kind = "groups" -> ReadGroup(bag)
    [] kind = "service_accounts" -> ReadServiceAccount(bag)

-----------------------------------------------------------------------------
(* References *)

Segment(name, len) == [name |-> name, len |-> len, plain |-> TRUE]
Namespace(kind) ==
  <<Segment("identity", 8),
    CASE kind = "users" -> Segment("user", 4)
      [] kind = "groups" -> Segment("group", 5)
      [] kind = "service_accounts" -> Segment("service_account", 15)>>
KeyText(id) == [text |-> id, len |-> 36, blank |-> FALSE]

\* A dot at an end and two in a row are an empty segment.
ValidNamespace(namespace) ==
  /\ \A i \in DOMAIN namespace : namespace[i].len > 0 /\ namespace[i].plain
  /\ FoldLeft(LAMBDA sum, segment : sum + segment.len, Len(namespace) - 1, namespace) <= 64

ValidKey(key) == key.len \in 1..256 /\ ~ key.blank

\* ForeignRef::new
ForeignRef(namespace, key) ==
  IF ~ ValidNamespace(namespace) THEN [is |-> "invalid_namespace"]
  ELSE IF ~ ValidKey(key) THEN [is |-> "invalid_key"]
  ELSE [is |-> "reference", namespace |-> namespace, key |-> key]

\* ForeignRef::entity: what the sinks build, without validation.
EntityRef(kind, id) == [is |-> "reference", namespace |-> Namespace(kind), key |-> KeyText(id)]

-----------------------------------------------------------------------------
(* The snapshot *)

FromWire(name) == IF name \in Kinds THEN name ELSE <<"other", name>>
Publishes(manifest, entity) == \E name \in manifest : FromWire(name) = entity

\* DirectorySnapshot::new
Fresh(manifest) ==
  [groups_published |-> Publishes(manifest, "groups"),
   service_accounts_published |-> Publishes(manifest, "service_accounts"),
   users |-> [id \in Id |-> Nothing], group_names |-> [id \in Id |-> Nothing],
   memberships |-> {}, service_accounts |-> [id \in Id |-> Nothing]]

\* What the consumer's extract_user_extensions keeps
Persisted(dto) == Part(dto.extensions, Kept)

KnownUser(dto) == [core |-> dto.core, extensions |-> Persisted(dto)]
UpsertUser(id, dto) == [snapshot EXCEPT !.users[id] = KnownUser(dto)]
UpsertGroup(id, dto) == [snapshot EXCEPT !.group_names[id] = dto.core["name"].value]
UpsertServiceAccount(id, dto) ==
  [snapshot EXCEPT !.service_accounts[id] = dto.core["name"].value]

Upsert(kind, id, dto) ==
  CASE kind = "users" -> UpsertUser(id, dto)
    [] kind = "groups" -> UpsertGroup(id, dto)
    [] kind = "service_accounts" -> UpsertServiceAccount(id, dto)

\* mutant: the members that left stay
WithMembersAdded(group, ids) ==
  [snapshot EXCEPT !.memberships = @ \cup {<<group, ids[i]>> : i \in DOMAIN ids}]

WithMembers(group, ids) ==
  [snapshot EXCEPT !.memberships =
     {link \in @ : link[1] # group} \cup {<<group, ids[i]>> : i \in DOMAIN ids}]

ResolveUser(id) == snapshot.users[id]
UserExtensions(id) == IF snapshot.users[id] = Nothing THEN Nothing ELSE snapshot.users[id].extensions

\* mutant: the manifest is not asked
IsMemberAnyway(group, user) == <<group, user>> \in snapshot.memberships
IsMember(group, user) == snapshot.groups_published /\ <<group, user>> \in snapshot.memberships
GroupName(id) == IF snapshot.groups_published THEN snapshot.group_names[id] ELSE Nothing
ResolveServiceAccount(id) ==
  IF snapshot.service_accounts_published THEN snapshot.service_accounts[id] ELSE Nothing

-----------------------------------------------------------------------------
NoEntry == [key |-> <<>>, bag |-> NoObject, dto |-> Failed("none")]
Known == {k \in Kinds \X Id : told[k[1]][k[2]] # {}}
NobodyTold == [kind \in Kinds |-> [id \in Id |-> {}]]

Init ==
  /\ wire = NoEntry
  /\ \E manifest \in Manifests : snapshot = Fresh(manifest)
  /\ half = Nothing
  /\ told = NobodyTold
  /\ \E asked \in Dependencies :
       dependency = [asked |-> asked, made |-> ForeignRef(asked.namespace, asked.key)]
  /\ reached = FALSE

\* Identity builds a shape, if new() lets it, and writes it under the entity's key.
Publish(id, dto) ==
  /\ wire = NoEntry
  /\ dto.is \in Kinds
  /\ wire' = [key |-> KvKeyOf(dto.is, id), bag |-> Serialize(dto), dto |-> dto]
  /\ UNCHANGED <<snapshot, half, told, dependency, reached>>

\* Any other producer of the wire writes what it likes.
WriteForeign(entry) ==
  /\ wire = NoEntry
  /\ wire' = [NoEntry EXCEPT !.key = entry.key, !.bag = entry.bag]
  /\ UNCHANGED <<snapshot, half, told, dependency, reached>>

\* The projector of `kind` reads the entry: one it cannot name is passed over, one that does
\* not decode ends its read, and neither leaves anything behind. Of a row that changed it tells
\* the adopter, and the consuming service takes the row into its snapshot.
Load(kind) ==
  /\ half = Nothing
  /\ Matches(Prefix(kind), wire.key)
  /\ Cardinality(Known \cup {<<kind, IdFromKvKey(kind, wire.key)>>}) <= MaxKnown
  /\ wire' = NoEntry
  /\ LET id == IdFromKvKey(kind, wire.key)
         dto == Deserialize(kind, wire.bag) IN
     IF id = Nothing \/ dto.is # kind THEN UNCHANGED <<snapshot, half, told, reached>>
     ELSE /\ snapshot' = Upsert(kind, id, dto)
          /\ told' = [told EXCEPT ![kind][id] = {dto}]
          /\ half' = IF kind = "groups" THEN id ELSE Nothing
          /\ reached' = (reached \/ (told[kind][id] # {dto} /\ EntityRef(kind, id) = dependency.made))
  /\ UNCHANGED dependency

\* The second call for a group: set_members
SetMembers ==
  /\ half # Nothing
  /\ \E dto \in told["groups"][half] :
       snapshot' = WithMembers(half, dto.core["member_ids"].value)
  /\ half' = Nothing
  /\ UNCHANGED <<wire, told, dependency, reached>>

\* The consumer starts again, with the manifest it finds then.
Rebuild(manifest) ==
  /\ snapshot' = Fresh(manifest)
  /\ half' = Nothing
  /\ told' = NobodyTold
  /\ reached' = FALSE
  /\ UNCHANGED <<wire, dependency>>

Next ==
  \/ \E id \in Id, extensions \in Extensions :
       \/ \E core \in Core["users"] : Publish(id, PublishedUser(core, extensions))
       \/ \E core \in Core["groups"] : Publish(id, PublishedGroup(core, extensions))
       \/ \E core \in Core["service_accounts"] :
            Publish(id, PublishedServiceAccount(core, extensions))
  \/ \E kind \in Kinds : Load(kind)
  \/ \E entry \in Foreign : WriteForeign(entry)
  \/ SetMembers
  \/ \E manifest \in Manifests : Rebuild(manifest)

Spec == Init /\ [][Next]_vars

-----------------------------------------------------------------------------
(* Properties *)

TypeOK ==
  /\ half \in Id \cup {Nothing}
  /\ reached \in BOOLEAN
  /\ snapshot.memberships \subseteq Id \X Id
  /\ DOMAIN told = Kinds

\* README.md:61-71 of br-core-directory: what was published reads back as it was published, by
\* the readers of its kind alone, and no extension shadows a core field on either path.
ReadsBack ==
  /\ wire.dto.is \in Kinds =>
       /\ Deserialize(wire.dto.is, wire.bag) = wire.dto
       /\ {kind \in Kinds : Matches(Prefix(kind), wire.key)} = {wire.dto.is}
  /\ \A kind \in Kinds, id \in Id : \A dto \in told[kind][id] :
       DOMAIN dto.extensions \cap Reserved[kind] = {}

\* README.md:114-122 of br-util-directory: a reader answers what was last decoded for the id it
\* is asked about (the members of a group as of the last set_members), and nothing for groups
\* or service accounts that the manifest does not declare, whatever was loaded.
SnapshotTells ==
  \A id \in Id :
    LET Told(kind) == told[kind][id]
        published == snapshot.groups_published IN
    /\ Told("users") = {} => ResolveUser(id) = Nothing
    /\ \A dto \in Told("users") : ResolveUser(id) = KnownUser(dto)
    /\ UserExtensions(id) # Nothing => DOMAIN UserExtensions(id) \subseteq Kept \ UserReservedKeys
    /\ Told("groups") = {} \/ ~published => GroupName(id) = Nothing
    /\ published => \A dto \in Told("groups") : GroupName(id) = dto.core["name"].value
    /\ Told("service_accounts") = {} \/ ~snapshot.service_accounts_published =>
         ResolveServiceAccount(id) = Nothing
    /\ snapshot.service_accounts_published =>
         \A dto \in Told("service_accounts") : ResolveServiceAccount(id) = dto.core["name"].value
    /\ half # id => \A user \in Id :
         IsMember(id, user) <=>
           published /\ \E dto \in Told("groups") : Contains(dto.core["member_ids"].value, user)

\* README.md:216-220: an adopter that names an entity by the sinks' namespace and its uuid gets
\* the reference the sinks stage, and no other name reaches it.
OneRefPerEntity ==
  reached <=> \E kind \in Kinds, id \in Id :
    told[kind][id] # {} /\ dependency.asked = [namespace |-> Namespace(kind), key |-> KeyText(id)]

\* The three together
DirectoryReadsHold == TypeOK /\ ReadsBack /\ SnapshotTells /\ OneRefPerEntity

-----------------------------------------------------------------------------
(* The inductive invariant *)

\* A JSON object: a field has one value, and an array holds ids.
IsObject(bag) ==
  /\ bag = [field \in DOMAIN bag |-> bag[field]]
  /\ \A field \in DOMAIN bag : bag[field].is = "ids" => bag[field].value \in Seq(Id)

\* What new() takes as the core of a shape: the fields it must have, and a None not among them.
IsCore(kind, core) ==
  /\ IsObject(core) /\ DOMAIN core \subseteq Reserved[kind]
  /\ CASE kind = "users" ->
             RequiredString(core, "email") /\ \A field \in DOMAIN core : core[field].is = "string"
       [] kind = "groups" -> RequiredString(core, "name") /\ RequiredIds(core, "member_ids")
       [] kind = "service_accounts" -> RequiredString(core, "name")

\* What a reader hands on: nothing shadowed, and a group with its members.
Decoded(kind, dto) ==
  /\ dto.is = kind
  /\ DOMAIN dto.extensions \cap Reserved[kind] = {}
  /\ kind = "groups" => dto.core["member_ids"].value \in Seq(Id)

\* One shape at most is what was decoded for an id.
ToldOnce ==
  /\ told = [kind \in Kinds |-> [id \in Id |-> told[kind][id]]]
  /\ \A kind \in Kinds, id \in Id : \A dto \in told[kind][id] :
       told[kind][id] = {dto} /\ Decoded(kind, dto)
  /\ half # Nothing => told["groups"][half] # {}

IsSnapshot ==
  /\ snapshot = [groups_published |-> snapshot.groups_published,
                 service_accounts_published |-> snapshot.service_accounts_published,
                 users |-> snapshot.users, group_names |-> snapshot.group_names,
                 memberships |-> snapshot.memberships, service_accounts |-> snapshot.service_accounts]
  /\ snapshot.users = [id \in Id |-> snapshot.users[id]]
  /\ snapshot.group_names = [id \in Id |-> snapshot.group_names[id]]
  /\ snapshot.service_accounts = [id \in Id |-> snapshot.service_accounts[id]]

\* The members of a group, as it was last decoded
Members(id) ==
  {user \in Id : \E dto \in told["groups"][id] : Contains(dto.core["member_ids"].value, user)}

\* The snapshot is what was told, whatever the manifest declares.
SnapshotFollows ==
  \A id \in Id :
    /\ told["users"][id] = {} => snapshot.users[id] = Nothing
    /\ \A dto \in told["users"][id] : snapshot.users[id] = KnownUser(dto)
    /\ told["groups"][id] = {} => snapshot.group_names[id] = Nothing
    /\ \A dto \in told["groups"][id] : snapshot.group_names[id] = dto.core["name"].value
    /\ told["service_accounts"][id] = {} => snapshot.service_accounts[id] = Nothing
    /\ \A dto \in told["service_accounts"][id] :
         snapshot.service_accounts[id] = dto.core["name"].value
    /\ half # id => \A user \in Id : <<id, user>> \in snapshot.memberships <=> user \in Members(id)

Inv ==
  /\ TypeOK /\ ToldOnce /\ IsSnapshot
  /\ IsObject(wire.bag)
  /\ dependency.asked \in Dependencies
  /\ dependency.made = ForeignRef(dependency.asked.namespace, dependency.asked.key)
  /\ ReadsBack /\ SnapshotFollows /\ OneRefPerEntity
=============================================================================
