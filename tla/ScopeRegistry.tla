---------------------------- MODULE ScopeRegistry ----------------------------
(***************************************************************************)
(* What Identity makes of one declaration after another: the raw command   *)
(* and its validation (br-core-scope), the registry aggregate and its      *)
(* events (br-identity-domain), the rows it is stored in and hydrated from *)
(* (br-identity-app), the reply (br-scope-declaration-contract).  One      *)
(* declaration at a time: ScopeDeclaration has the races, and takes        *)
(* ownership and validity from here as a constant.                         *)
(***************************************************************************)
EXTENDS ScopeNames, FiniteSets

CONSTANTS
  Segments,  \* segments of raw keys
  Commands,  \* RawScopeDeclaration: [manifest: [key, label], scopes: Seq([key, label])]
  Sentinel   \* unrepresentable_service

VARIABLES
  head,      \* scope_registry_head
  services,  \* rows of scope_registry_service
  scopes,    \* rows of scope_registry, each with its owner
  journal,   \* every event of every accepted declaration, in order (history)
  reply,     \* the last confirmation
  answered,  \* the command it answers (history)
  loaded     \* did the last load pass the hydration barrier

vars == <<head, services, scopes, journal, reply, answered, loaded>>

Unanswered == [fact |-> "none", service |-> <<>>, reason |-> "ok"]

Init ==
  /\ head = 0 /\ services = {} /\ scopes = {}
  /\ journal = <<>>
  /\ reply = Unanswered /\ answered = {} /\ loaded = TRUE

-----------------------------------------------------------------------------
(* The command *)

\* The first of the positions a loop stops at, 0 if there is none.
FirstOf(found) ==
  IF found = {} THEN 0 ELSE CHOOSE n \in found : \A m \in found : n <= m

\* mutant: scopes of other services pass
DeclarationErrorForeign(manifest, list) ==
  IF \E n \in DOMAIN list : \E m \in 1..n - 1 : list[m].key = list[n].key
    THEN "duplicate_scope_in_declaration" ELSE "ok"

\* ScopeDeclaration::new: scope by scope, first whose it is, then whether it came before.
DeclarationError(manifest, list) ==
  LET foreign(n) == ~IsOwnedBy(list[n].key, manifest.key)
      again(n) == \E m \in 1..n - 1 : list[m].key = list[n].key
      n == FirstOf({m \in DOMAIN list : foreign(m) \/ again(m)}) IN
  IF n = 0 THEN "ok"
  ELSE IF foreign(n) THEN "scope_prefix_mismatch"
  ELSE "duplicate_scope_in_declaration"

\* ServiceManifest and ScopeSpec, their keys typed; of what they carry beside, the label.
ServiceManifest(raw) == [key |-> raw.key, label |-> raw.label]
ScopeSpec(raw) == [key |-> raw.key, label |-> raw.label]

\* The declaration that a command which validates turns into.
Declared(command) ==
  [manifest |-> ServiceManifest(command.manifest),
   scopes |-> [n \in DOMAIN command.scopes |-> ScopeSpec(command.scopes[n])]]

\* RawScopeDeclaration::validate: the service's key, every scope's key, the declaration.
Validate(command) ==
  IF ~IsServiceKey(command.manifest.key) \/ \E n \in DOMAIN command.scopes :
                                              ~IsScopeKey(command.scopes[n].key)
    THEN "invalid_scope_key"
    ELSE DeclarationError(command.manifest, command.scopes)

-----------------------------------------------------------------------------
(* The aggregate: [version, services], a service [manifest, scopes] *)

RegisteredService(manifest) == [manifest |-> manifest, scopes |-> <<>>]

OwnsKey(service, key) == \E n \in DOMAIN service.scopes : service.scopes[n].key = key

IndexOf(registry, service) ==
  FirstOf({n \in DOMAIN registry.services : registry.services[n].manifest.key = service})

OwnerOf(registry, key) ==
  LET n == FirstOf({m \in DOMAIN registry.services : OwnsKey(registry.services[m], key)}) IN
  IF n = 0 THEN {} ELSE {registry.services[n].manifest.key}

\* RegistryEvent
ServiceRegistered(manifest) ==
  [event |-> "ServiceRegistered", key |-> manifest.key, by |-> manifest.key, label |-> manifest.label]

\* scope_registered_event
ScopeRegistered(spec, owner) ==
  [event |-> "ScopeRegistered", key |-> spec.key, by |-> owner, label |-> spec.label]

\* CommandResult: it never warns.
IsNoop(result) == result.events = <<>>

\* The n-th service with one scope more
WithScope(list, n, spec) ==
  [list EXCEPT ![n] = [manifest |-> list[n].manifest, scopes |-> Append(list[n].scopes, spec)]]

ScopeAdded(done, n, spec) ==
  [registry |-> [version |-> done.registry.version,
                 services |-> WithScope(done.registry.services, n, spec)],
   by |-> done.by,
   events |-> Append(done.events, ScopeRegistered(spec, done.by))]

\* mutant: a key the service has is registered again
RegisterScopeAgain(done, spec) == ScopeAdded(done, IndexOf(done.registry, done.by), spec)

\* One scope of register_declaration: nothing for a key the service has, whatever its label.
RegisterScope(done, spec) ==
  LET n == IndexOf(done.registry, done.by) IN
  IF OwnsKey(done.registry.services[n], spec.key) THEN done ELSE ScopeAdded(done, n, spec)

\* The service first, unless it is known.
RegisterService(registry, manifest) ==
  IF IndexOf(registry, manifest.key) # 0
    THEN [registry |-> registry, by |-> manifest.key, events |-> <<>>]
    ELSE [registry |-> [registry EXCEPT !.services = Append(@, RegisteredService(manifest))],
          by |-> manifest.key,
          events |-> <<ServiceRegistered(manifest)>>]

\* register_declaration, once no scope has another owner.
RegisterDeclaration(registry, declaration) ==
  LET done == FoldLeft(RegisterScope, RegisterService(registry, declaration.manifest),
                       declaration.scopes) IN
  [done EXCEPT !.registry.version = @ + (IF IsNoop(done) THEN 0 ELSE 1)]

OwnedElsewhere(registry, declaration) ==
  \E n \in DOMAIN declaration.scopes :
    ~(OwnerOf(registry, declaration.scopes[n].key) \subseteq {declaration.manifest.key})

\* judge_declaration
Judge(registry, command) ==
  LET invalid == Validate(command) IN
  IF invalid # "ok" THEN invalid
  ELSE IF OwnedElsewhere(registry, Declared(command)) THEN "scope_owned_by_another_service"
  ELSE "ok"

-----------------------------------------------------------------------------
(* Rows *)

\* build_hydration_input: the scope rows under their owners' service rows.
HydrationInput(serviceRows, scopeRows) ==
  [rows |-> {[manifest |-> s, scopes |-> {[key |-> r.key, label |-> r.label] :
                r \in {r \in scopeRows : r.owner = s.key}}] : s \in serviceRows},
   orphans |-> {r \in scopeRows : \A s \in serviceRows : s.key # r.owner},
   corrupt |-> {s \in serviceRows : ~IsServiceKey(s.key)}
                 \cup {r \in scopeRows : ~IsScopeKey(r.key) \/ ~IsServiceKey(r.owner)}]

\* ScopeRegistry::hydrate: one row per service, each scope under its own prefix and only there.
Hydrates(input) ==
  /\ input.corrupt = {} /\ input.orphans = {}
  /\ \A s, t \in input.rows : s.manifest.key = t.manifest.key => s = t
  /\ \A s \in input.rows : \A spec \in s.scopes : IsOwnedBy(spec.key, s.manifest.key)
  /\ \A s, t \in input.rows : \A a \in s.scopes, b \in t.scopes : a.key = b.key => a = b

Hydrate(input) ==
  [version |-> head,
   services |-> [n \in 1..Cardinality(input.rows) |->
                  LET row == SetToSeq(input.rows)[n] IN
                  [manifest |-> row.manifest, scopes |-> SetToSeq(row.scopes)]]]

\* write_service, write_scope: rows that are there keep their labels.
Write(registry) ==
  LET new == {registry.services[n] : n \in DOMAIN registry.services} IN
  /\ services' = services \cup {s.manifest : s \in {s \in new :
                                  \A row \in services : row.key # s.manifest.key}}
  /\ scopes' = scopes \cup UNION {
       {[key |-> spec.key, owner |-> s.manifest.key, label |-> spec.label] : spec \in
          {spec \in ToSet(s.scopes) :
             \A row \in scopes : <<row.key, row.owner>> # <<spec.key, s.manifest.key>>}} : s \in new}
  /\ head' = registry.version

-----------------------------------------------------------------------------

\* RejectedIdentity::from_raw_key, reply_service
ReplyService(key) == IF IsServiceKey(key) THEN key ELSE Sentinel

\* ServiceScopesAccepted, ServiceScopesRejected
Accepted(service) == [fact |-> "accepted", service |-> service, reason |-> "ok"]
Rejected(service, reason) == [fact |-> "rejected", service |-> service, reason |-> reason]

\* DeclarationPipeline::handle without its races: load, judge, save, confirm.
Handle(command) ==
  LET input == HydrationInput(services, scopes)
      registry == Hydrate(input)
      reason == Judge(registry, command)
      done == RegisterDeclaration(registry, Declared(command))
      service == ReplyService(command.manifest.key) IN
  /\ loaded' = Hydrates(input)
  /\ IF ~loaded' THEN UNCHANGED <<head, services, scopes, journal, reply, answered>>
     ELSE /\ reply' = IF reason = "ok" THEN Accepted(service) ELSE Rejected(service, reason)
          /\ answered' = {command}
          /\ IF reason = "ok" THEN Write(done.registry) /\ journal' = journal \o done.events
                              ELSE UNCHANGED <<head, services, scopes, journal>>

Next == \E command \in Commands : Handle(command)

Spec == Init /\ [][Next]_vars

-----------------------------------------------------------------------------
(* Properties *)

TypeOK ==
  /\ head \in Nat /\ loaded \in BOOLEAN
  /\ reply.fact \in {"none", "accepted", "rejected"}
  /\ \A row \in scopes : DOMAIN row = {"key", "owner", "label"}

\* README.md:123-128 of br-identity-app, README.md:39-43 of br-identity-domain: what was accepted
\* never trips the barrier over it.
NeverCorrupt == loaded /\ Hydrates(HydrationInput(services, scopes))

\* The rows that events tell of
ServicesTold(events) ==
  {[key |-> e.key, label |-> e.label] : e \in {e \in events : e.event = "ServiceRegistered"}}
ScopesTold(events) ==
  {[key |-> e.key, owner |-> e.by, label |-> e.label] :
     e \in {e \in events : e.event = "ScopeRegistered"}}

\* README.md:44-60 of br-identity-domain: the events are the registry, each service and scope
\* announced once, with the label it has, after its service.
EventsTellAll ==
  /\ services = ServicesTold(ToSet(journal))
  /\ scopes = ScopesTold(ToSet(journal))
  /\ Len(journal) = Cardinality(services) + Cardinality(scopes)
  /\ \A n \in DOMAIN journal : \E m \in 1..n :
       journal[m].event = "ServiceRegistered" /\ journal[m].key = journal[n].by

\* What README.md:67 of br-core-scope calls no key: lower-case segments of which the first names
\* the service.
IllNamed(raw, segments) ==
  \/ Len(raw) # segments \/ Bytes(raw) > 128 \/ raw[1].len > 64
  \/ \E n \in DOMAIN raw : raw[n].len = 0 \/ ~raw[n].plain

\* README.md:42-48 of br-core-scope: a confirmation says what became of the declaration: an accepted
\* one is in the registry whole, a rejected one breaks the rule its reason names, and no scope is
\* ever lost to another service.
RepliesAreJust ==
  \A command \in answered :
    IF reply.fact = "accepted"
      THEN /\ reply.service = command.manifest.key
           /\ \E s \in services : s.key = command.manifest.key
           /\ \A n \in DOMAIN command.scopes : \E row \in scopes :
                row.key = command.scopes[n].key /\ row.owner = command.manifest.key
      ELSE CASE reply.reason = "invalid_scope_key" ->
                  \/ IllNamed(command.manifest.key, 1)
                  \/ \E n \in DOMAIN command.scopes : IllNamed(command.scopes[n].key, 2)
             [] reply.reason = "scope_prefix_mismatch" ->
                  \E n \in DOMAIN command.scopes : command.scopes[n].key[1] # command.manifest.key[1]
             [] reply.reason = "duplicate_scope_in_declaration" ->
                  Cardinality({s.key : s \in ToSet(command.scopes)}) < Len(command.scopes)
             [] OTHER -> FALSE

RegistryIsJust == NeverCorrupt /\ EventsTellAll /\ RepliesAreJust

-----------------------------------------------------------------------------
(* The inductive invariant *)

\* What the commands may put into the registry, and the events over it
Introductions == {ServiceManifest(command.manifest) : command \in Commands}
Specs == UNION {{ScopeSpec(command.scopes[n]) : n \in DOMAIN command.scopes} : command \in Commands}
Announcements ==
  {ServiceRegistered(manifest) : manifest \in Introductions}
  \cup {ScopeRegistered(spec, manifest.key) : spec \in Specs, manifest \in Introductions}

\* Rows that load: well-formed keys, one row for each, and every scope under its own service.
RowsLoad(serviceRows, scopeRows) ==
  /\ \A s \in serviceRows : s \in Introductions /\ IsServiceKey(s.key)
  /\ \A s, t \in serviceRows : s.key = t.key => s = t
  /\ \A r \in scopeRows :
       /\ r = [key |-> r.key, owner |-> r.owner, label |-> r.label]
       /\ [key |-> r.key, label |-> r.label] \in Specs
       /\ IsScopeKey(r.key) /\ IsOwnedBy(r.key, r.owner) /\ \E s \in serviceRows : s.key = r.owner
  /\ \A r, q \in scopeRows : r.key = q.key => r = q

\* The rows load and are what the events say.
Inv ==
  /\ TypeOK
  /\ IsFiniteSet(services) /\ IsFiniteSet(scopes) /\ RowsLoad(services, scopes)
  /\ journal \in Seq(Announcements)
  /\ NeverCorrupt /\ EventsTellAll /\ RepliesAreJust

\* A raw key is what the colons of a text leave, which is at least one segment.
IsRawKey(raw) == raw \in Seq(Segments) /\ raw # <<>>

IsCommand(command) ==
  /\ IsRawKey(command.manifest.key)
  /\ DOMAIN command.scopes = 1..Len(command.scopes) /\ Len(command.scopes) \in Nat
  /\ \A n \in DOMAIN command.scopes : IsRawKey(command.scopes[n].key)
=============================================================================
