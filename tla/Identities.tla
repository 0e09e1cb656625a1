------------------------------ MODULE Identities ------------------------------
(***************************************************************************)
(* Who is asking, from the request to the answer on the bus: the session   *)
(* cookie and the X-Passport header (br-core-auth), the guard in front of  *)
(* the routes (br-util-axum-auth), the passport's accessors, the actor     *)
(* (br-core-kernel) in the metadata of a command (br-core-events) and of   *)
(* the event that answers it.                                              *)
(*                                                                         *)
(* A JSON object is its kind or method, the fields it has, those of them   *)
(* whose value has the wrong type, and the values.                         *)
(***************************************************************************)
EXTENDS ScopeNames, FiniteSets

CONSTANTS
  Requests,     \* [headers, graphql, cookies, secure]
  AdminId,      \* who impersonates
  Ids,          \* of users and service accounts
  ClaimSets,    \* what a builder may put under claims
  ScopeKeys,    \* keys a route may ask for
  Correlations, \* correlation and message ids
  NoId

VARIABLES
  draft,           \* none, or the PassportBuilder of who asks, and as what it was built
  request, stage,  \* building, arrived, refused, admitted, commanded, answered
  passport,        \* the request extension: none or one passport
  response,        \* what a refused client sees
  session,         \* extract_session_id: none or one
  sent,            \* metadata of the command and of the answer, as they were sent
  wire             \* and as they were read on the other side

vars == <<draft, request, stage, passport, response, session, sent, wire>>

-----------------------------------------------------------------------------
(* Session cookie *)

\* session_cookie_name
SessionCookieName(secure) == IF secure THEN "__Host-session_id" ELSE "session_id"

\* The pairs of the header with exactly that name, and those of them with a value.
NoValue == ""
SessionCookies(cookies, secure) ==
  {n \in DOMAIN cookies : cookies[n].name = SessionCookieName(secure)}
ValuedCookies(cookies, secure) == {n \in SessionCookies(cookies, secure) : cookies[n].value # NoValue}

\* mutant: of several cookies with the name the last counts
ExtractSessionLast(cookies, secure) ==
  LET valued == ValuedCookies(cookies, secure) IN
  {cookies[n].value : n \in {n \in valued : \A m \in valued : m <= n}}

\* extract_session_id: the one such cookie with a value; several with a value are none, and a pair
\* that ends at its = is passed over.
ExtractSession(cookies, secure) ==
  LET valued == ValuedCookies(cookies, secure) IN
  IF Cardinality(valued) = 1 THEN {cookies[n].value : n \in valued} ELSE {}

-----------------------------------------------------------------------------
(* Passports *)

\* PassportClaims: a map, of which only the scopes matter here.
NoClaims == [scopes |-> [is |-> "absent", list |-> <<>>]]

\* PassportClaims::from_value, none for an error
ClaimsFromValue(json) == IF json.is = "object" THEN {json.map} ELSE {}

\* serde of PassportClaims
ClaimsToValue(claims) == [is |-> "object", map |-> claims]
ReadsClaims(doc) == "claims" \in doc.has /\ ClaimsFromValue(doc.claims) # {}

\* Passport::human, Passport::service (PassportBuilder)
Human(id, super, active, auth, impersonator, claims) ==
  [kind |-> "human", id |-> id, super |-> super, active |-> active, auth |-> auth,
   impersonator |-> impersonator, claims |-> claims]
Service(id, claims) ==
  [kind |-> "service", id |-> id, super |-> FALSE, active |-> TRUE, auth |-> "none",
   impersonator |-> NoId, claims |-> claims]

\* serde of AuthMethod: a jwt has no field but its method, a pat its token too, none an unknown one.
AuthReads(auth) ==
  /\ auth.bad = {}
  /\ \/ auth.method = "jwt" /\ auth.has = {"method"}
     \/ auth.method = "pat" /\ auth.has = {"method", "token_id"}

HumanFields == {"kind", "user_id", "is_super_admin", "is_active", "auth_method", "claims"}
ServiceFields == {"kind", "service_account_id", "claims"}

\* mutant: a field of the other kind is overlooked
ReadsLax(doc) ==
  /\ doc.bad = {} /\ ReadsClaims(doc)
  /\ \/ doc.kind = "human" /\ HumanFields \subseteq doc.has /\ AuthReads(doc.auth)
     \/ doc.kind = "service" /\ ServiceFields \subseteq doc.has

\* serde of Passport: tagged by kind, unknown fields denied, impersonator optional.
Reads(doc) ==
  /\ doc.bad = {} /\ ReadsClaims(doc)
  /\ \/ /\ doc.kind = "human" /\ AuthReads(doc.auth)
        /\ HumanFields \subseteq doc.has /\ doc.has \subseteq HumanFields \cup {"impersonator"}
     \/ doc.kind = "service" /\ doc.has = ServiceFields

\* from_header over a document that reads: the fields of its kind.
PassportOf(doc) ==
  LET claims == CHOOSE map \in ClaimsFromValue(doc.claims) : TRUE IN
  IF doc.kind = "service" THEN Service(doc.id, claims)
  ELSE Human(doc.id, doc.super, doc.active, doc.auth.method,
             IF "impersonator" \in doc.has THEN doc.impersonator ELSE NoId, claims)

\* to_header
ToHeader(p) ==
  [kind |-> p.kind, bad |-> {}, id |-> p.id, super |-> p.super, active |-> p.active,
   has |-> IF p.kind = "human" THEN HumanFields \cup {"impersonator"} ELSE ServiceFields,
   auth |-> [method |-> p.auth, bad |-> {},
             has |-> IF p.auth = "pat" THEN {"method", "token_id"} ELSE {"method"}],
   impersonator |-> p.impersonator, claims |-> ClaimsToValue(p.claims)]

\* with_impersonator: a service is left as it is.
WithImpersonator(p, id) == IF p.kind = "human" THEN [p EXCEPT !.impersonator = id] ELSE p

\* user_id, service_account_id, auth_method, is_pat, impersonator_id, is_super_admin, is_active
UserId(p) == IF p.kind = "human" THEN {p.id} ELSE {}
ServiceAccountId(p) == IF p.kind = "service" THEN {p.id} ELSE {}
IsPat(p) == p.kind = "human" /\ p.auth = "pat"
ImpersonatorId(p) == IF p.kind = "human" THEN p.impersonator ELSE NoId
IsSuperAdmin(p) == p.kind = "human" /\ p.super
IsActive(p) == p.kind = "service" \/ p.active

\* Passport::claim over scopes: an array with a single element that is no string is no claim.
ScopeClaim(p) == IF p.claims.scopes.is = "strings" THEN p.claims.scopes.list ELSE <<>>

\* scopes: what is no key is passed over.
Scopes(p) == {raw \in ToSet(ScopeClaim(p)) : IsScopeKey(raw)}

\* mutant: a claim of the same service is enough
HasScopeOfService(p, key) == \E raw \in ToSet(ScopeClaim(p)) : ServiceOf(raw) = ServiceOf(key)

\* has_scope
HasScope(p, key) == key \in ToSet(ScopeClaim(p))

-----------------------------------------------------------------------------
(* Building a passport *)

\* PassportBuilder::new, with a new id
NewBuilder(id) ==
  [id |-> id, super |-> FALSE, active |-> TRUE, auth |-> "jwt", impersonator |-> NoId,
   claims |-> NoClaims, as |-> "nothing yet"]

\* user_id, super_admin, active, pat, impersonator: one field each
Setting(b) ==
  {[b EXCEPT !.id = id] : id \in Ids} \cup {[b EXCEPT !.super = yes] : yes \in BOOLEAN}
  \cup {[b EXCEPT !.active = yes] : yes \in BOOLEAN} \cup {[b EXCEPT !.auth = "pat"]}
  \cup {[b EXCEPT !.impersonator = AdminId]}

\* claim, claims: a claim of the same name is replaced.
Claiming(b) == {[b EXCEPT !.claims = claims] : claims \in ClaimSets}

\* mutant: a machine's passport is built as a human's
BuildHuman(b, service) == Human(b.id, b.super, b.active, b.auth, b.impersonator, b.claims)

\* build, build_service: a service's passport takes the id and the claims alone.
Build(b, service) ==
  IF service THEN Service(b.id, b.claims)
             ELSE Human(b.id, b.super, b.active, b.auth, b.impersonator, b.claims)

Prepare ==
  /\ stage = "building"
  /\ \E b \in draft : \E next \in Setting(b) \cup Claiming(b) : draft' = {next}
  /\ UNCHANGED <<request, stage, passport, response, session, sent, wire>>

\* What was built goes out in the X-Passport header.
Present ==
  /\ stage = "building"
  /\ \E b \in draft, service \in BOOLEAN :
       /\ request' = [request EXCEPT !.headers =
                        <<[is |-> "document", doc |-> ToHeader(Build(b, service))]>>]
       /\ draft' = {[b EXCEPT !.as = IF service THEN "service" ELSE "human"]}
  /\ stage' = "arrived"
  /\ UNCHANGED <<passport, response, session, sent, wire>>

-----------------------------------------------------------------------------
(* The guard *)

\* decode_passport: the first header of the name, text, not empty, base64 of JSON of a passport.
DecodePassport(headers) ==
  IF headers = <<>> THEN {}
  ELSE IF Head(headers).is = "document" /\ Reads(Head(headers).doc) THEN {PassportOf(Head(headers).doc)}
  ELSE {}

\* text_unauthorized, graphql_unauthorized
Refusal(graphql) == IF graphql THEN "graphql_unauthorized" ELSE "text_unauthorized"

\* admit: the routes run only behind a passport.
Admit ==
  /\ stage = "arrived"
  /\ passport' = DecodePassport(request.headers)
  /\ session' = ExtractSession(request.cookies, request.secure)
  /\ IF passport' # {} THEN stage' = "admitted" /\ UNCHANGED response
                       ELSE stage' = "refused" /\ response' = Refusal(request.graphql)
  /\ UNCHANGED <<draft, request, sent, wire>>

\* A gateway passes the passport on in an admin's name.
Impersonate ==
  /\ stage = "admitted"
  /\ passport' = {WithImpersonator(p, AdminId) : p \in passport}
  /\ UNCHANGED <<draft, request, stage, response, session, sent, wire>>

-----------------------------------------------------------------------------
(* Metadata *)

\* Actor: of either kind, tagged with it on the wire
Actor(kind, id) == [kind |-> kind, id |-> id]

\* Passport::to_actor
ToActor(p) == Actor(p.kind, p.id)

\* EventMetadata::new, with_causation
Metadata(actor, correlation) == [actor |-> actor, correlation |-> correlation, causation |-> NoId]
WithCausation(meta, id) == [meta EXCEPT !.causation = id]

\* Serialize for EventMetadata: the causation only if there is one.
Serialized(meta) ==
  [actor_id |-> meta.actor.id, actor_kind |-> meta.actor.kind, correlation_id |-> meta.correlation,
   causation_id |-> meta.causation]

\* mutant: the kind is not read
DeserializedHuman(w) ==
  [actor |-> [kind |-> "human", id |-> w.actor_id], correlation |-> w.correlation_id,
   causation |-> w.causation_id]

\* Deserialize: a producer that sends no kind means a human; a kind that is neither, which nothing
\* here sends, is refused.
Deserialized(w) ==
  [actor |-> Actor(IF w.actor_kind = "service" THEN "service" ELSE "human", w.actor_id),
   correlation |-> w.correlation_id, causation |-> w.causation_id]

\* IntegrationCommand::new with the passport's actor; it is read from its frame.
SendCommand ==
  /\ stage = "admitted"
  /\ \E p \in passport, correlation \in Correlations :
       /\ sent' = <<Metadata(ToActor(p), correlation)>>
       /\ wire' = <<Deserialized(Serialized(Metadata(ToActor(p), correlation)))>>
  /\ stage' = "commanded"
  /\ UNCHANGED <<draft, request, passport, response, session>>

\* ConfirmationPublisher::publish: the command's actor and correlation, caused by it.
Answer ==
  /\ stage = "commanded"
  /\ \E command_id \in Correlations :
       LET meta == WithCausation(Metadata(wire[1].actor, wire[1].correlation), command_id) IN
       /\ sent' = Append(sent, meta)
       /\ wire' = Append(wire, Deserialized(Serialized(meta)))
  /\ stage' = "answered"
  /\ UNCHANGED <<draft, request, passport, response, session>>

Init ==
  /\ request \in Requests
  /\ \/ stage = "arrived" /\ draft = {}
     \/ /\ stage = "building" /\ \E id \in Ids : draft = {NewBuilder(id)}
        /\ request.headers = <<>> /\ request.cookies = <<>>
  /\ passport = {} /\ response = "none" /\ session = {}
  /\ sent = <<>> /\ wire = <<>>

Next == Prepare \/ Present \/ Admit \/ Impersonate \/ SendCommand \/ Answer

Spec == Init /\ [][Next]_vars

-----------------------------------------------------------------------------
(* Properties *)

TypeOK ==
  /\ Cardinality(draft) <= 1
  /\ stage \in {"building", "arrived", "refused", "admitted", "commanded", "answered"}
  /\ Cardinality(passport) <= 1 /\ Cardinality(session) <= 1
  /\ response \in {"none", "text_unauthorized", "graphql_unauthorized"}

\* README.md:22-30 of br-util-axum-auth: behind the guard there is exactly one passport, it is of one
\* kind and all that its header said, and a client without one is told so in the edge's own form.
OnePassport ==
  /\ stage \in {"admitted", "commanded", "answered"} <=> passport # {}
  /\ stage = "refused" <=> response # "none"
  /\ \A p \in passport :
       /\ Cardinality(UserId(p) \cup ServiceAccountId(p)) = 1
       /\ p.kind = "service" => ~IsSuperAdmin(p) /\ ~IsPat(p) /\ ImpersonatorId(p) = NoId /\ IsActive(p)
       /\ Reads(ToHeader(p)) /\ PassportOf(ToHeader(p)) = p
       /\ Head(request.headers).doc.has \subseteq ToHeader(p).has

\* README.md:206-226 of br-core-auth: what was built is admitted as it was built, whatever was set in
\* what order, but for an impersonator set on the way; a service has nothing that only a human has.
BuiltArrives ==
  \A b \in draft :
    /\ stage # "refused"
    /\ \A p \in passport :
         /\ p.id = b.id /\ p.claims = b.claims
         /\ p.kind = "human" => /\ p.super = b.super /\ p.active = b.active /\ p.auth = b.auth
                                /\ p.impersonator \in {b.impersonator, AdminId}
         /\ p.kind = b.as

\* README.md:113-119 of br-core-auth: asking for a scope and listing the scopes never disagree.
ScopesAgree == \A p \in passport, key \in ScopeKeys : HasScope(p, key) <=> key \in Scopes(p)

\* README.md:201-204 of br-core-auth: of a name that appears more than once no value is picked.
DocumentedSession(cookies, secure) ==
  LET named == SessionCookies(cookies, secure) IN
  IF Cardinality(named) = 1 THEN {cookies[n].value : n \in named} \ {NoValue} ELSE {}

\* Where the code disagrees with that rule, and there only: of several cookies of the name exactly
\* one has a value.  The code passes over the empty ones (session_cookie.rs:14) and picks it, so
\* session_id=; session_id=s1 is a session where the README says none.
OneSession ==
  stage \notin {"building", "arrived"} =>
    LET named == SessionCookies(request.cookies, request.secure)
        valued == ValuedCookies(request.cookies, request.secure) IN
    session = IF Cardinality(named) > 1 /\ Cardinality(valued) = 1
                THEN {request.cookies[n].value : n \in valued}
                ELSE DocumentedSession(request.cookies, request.secure)

\* README.md:34-39 of br-core-events: whoever asked is whom the answer names, of the same kind, under
\* the same correlation, however many hops later.
SameActorThroughout ==
  /\ wire = sent
  /\ \A n \in DOMAIN wire, p \in passport :
       wire[n].actor = ToActor(p) /\ wire[n].correlation = sent[1].correlation

IdentityHolds == OnePassport /\ BuiltArrives /\ ScopesAgree /\ OneSession /\ SameActorThroughout

-----------------------------------------------------------------------------
(* The inductive invariant *)

\* A builder has its fields, and either method of a human.
Builder(b) ==
  /\ DOMAIN b = {"id", "super", "active", "auth", "impersonator", "claims", "as"}
  /\ b.auth \in {"jwt", "pat"}

\* A passport of either kind has nothing that only the other has.
IsPassport(p) ==
  \/ /\ p = Human(p.id, p.super, p.active, p.auth, p.impersonator, p.claims)
     /\ p.auth \in {"jwt", "pat"}
  \/ p = Service(p.id, p.claims)

\* Metadata that names p.
Names(p, meta) ==
  meta = [actor |-> ToActor(p), correlation |-> meta.correlation, causation |-> meta.causation]

Typed ==
  /\ stage \in {"building", "arrived", "refused", "admitted", "commanded", "answered"}
  /\ response \in {"none", "text_unauthorized", "graphql_unauthorized"}
  /\ draft = {} \/ \E b \in draft : draft = {b} /\ Builder(b)
  /\ DOMAIN request = {"headers", "graphql", "cookies", "secure"}
  /\ request.cookies \in Seq([name : STRING, value : STRING])
  /\ passport = {} \/ \E p \in passport : passport = {p} /\ IsPassport(p)
  /\ session = {} \/ \E id \in session : session = {id}

\* What was built is in the header it was presented with.
Presented ==
  stage # "building" =>
    \A b \in draft :
      /\ b.as \in {"human", "service"}
      /\ request.headers = <<[is |-> "document", doc |-> ToHeader(Build(b, b.as = "service"))]>>

\* A passport is what the guard let through, with all that its header said.
Behind ==
  /\ passport # {} <=> stage \in {"admitted", "commanded", "answered"}
  /\ stage = "refused" <=> response # "none"
  /\ stage \in {"building", "arrived"} => session = {}
  /\ \A p \in passport : Head(request.headers).doc.has \subseteq ToHeader(p).has

\* The metadata of the command, and then of its answer.
OnItsWay ==
  /\ wire = sent
  /\ stage \notin {"commanded", "answered"} => sent = <<>>
  /\ \A p \in passport :
       /\ stage = "commanded" => sent = <<sent[1]>> /\ Names(p, sent[1])
       /\ stage = "answered" => /\ sent = <<sent[1], sent[2]>> /\ Names(p, sent[1]) /\ Names(p, sent[2])
                                /\ sent[2].correlation = sent[1].correlation

Inv == Typed /\ Presented /\ Behind /\ BuiltArrives /\ OneSession /\ OnItsWay
=============================================================================
