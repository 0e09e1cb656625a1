------------------------------ MODULE MCInputs ------------------------------
(* The inputs that MCComponents gives to the parts that start from one.    *)
EXTENDS Integers, Sequences, FiniteSets, TLC

-----------------------------------------------------------------------------
(* ServiceBoot *)

Unset == [is |-> "unset"]
Empty == [is |-> "empty"]
NotUnicode == [is |-> "not_unicode"]
SetAs(value) == [is |-> "set", value |-> value]

Pair(key, value) == [key |-> key, value |-> value]
UrlOf(scheme, user, password, host, query) ==
  [readable |-> TRUE, scheme |-> scheme, user |-> user, password |-> password, host |-> host,
   query |-> query]
NoUrl == [UrlOf("", "", "", "", <<>>) EXCEPT !.readable = FALSE]

Queries ==
  {<<>>, <<Pair("password", "secret")>>, <<Pair("sslmode", "require")>>,
   <<Pair("sslmode", "require"), Pair("ssl-mode", "disable")>>, <<Pair("sslmode", "sometimes")>>,
   <<Pair("host", "remote"), Pair("password", "secret")>>,
   <<Pair("sslmode", "prefer"), Pair("hostaddr", "localhost")>>}
GoodDsn == UrlOf("postgresql", "app", "secret", "segment", <<Pair("sslmode", "verify-full")>>)
Dsns == {UrlOf("postgres", "app", "secret", host, query) : host \in {"localhost", "segment", "remote", "[::1]"},
                                                          query \in Queries}
BadDsns == {NoUrl, UrlOf("mysql", "app", "secret", "localhost", <<>>),
            UrlOf("postgres", "app", "", "", <<>>)}
GoodNats == UrlOf("nats", "secret", "", "broker", <<>>)

GoodEnvironment ==
  "ENVIRONMENT" :> SetAs("prod") @@ "HOST" :> Unset @@ "PORT" :> SetAs(65535)
  @@ "DATABASE_URL" :> SetAs(GoodDsn) @@ "NATS_URL" :> SetAs(GoodNats)
  @@ "DATABASE_URL_OWNER" :> Unset @@ "TRUSTED_NETWORK_HOSTS" :> Unset

Environments ==
  {[GoodEnvironment EXCEPT !["ENVIRONMENT"] = name, !["HOST"] = host, !["PORT"] = port,
                           !["NATS_URL"] = nats] :
     name \in {Unset, Empty, SetAs("local"), SetAs("Local")},
     host \in {Unset, Empty, SetAs("address"), SetAs("name")},
     port \in {NotUnicode, SetAs(0), SetAs(1), SetAs(65536)},
     nats \in {SetAs(NoUrl), SetAs(UrlOf("nats", "user", "secret", "broker", <<>>)),
               SetAs([GoodNats EXCEPT !.scheme = "http"])}}
  \cup {[GoodEnvironment EXCEPT !["DATABASE_URL"] = dsn, !["DATABASE_URL_OWNER"] = owner,
                                !["TRUSTED_NETWORK_HOSTS"] = trusted] :
     dsn \in {Unset} \cup {SetAs(url) : url \in Dsns \cup BadDsns},
     owner \in {Unset, Empty, NotUnicode, SetAs(GoodDsn)},
     trusted \in {Unset, Empty, SetAs({"segment"})}}

Up(v, sum) == [version |-> v, down |-> FALSE, sum |-> sum]
Down(v) == [version |-> v, down |-> TRUE, sum |-> "down"]
EmbeddedSets == {{Up(1, "one")}, {Up(1, "one"), Up(2, "two"), Down(2)}}
Databases ==
  {[rows |-> rows, dirty |-> dirty] : dirty \in BOOLEAN,
     rows \in {<<>>, <<"one">>, <<"one", "two">>, <<"one", "other">>, 2 :> "two"}}

RoleNames ==
  {<<>>, <<"a-z">>, <<"a-z", "underscore">>, <<"A-Z">>, <<"0-9", "a-z">>, <<"a-z", "dquote">>,
   <<"a-z", "a-z", "0-9">>}
RolePasswords == {<<>>, <<"secret">>, <<"secret", "NUL">>, <<"quote", "secret">>}

-----------------------------------------------------------------------------
(* IntegrationBus *)

RawOf(class, fact) ==
  [class |-> class, owner |-> <<"iam">>, aggregate |-> <<"user">>, fact |-> fact, version |-> "v1"]
Made == RawOf("evt", <<"made">>)
Gone == RawOf("evt", <<"gone">>)
Words == {"iam", "user", "made", "gone", "a", "b"}
RawCoords ==
  {Made, Gone, RawOf("evt", <<"*">>), RawOf("evt", <<"">>), RawOf("cmd", <<"made">>),
   [Made EXCEPT !.aggregate = <<"a", "b">>]}
WishedCoords == {{}, {Made, Gone}}

Absent == [present |-> FALSE, subjects |-> {}]
On(subjects) == [present |-> TRUE, subjects |-> subjects]
EventsAlone ==
  [evt |-> On({<<"integration", "evt", ">">>}), cmd |-> Absent]
OddPatterns ==
  [evt |-> On({<<"integration", "evt", "*">>, <<"integration", ">", "v1">>,
               <<"integration", "evt", "iam", "user", "gone", "v1", ">">>}),
   cmd |-> On({<<"integration", "*", "iam", "user", "made", "*">>})]
BoundStreams == {EventsAlone, OddPatterns}

-----------------------------------------------------------------------------
(* ScopeRegistry *)

Segment(name, len) == [name |-> name, len |-> len, plain |-> TRUE]
Unnamed == Segment("", 0)
Odd == [name |-> "Odd", len |-> 3, plain |-> FALSE]
Iam == Segment("iam", 64)
Crm == Segment("crm", 3)
Long == Segment("long", 65)
View == Segment("view", 63)
Edit == Segment("edit", 64)

ScopeSpec(service, capability) == [key |-> <<service, capability>>, label |-> "l1"]
Relabelled(spec) == [spec EXCEPT !.label = "l2"]
Declare(key, label, scopes) == [manifest |-> [key |-> key, label |-> label], scopes |-> scopes]
RegistrySegments == {Unnamed, Odd, Iam, Crm, Long, View, Edit}
RegistrySentinel == <<Segment("unrepresentable_service", 23)>>

Declarations ==
  {Declare(<<Iam>>, label, scopes) : label \in {"l1", "l2"}, scopes \in {<<>>, <<ScopeSpec(Iam, View)>>}}
  \cup {Declare(key, "l1", <<>>) : key \in {<<Long>>, <<Unnamed>>, <<Odd>>, <<Iam, View>>}}
  \cup {Declare(<<Crm>>, "l1", scopes) : scopes \in
          {<<ScopeSpec(Crm, View), Relabelled(ScopeSpec(Crm, Edit))>>, <<ScopeSpec(Crm, Edit)>>,
           <<ScopeSpec(Crm, View), ScopeSpec(Iam, View)>>, <<ScopeSpec(Crm, View), Relabelled(ScopeSpec(Crm, View))>>,
           <<ScopeSpec(Crm, Unnamed)>>, <<ScopeSpec(Crm, Odd)>>,
           <<[ScopeSpec(Crm, View) EXCEPT !.key = <<Crm>>]>>,
           <<[ScopeSpec(Crm, View) EXCEPT !.key = <<Crm, View, Edit>>]>>}}
  \cup {Declare(<<Iam>>, "l1", <<ScopeSpec(Iam, Edit)>>), Declare(<<Long>>, "l1", <<ScopeSpec(Long, Crm)>>)}

-----------------------------------------------------------------------------
(* Identities *)

ViewKey == <<Crm, View>>
EditKey == <<Crm, Edit>>
NoScopes == [scopes |-> [is |-> "absent", list |-> <<>>]]
Claims ==
  {[scopes |-> [is |-> "strings", list |-> list]] : list \in {<<>>, <<<<Crm>>, ViewKey>>, <<EditKey>>}}
  \cup {[scopes |-> [is |-> kind, list |-> <<ViewKey>>]] : kind \in {"mixed", "absent"}}
Human == {"kind", "user_id", "is_super_admin", "is_active", "auth_method", "claims"}
Machine == {"kind", "service_account_id", "claims"}
AuthOf(method, has, bad) == [method |-> method, has |-> has, bad |-> bad]
Auths ==
  {AuthOf("jwt", {"method"}, {}), AuthOf("jwt", {"method", "token_id"}, {}),
   AuthOf("pat", {"method"}, {}), AuthOf("pat", {"method", "token_id"}, {}),
   AuthOf("pat", {"method", "token_id"}, {"token_id"}), AuthOf("basic", {"method"}, {})}
Documents ==
  {[kind |-> kind, has |-> has, bad |-> bad, id |-> "u1", super |-> TRUE, active |-> TRUE,
    auth |-> auth, impersonator |-> impersonator, claims |-> claims] :
     kind \in {"human", "service", "robot"},
     has \in {Human, Human \cup {"impersonator"}, Human \ {"claims"}, Human \cup {"x"}, Machine,
              Machine \cup {"impersonator"}},
     bad \in {{}, {"user_id"}}, auth \in Auths, impersonator \in {"none", "a1"},
     claims \in {[is |-> "object", map |-> claims] : claims \in Claims}
               \cup {[is |-> "null", map |-> NoScopes]}}
ADocument == CHOOSE doc \in Documents : doc.has = Machine /\ doc.kind = "service" /\ doc.bad = {}

HeaderOf(doc) == [is |-> "document", doc |-> doc]
Garbled(how) == [is |-> how, doc |-> ADocument]
Cookie(name, value) == [name |-> name, value |-> value]
Jars ==
  {<<>>, <<Cookie("session_id", "s1")>>, <<Cookie("session_id", ""), Cookie("session_id", "s1")>>,
   <<Cookie("session_id", "s1"), Cookie("__Host-session_id", "s2")>>,
   <<Cookie("session_id", "s1"), Cookie("session_id", "s2")>>}
Request(headers, graphql, cookies, secure) ==
  [headers |-> headers, graphql |-> graphql, cookies |-> cookies, secure |-> secure]
IncomingRequests ==
  {Request(<<HeaderOf(doc)>>, FALSE, <<>>, TRUE) : doc \in Documents}
  \cup {Request(headers, graphql, cookies, secure) :
          headers \in {<<>>, <<Garbled("empty")>>, <<Garbled("binary"), HeaderOf(ADocument)>>,
                       <<Garbled("not_base64")>>, <<HeaderOf(ADocument)>>},
          graphql \in BOOLEAN, cookies \in Jars, secure \in BOOLEAN}

-----------------------------------------------------------------------------
(* ValueEdge *)

Texts == {<<>>, <<"x">>, <<" ", "x", " ", "x", " ">>}
Uppercase == "e" :> <<"E">> @@ "u" :> <<"U">> @@ "r" :> <<"R">> @@ "f" :> <<"F">> @@ "sz" :> <<"S", "S">>

WrittenAs(is, text) == [is |-> is, text |-> text]
Products ==
  {[locales |-> {1, 2}, writes |-> <<WrittenAs(is, english), WrittenAs("unit_variant", "fr")>>,
    reads |-> "en" :> 1 @@ "En" :> 1 @@ "fr" :> french, as_wire |-> as, from_wire |-> from] :
     is \in {"str", "newtype_struct", "u64"}, english \in {"en", "En"}, french \in {1, 2},
     as \in {<<"en", "fr">>, <<"En", "FR">>}, from \in {"en" :> 1 @@ "En" :> 1 @@ "fr" :> 2, "En" :> 1 @@ "fr" :> 1}}

TextEntry(locale, content) == [locale |-> locale, content |-> content]
TextInput(primary, entries) == [kind |-> "localized", primary |-> primary, entries |-> entries]
TextInputs ==
  {TextInput(primary, entries) : primary \in {"en", "En", "xx"}, entries \in
     {<<>>} \cup {<<TextEntry(locale, <<" ", "x">>)>> : locale \in {"en", "En", "fr", "yy"}}
     \cup {<<TextEntry(a, <<"x">>), TextEntry(b, <<" ">>)>> : a, b \in {"en", "En", "fr"}}}
MoneyInput(amount, currency) == [kind |-> "money", amount |-> amount, currency |-> currency]
CurrencyTexts == {<<" ", "e", "U", "r">>, <<"R", "U", "R">>, <<"e", "1", "r">>, <<"E", "U">>}
ClientInputs ==
  TextInputs \cup {MoneyInput(amount, currency) : amount \in {-3, -2, 0, 1, 2}, currency \in CurrencyTexts}
StoredDocuments ==
  {[kind |-> "localized", body |-> body] : body \in TextInputs}
  \cup {[kind |-> "content", format |-> "md", body |-> body] : body \in TextInputs}
  \cup {MoneyInput(0, currency) : currency \in CurrencyTexts}
  \cup {[kind |-> "country", code |-> code] : code \in {<<"sz">>, <<"f", "R", " ">>, <<"U", "S">>, <<"f">>}}

-----------------------------------------------------------------------------
(* ServiceEdge *)

Target(path, template) == [method |-> "GET", path |-> path, template |-> template]
EdgeTargets == {Target("/readyz", "/readyz"), Target("/users/7", "/users/{id}"), Target("/7", "none")}
Field(name, kind, value) == [name |-> name, kind |-> kind, value |-> value]
EventsLogged ==
  {[level |-> "INFO", fields |-> fields] : fields \in
     {<<Field("message", "debug", "m"), Field("level", "str", "l"), Field("message", "str", "n"),
        Field("port", "number", "1"), Field("port", "number", "NaN")>>,
      <<Field("message", "number", "NaN"), Field("msg", "str", "m"), Field("ts", "error", "t")>>}}

-----------------------------------------------------------------------------
(* DirectoryReaders *)

Str(text) == [is |-> "string", value |-> text]
JsonNull == [is |-> "null", value |-> ""]
Ids(list) == [is |-> "ids", value |-> list]
CoreFields ==
  [users |-> {"email" :> Str("a"), "email" :> Str("b") @@ "last_name" :> Str("l")},
   groups |-> {"name" :> Str("a") @@ "member_ids" :> Ids(list) : list \in {<<"i1", "i2", "i1">>, <<"i2">>}},
   service_accounts |-> {"name" :> Str("a")}]
ExtensionMaps ==
  {[name \in {} |-> ""], "last_name" :> Str("x") @@ "locale" :> Str("en") @@ "name" :> Str("x")}
Entry(kind, id, bag) == [key |-> <<"identity", kind, id>>, bag |-> bag]
ForeignEntries ==
  {Entry("users", "i1", "email" :> Str("f") @@ "first_name" :> JsonNull @@ "avatar" :> JsonNull),
   Entry("users", "i1", "email" :> JsonNull),
   Entry("groups", "i1", "name" :> Str("g") @@ "member_ids" :> Ids(<<>>) @@ "email" :> Str("x")),
   Entry("groups", "i2", "name" :> Str("g") @@ "member_ids" :> Str("i1")),
   Entry("service_accounts", "robot", "name" :> Str("g"))}
RosterManifests == {{"users"}, {"users", "groups"}, {"users", "groups", "service_accounts", "rooms"}}

Directory(name, len) == <<Segment("identity", 8), Segment(name, len)>>
KeyOf(text, len, blank) == [text |-> text, len |-> len, blank |-> blank]
DependencyNames ==
  {[namespace |-> namespace, key |-> KeyOf("i1", 36, FALSE)] : namespace \in
     {Directory("user", 4), Directory("group", 5), Directory("rest", 56)}}
  \cup {[namespace |-> Directory("user", 4), key |-> KeyOf("long", 257, FALSE)]}
=============================================================================
