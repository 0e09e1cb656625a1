----------------------------- MODULE ServiceBoot -----------------------------
(***************************************************************************)
(* What one replica decides before it serves: BootEnv::from_lookup over    *)
(* the process environment (br-util-boot), the migration pool on the       *)
(* owner's DSN, the role of the runtime, the migrations gate, and the pool *)
(* on the runtime DSN (br-util-postgres).  DatabaseBoot has what replicas  *)
(* do to each other.                                                       *)
(*                                                                         *)
(* A URL is what its parser yields: scheme, host, user, password and query *)
(* pairs; `readable` is FALSE for text that is no URL.  A role name, a     *)
(* password and a statement are sequences of the characters that matter.   *)
(***************************************************************************)
EXTENDS Naturals, Sequences, FiniteSets, SequencesExt

CONSTANTS
  Environments,  \* environments a process may find: per variable, a raw value
  Databases,     \* states of the database: its migration rows and dirty version
  Embedded,      \* the migrations of the binary: sets of [version, down, sum]
  Loopback,      \* localhost, 127.0.0.1, ::1
  Bare,          \* hosts in brackets, and the addresses in them
  NoText,        \* "", as the user, the password or the host of a URL
  Secret,        \* any password or token
  Masked,        \* ***
  RoleNames, MaxRoleName,
  Passwords,     \* the Secret, alone or with other characters; <<>>
  Keys           \* per password, the two keys derived from it

VARIABLES
  environ,    \* the environment
  database,   \* [rows, dirty]
  embedded,   \* what this binary embeds
  stage,      \* start, read, owner, migrated, serving, refused
  got,        \* variables that BootEnv holds
  refusal,    \* the BootEnvError, if there is one
  connected,  \* DSNs a pool was opened on
  sent,       \* statements ensure_app_role sent
  logged      \* URLs that were formatted

vars == <<environ, database, embedded, stage, got, refusal, connected, sent, logged>>

ReadOrder == <<"ENVIRONMENT", "HOST", "PORT", "DATABASE_URL", "NATS_URL">>
Spellings == {"local", "dev", "test", "uat", "prod"}

Init ==
  /\ environ \in Environments
  /\ database \in Databases
  /\ embedded \in Embedded
  /\ stage = "start"
  /\ got = {}
  /\ refusal = {}
  /\ connected = {}
  /\ sent = {}
  /\ logged = {}

-----------------------------------------------------------------------------
(* URLs *)

Url(v) == environ[v].value
SetTo(v) == environ[v].is = "set"
ValuesOf(url, keys) == SelectSeq(url.query, LAMBDA pair : pair.key \in keys)

\* DatabaseUrl::from_str
IsDsn(url) == url.readable /\ url.scheme \in {"postgres", "postgresql"} /\ url.host # NoText
\* NatsUrl::from_str: a bare host:port is no URL
IsNatsUrl(url) == url.readable /\ url.scheme \in {"nats", "tls", "ws", "wss"} /\ url.host # NoText

\* mutant: the password that travels as a query parameter is left
DatabaseRedactedHalf(url) == [url EXCEPT !.password = IF @ = Secret THEN Masked ELSE @]

\* DatabaseUrl::redacted: the authority's password and every password parameter.
DatabaseRedacted(url) ==
  [url EXCEPT !.password = IF @ = Secret THEN Masked ELSE @,
              !.query = [n \in DOMAIN @ |-> IF @[n].key = "password"
                                             THEN [@[n] EXCEPT !.value = Masked] ELSE @[n]]]

\* NatsUrl::redacted: the whole user information, which may be a token.
NatsRedacted(url) ==
  IF url.user # NoText \/ url.password # NoText
    THEN [url EXCEPT !.password = NoText, !.user = Masked] ELSE url

-----------------------------------------------------------------------------
(* BootEnv::from_lookup *)

\* str::parse, parse_host, parse_port
Parses(v, value) ==
  CASE v = "ENVIRONMENT" -> value \in Spellings
    [] v = "HOST" -> value = "address"
    [] v = "PORT" -> value \in 1..65535
    [] v = "DATABASE_URL" -> IsDsn(value)
    [] v = "NATS_URL" -> IsNatsUrl(value)

\* mutant: the whole URL is in the words
InvalidValueWhole(v, value) == {<<v, "value">>}

\* InvalidValue: what its words quote.  A plain variable is quoted whole; a URL never, but of
\* one with a foreign scheme the scheme is.
InvalidValue(v, value) ==
  CASE v \in {"ENVIRONMENT", "HOST", "PORT"} -> {<<v, "value">>}
    [] v = "DATABASE_URL" ->
         IF value.readable /\ value.scheme \notin {"postgres", "postgresql"} THEN {<<v, "scheme">>} ELSE {}
    [] v = "NATS_URL" ->
         IF value.readable /\ value.scheme \notin {"nats", "tls", "ws", "wss"} THEN {<<v, "scheme">>} ELSE {}

\* VarProblem: Missing, Empty, NotUnicode, or Invalid with its reason.
VarProblem(v, kind, reason) == [var |-> v, kind |-> kind, reason |-> reason]

\* BootEnvError: the problems in order, and all that their line of text quotes.
BootEnvError(found) ==
  [problems |-> found, quotes |-> UNION {found[n].reason : n \in DOMAIN found}]

\* Reader::lookup, required, optional and parse: one variable, with what it pushes.
ReadVar(reader, v) ==
  LET raw == environ[v]
      refuse(kind, reason) ==
        [reader EXCEPT !.problems = Append(@, VarProblem(v, kind, reason))]
      take == [reader EXCEPT !.got = @ \cup {v}] IN
  CASE raw.is = "unset" -> IF v = "HOST" THEN take ELSE refuse("missing", {})
    [] raw.is \in {"empty", "not_unicode"} -> refuse(raw.is, {})
    [] raw.is = "set" ->
         IF Parses(v, raw.value) THEN take ELSE refuse("invalid", InvalidValue(v, raw.value))

FromLookup == FoldLeft(ReadVar, [got |-> {}, problems |-> <<>>], ReadOrder)

ReadEnv ==
  /\ stage = "start"
  /\ LET all == FromLookup IN
     /\ got' = all.got
     /\ IF all.got = ToSet(ReadOrder)
          THEN /\ stage' = "read"
               /\ logged' = {DatabaseRedacted(Url("DATABASE_URL")), NatsRedacted(Url("NATS_URL"))}
               /\ UNCHANGED refusal
          ELSE /\ stage' = "refused"
               /\ refusal' = {BootEnvError(all.problems)}
               /\ UNCHANGED logged
  /\ UNCHANGED <<environ, database, embedded, connected, sent>>

-----------------------------------------------------------------------------
(* validate_database_tls *)

Overrides(url) == ValuesOf(url, {"host", "hostaddr"})

\* mutant: the host parameter is not looked at
OverridesNever(url) == FALSE

OverridesHost(url) == Overrides(url) # <<>>

\* What sqlx makes of sslmode and ssl-mode: the last wins, prefer by default.
SslMode(url) ==
  LET modes == ValuesOf(url, {"sslmode", "ssl-mode"}) IN
  IF modes = <<>> THEN "prefer" ELSE Last(modes).value

\* parse_sslmode fails on a mode it does not know.
ModeReadable(url) ==
  \A n \in DOMAIN url.query :
    url.query[n].key \in {"sslmode", "ssl-mode"} =>
      url.query[n].value \in {"disable", "allow", "prefer", "require", "verify-ca", "verify-full"}

HasTls(url) == SslMode(url) \in {"require", "verify-ca", "verify-full"}

\* resolve_trusted_network_hosts: the names between the commas, none if it is not set.
Trusted == IF SetTo("TRUSTED_NETWORK_HOSTS") THEN Url("TRUSTED_NETWORK_HOSTS") ELSE {}

\* Dsn::parse makes the same demands as the boot environment.
DsnParses(url) == url.readable /\ url.scheme \in {"postgres", "postgresql"} /\ url.host # NoText

\* Dsn::host: an IPv6 address without the brackets of the authority.
DsnHost(url) == IF url.host \in DOMAIN Bare THEN Bare[url.host] ELSE url.host

ValidTls(url) ==
  /\ DsnParses(url) /\ ~OverridesHost(url) /\ ModeReadable(url)
  /\ DsnHost(url) \in Loopback \/ DsnHost(url) \in Trusted \/ HasTls(url)

\* The host sqlx connects to, a parameter before the authority.
Target(url) == IF Overrides(url) # <<>> THEN Last(Overrides(url)).value ELSE DsnHost(url)

-----------------------------------------------------------------------------
(* init_migration_pool *)

\* DATABASE_URL_OWNER, or DATABASE_URL if it cannot be read; an empty one is taken.
MigrationVar ==
  IF environ["DATABASE_URL_OWNER"].is \in {"empty", "set"} THEN "DATABASE_URL_OWNER"
                                                           ELSE "DATABASE_URL"

\* init_pool, and init_migration_pool on its DSN: validated, then connected.
OpenPool(v) ==
  IF SetTo(v) /\ ValidTls(Url(v)) THEN connected' = connected \cup {Url(v)}
                                  ELSE UNCHANGED connected

OpenMigrationPool ==
  /\ stage = "read"
  /\ OpenPool(MigrationVar)
  /\ stage' = IF SetTo(MigrationVar) /\ ValidTls(Url(MigrationVar)) THEN "owner" ELSE "refused"
  /\ UNCHANGED <<environ, database, embedded, got, refusal, sent, logged>>

-----------------------------------------------------------------------------
(* ensure_app_role *)

\* mutant: any name that is short enough
ValidRoleLoose(name) == Len(name) \in 1..MaxRoleName

\* validate_role_name: [a-z][a-z0-9_]*, at most 63 bytes
ValidRole(name) ==
  Len(name) \in 1..MaxRoleName /\ name[1] = "a-z" /\ ToSet(name) \subseteq {"a-z", "0-9", "underscore"}

\* postgres_protocol: iterations, a random salt, and the two keys derived from the password
KeysOf(password) == Keys[password]
Scram(password) == <<"SCRAM-SHA-256$", "4096:", "salt", "$", KeysOf(password)>>

SafeVerifier(verifier) ==
  /\ verifier[1] = "SCRAM-SHA-256$"
  /\ ToSet(Tail(verifier)) \subseteq {"4096:", "salt", "$"} \cup {KeysOf(p) : p \in Passwords}

\* The verifiers a password has: none if it is empty or holds a NUL.
ScramVerifier(password) ==
  IF password = <<>> \/ "NUL" \in ToSet(password) THEN {}
                                                  ELSE {v \in {Scram(password)} : SafeVerifier(v)}

\* alter_role_verifier_sql: name and verifier between quotes that nothing escapes
AlterRole(name, verifier) ==
  IF ValidRole(name) /\ SafeVerifier(verifier)
    THEN {<<"ALTER_ROLE", "dquote">> \o name \o <<"dquote", "PASSWORD", "quote">> \o verifier \o <<"quote">>}
    ELSE {}

\* Everything is judged before the first statement; DatabaseBoot has its transaction.
EnsureAppRole ==
  /\ stage = "owner"
  /\ \E name \in RoleNames, password \in Passwords :
       sent' = IF ValidRole(name) THEN UNION {AlterRole(name, v) : v \in ScramVerifier(password)}
                                  ELSE {}
  /\ stage' = IF sent' # {} THEN "migrated" ELSE "refused"
  /\ UNCHANGED <<environ, database, embedded, got, refusal, connected, logged>>

-----------------------------------------------------------------------------
(* MigrationsStatus *)

\* mutant: the down half of a reversible migration is looked for in the table
UpsAll == embedded

\* compare skips the down half of a reversible migration
Ups == {m \in embedded : ~m.down}

Applied(v) == v \in DOMAIN database.rows
Pending == {m.version : m \in {m \in Ups : ~Applied(m.version)}}
ChecksumMismatch ==
  {m.version : m \in {m \in Ups : Applied(m.version) /\ database.rows[m.version] # m.sum}}
AppliedNotEmbedded == DOMAIN database.rows \ {m.version : m \in embedded}

\* MigrationsStatus::embedded_applied, is_current
EmbeddedApplied == Pending = {} /\ ChecksumMismatch = {} /\ ~database.dirty
IsCurrent == EmbeddedApplied /\ AppliedNotEmbedded = {}

\* The gate of the readiness probe (README.md:109-124), then the runtime pool.
Serve ==
  /\ stage = "migrated"
  /\ IF IsCurrent
       THEN /\ OpenPool("DATABASE_URL")
            /\ stage' = IF ValidTls(Url("DATABASE_URL")) THEN "serving" ELSE "refused"
       ELSE stage' = "refused" /\ UNCHANGED connected
  /\ UNCHANGED <<environ, database, embedded, got, refusal, sent, logged>>

Next == ReadEnv \/ OpenMigrationPool \/ EnsureAppRole \/ Serve

Spec == Init /\ [][Next]_vars

-----------------------------------------------------------------------------
(* Properties *)

TypeOK ==
  /\ environ \in Environments /\ database \in Databases /\ embedded \in Embedded
  /\ stage \in {"start", "read", "owner", "migrated", "serving", "refused"}
  /\ got \subseteq ToSet(ReadOrder)
  /\ \A e \in refusal : \A n \in DOMAIN e.problems :
       e.problems[n].kind \in {"missing", "empty", "not_unicode", "invalid"}

\* The place of a variable in the reading order
Turn(v) == CHOOSE n \in DOMAIN ReadOrder : ReadOrder[n] = v

\* README.md:48-54 of br-util-boot: a refusal has exactly the variables that cannot be used,
\* each once and in reading order; a configuration has none of them.
EveryProblemOnce ==
  /\ \A e \in refusal :
       /\ {e.problems[n].var : n \in DOMAIN e.problems} = ToSet(ReadOrder) \ got
       /\ \A m, n \in DOMAIN e.problems : m < n => Turn(e.problems[m].var) < Turn(e.problems[n].var)
       /\ e.problems # <<>> /\ stage = "refused"
  /\ stage # "start" /\ refusal = {} => got = ToSet(ReadOrder)

\* README.md:47-53 of br-util-postgres: what a pool connects to is on this machine, on a
\* declared segment, or encrypted, whatever the DSN's parameters say.
NoRemotePlaintext ==
  \A url \in connected : Target(url) \in Loopback \cup Trusted \/ HasTls(url)

\* README.md:52-53 of br-util-boot: no credential in what is formatted, and a refusal quotes no
\* value that may hold one, however wrong it is.
SecretsStayIn ==
  /\ \A e \in refusal : {<<"DATABASE_URL", "value">>, <<"NATS_URL", "value">>} \cap e.quotes = {}
  /\ \A url \in logged :
       /\ url.password # Secret
       /\ url.scheme \in {"nats", "tls"} => url.user # Secret
       /\ \A n \in DOMAIN url.query : url.query[n].key = "password" => url.query[n].value # Secret

\* README.md:92 of br-util-postgres: the clear password never reaches Postgres, one that is
\* refused leads to no statement, and a statement has the two literals it was written with.
RoleStatementIsPlain ==
  \A s \in sent :
    /\ \A quote \in {"dquote", "quote"} : Cardinality({n \in DOMAIN s : s[n] = quote}) = 2
    /\ Secret \notin ToSet(s)
    /\ \A p \in Passwords : KeysOf(p) \in ToSet(s) => p # <<>> /\ "NUL" \notin ToSet(p)

\* README.md:124-141 of br-util-postgres: a replica serves only over a database with exactly
\* its own migrations, reversible ones included.
ServesItsSchema ==
  /\ stage = "serving" =>
       ~database.dirty /\ database.rows = [v \in {m.version : m \in Ups} |->
                                            (CHOOSE m \in Ups : m.version = v).sum]
  /\ stage = "refused" /\ sent # {} /\ ValidTls(Url("DATABASE_URL")) =>
       \/ database.dirty
       \/ \E m \in embedded : ~m.down /\ (m.version \in DOMAIN database.rows =>
                                           database.rows[m.version] # m.sum)
       \/ \E v \in DOMAIN database.rows : \A m \in embedded : m.version # v

-----------------------------------------------------------------------------
(* The inductive invariant *)

\* A role is given its password after the first pool, and never before.
Inv ==
  /\ TypeOK
  /\ stage \in {"start", "read", "owner"} => sent = {}
  /\ EveryProblemOnce /\ NoRemotePlaintext /\ SecretsStayIn /\ RoleStatementIsPlain
  /\ ServesItsSchema

\* What an environment may hold: a URL has its parts, and the credentials of one of NATS are the
\* user information.
IsEnvironment(env) ==
  /\ \A v \in ToSet(ReadOrder) : env[v].is \in {"unset", "empty", "not_unicode", "set"}
  /\ \A v \in {"DATABASE_URL", "NATS_URL"} : env[v].is = "set" =>
       DOMAIN env[v].value = {"readable", "scheme", "user", "password", "host", "query"}
  /\ env["NATS_URL"].is = "set" =>
       \A n \in DOMAIN env["NATS_URL"].value.query : env["NATS_URL"].value.query[n].key # "password"

\* The words of a statement and the characters a role's name may have
Words ==
  {"ALTER_ROLE", "PASSWORD", "dquote", "quote", "SCRAM-SHA-256$", "4096:", "salt", "$",
   "a-z", "0-9", "underscore"}

\* A version names one migration, the down half of which does not come alone.
IsBinary(migrations) ==
  /\ \A m, n \in migrations : m.version = n.version /\ ~m.down /\ ~n.down => m = n
  /\ \A m \in migrations : \E n \in migrations : n.version = m.version /\ ~n.down
=============================================================================
