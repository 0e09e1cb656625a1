---------------------------- MODULE DatabaseBoot ----------------------------
(***************************************************************************)
(* How the replicas of services prepare their databases, as the two-role   *)
(* recipe of br-util-postgres orders it: ensure_app_role, the migrations   *)
(* (here the ledger of br-util-directory's migrate()), grant_app_access.   *)
(*                                                                         *)
(* Replicas boot together.  Those of one database take turns on advisory   *)
(* locks; roles belong to the whole cluster, so replicas of different      *)
(* databases collide in the catalog and retry.  A replica of release 0.1.0 *)
(* may still migrate through _sqlx_migrations, under another lock.         *)
(***************************************************************************)
EXTENDS Naturals

CONSTANTS
  Replica,
  Database,
  Home,         \* per replica, its database
  MaxVersion,   \* migrations are numbered 1..MaxVersion
  Sum,          \* checksums
  OldSum,       \* checksum of migration 1 in release 0.1.0
  Builds,       \* what a binary may embed: per version, its checksum or None
  None,
  MaxAttempts,  \* catalog_retry.rs
  MaxFaults     \* bound: failed calls, crashes, and restarts after any other failure

VARIABLES
  build,      \* per replica, the migrations it embeds
  step,       \* per replica: role, ledger, grant, ready, failed
  at,         \* per replica, in its transaction: out, begun, read, creating
  holder,     \* per database and step, who holds the advisory lock
  attempts,   \* per replica, attempts of its catalog step
  overlapped, \* another transaction on the same catalog rows has committed under this one
  beaten,     \* commits of other databases since the step's first attempt (history)
  recorded,   \* per replica, the ledger it has read
  next,       \* per replica, the version it is at
  ran,        \* versions whose SQL its open transaction has run
  noted,      \* versions its open transaction has recorded
  ledger,     \* _br_directory_migrations per database: checksum per version
  legacy,     \* _sqlx_migrations
  schema,     \* per database and version, the checksum of the SQL that made its tables
  old,        \* per database, its 0.1.0 migrator: out, in, gone
  why,        \* per replica, why its boot failed
  mishaps

dvars == <<build, step, at, holder, attempts, overlapped, beaten, recorded, next, ran, noted,
           ledger, legacy, schema, old, why, mishaps>>
tx == <<recorded, next, ran, noted>>
tables == <<ledger, legacy, schema>>

Version == 1..MaxVersion
Step == {"role", "ledger", "grant"}

Init ==
  /\ build \in [Replica -> Builds]
  /\ step = [r \in Replica |-> "role"]
  /\ at = [r \in Replica |-> "out"]
  /\ holder = [d \in Database |-> [s \in Step |-> None]]
  /\ attempts = [r \in Replica |-> 0]
  /\ overlapped = [r \in Replica |-> FALSE]
  /\ beaten = [r \in Replica |-> 0]
  /\ recorded = [r \in Replica |-> [v \in Version |-> None]]
  /\ next = [r \in Replica |-> 1]
  /\ ran = [r \in Replica |-> {}]
  /\ noted = [r \in Replica |-> {}]
  /\ ledger = [d \in Database |-> [v \in Version |-> None]]
  /\ legacy = [d \in Database |-> [v \in Version |-> None]]
  /\ schema = [d \in Database |-> [v \in Version |-> None]]
  /\ old = [d \in Database |-> "out"]
  /\ why = [r \in Replica |-> "none"]
  /\ mishaps = 0

-----------------------------------------------------------------------------
(* Transactions *)

\* mutant: the advisory lock is not taken
LockNothing(r) == UNCHANGED holder

\* lock_transaction_scope, ledger::lock: wait for the lock of the step in this database.
Lock(r) ==
  /\ holder[Home[r]][step[r]] = None
  /\ holder' = [holder EXCEPT ![Home[r]][step[r]] = r]

Begin(r) ==
  /\ step[r] \in Step /\ at[r] = "out"
  /\ Lock(r)
  /\ at' = [at EXCEPT ![r] = "begun"]
  /\ attempts' = [attempts EXCEPT ![r] = @ + 1]
  /\ overlapped' = [overlapped EXCEPT ![r] = FALSE]
  /\ UNCHANGED <<build, step, beaten, tx, tables, old, why, mishaps>>

\* The transaction ends, and its lock with it.
Unlock(r) == holder' = [d \in Database |-> [s \in Step |->
                          IF holder[d][s] = r THEN None ELSE holder[d][s]]]

Forget(r) ==
  /\ recorded' = [recorded EXCEPT ![r] = [v \in Version |-> None]]
  /\ next' = [next EXCEPT ![r] = 1]
  /\ ran' = [ran EXCEPT ![r] = {}]
  /\ noted' = [noted EXCEPT ![r] = {}]

Advance(r) ==
  /\ step' = [step EXCEPT ![r] = CASE step[r] = "role" -> "ledger"
                                   [] step[r] = "ledger" -> "grant"
                                   [] OTHER -> "ready"]
  /\ at' = [at EXCEPT ![r] = "out"]
  /\ attempts' = [attempts EXCEPT ![r] = 0]

\* The boot fails with an error of this kind.
GiveUp(r, reason) ==
  /\ step' = [step EXCEPT ![r] = "failed"]
  /\ at' = [at EXCEPT ![r] = "out"]
  /\ why' = [why EXCEPT ![r] = reason]
  /\ Unlock(r) /\ Forget(r)

-----------------------------------------------------------------------------
(* ensure_app_role and grant_app_access *)

\* Roles are rows of the cluster, grants rows of the database.
SameRows(r, q) == q # r /\ step[q] = step[r] /\ (step[r] = "role" \/ Home[q] = Home[r])

CommitCatalog(r) ==
  /\ step[r] \in {"role", "grant"} /\ at[r] = "begun"
  /\ Advance(r) /\ Unlock(r)
  /\ overlapped' = [q \in Replica |-> overlapped[q] \/ (SameRows(r, q) /\ at[q] = "begun")]
  /\ beaten' = [q \in Replica |-> IF q = r THEN 0
                                  ELSE IF SameRows(r, q) /\ attempts[q] > 0 /\ Home[q] # Home[r]
                                    THEN beaten[q] + 1 ELSE beaten[q]]
  /\ UNCHANGED <<build, tx, tables, old, why, mishaps>>

\* mutant: one attempt too many
TriesAgainLate(r) == attempts[r] <= MaxAttempts

\* attempts < MAX_ATTEMPTS, on DUPLICATE_OBJECT, UNIQUE_VIOLATION and INTERNAL_ERROR
TriesAgain(r) == attempts[r] < MaxAttempts

\* The other transaction's commit makes this one fail; after a pause it starts again.
Collide(r) ==
  /\ at[r] = "begun" /\ overlapped[r]
  /\ IF TriesAgain(r)
       THEN /\ at' = [at EXCEPT ![r] = "out"]
            /\ Unlock(r)
            /\ UNCHANGED <<step, why, tx>>
       ELSE GiveUp(r, "contention")
  /\ UNCHANGED <<build, attempts, overlapped, beaten, tables, old, mishaps>>

-----------------------------------------------------------------------------
(* migrate() of br-util-directory *)

\* ensure_table, and recorded_checksums.
ReadLedger(r) ==
  /\ step[r] = "ledger" /\ at[r] = "begun"
  /\ recorded' = [recorded EXCEPT ![r] = ledger[Home[r]]]
  /\ at' = [at EXCEPT ![r] = "read"]
  /\ UNCHANGED <<build, step, holder, attempts, overlapped, beaten, next, ran, noted, tables, old,
                 why, mishaps>>

\* Another open transaction has created the same tables: the statement waits for its end.
Creating(d, v) ==
  (v = 1 /\ old[d] = "in") \/ \E q \in Replica : Home[q] = d /\ v \in ran[q]

\* mutant: a legacy row is adopted whatever its checksum
AdoptsAny(r, v) == legacy[Home[r]][v] # None

\* adopted_from_legacy: a row of the same version and checksum that succeeded.
Adopts(r, v) == legacy[Home[r]][v] = build[r][v]

\* One turn of apply_pending, up to the migration's SQL: for a migration that is not
\* recorded, adopted_from_legacy looks once.
ApplyNext(r) ==
  LET v == next[r] IN
  /\ at[r] = "read" /\ v \in Version
  /\ \/ /\ build[r][v] = None \/ recorded[r][v] = build[r][v]
        /\ next' = [next EXCEPT ![r] = v + 1]
        /\ UNCHANGED <<step, at, holder, recorded, noted, ran, why>>
     \/ /\ build[r][v] # None /\ recorded[r][v] \notin {None, build[r][v]}
        /\ GiveUp(r, "mismatch")
     \/ /\ build[r][v] # None /\ recorded[r][v] = None
        /\ IF Adopts(r, v)
             THEN /\ noted' = [noted EXCEPT ![r] = @ \cup {v}]
                  /\ next' = [next EXCEPT ![r] = v + 1]
                  /\ UNCHANGED at
             ELSE /\ at' = [at EXCEPT ![r] = "creating"]
                  /\ UNCHANGED <<noted, next>>
        /\ UNCHANGED <<step, holder, recorded, ran, why>>
  /\ UNCHANGED <<build, attempts, overlapped, beaten, tables, old, mishaps>>

\* The SQL, plain CREATE TABLEs: it waits for whoever creates the same tables, and does not
\* look again.  What was committed since the look-up stops it, whatever its checksum.
RunSql(r) ==
  LET d == Home[r]
      v == next[r] IN
  /\ at[r] = "creating" /\ ~Creating(d, v)
  /\ \/ /\ schema[d][v] = None
        /\ ran' = [ran EXCEPT ![r] = @ \cup {v}]
        /\ noted' = [noted EXCEPT ![r] = @ \cup {v}]
        /\ next' = [next EXCEPT ![r] = v + 1]
        /\ at' = [at EXCEPT ![r] = "read"]
        /\ UNCHANGED <<step, holder, recorded, why>>
     \/ /\ schema[d][v] # None
        /\ GiveUp(r, "exists")
  /\ UNCHANGED <<build, attempts, overlapped, beaten, tables, old, mishaps>>

CommitLedger(r) ==
  LET d == Home[r] IN
  /\ at[r] = "read" /\ next[r] \notin Version
  /\ ledger' = [ledger EXCEPT ![d] = [v \in Version |-> IF v \in noted[r] THEN build[r][v] ELSE @[v]]]
  /\ schema' = [schema EXCEPT ![d] = [v \in Version |-> IF v \in ran[r] THEN build[r][v] ELSE @[v]]]
  /\ Advance(r) /\ Unlock(r) /\ Forget(r)
  /\ UNCHANGED <<build, overlapped, beaten, legacy, old, why, mishaps>>

-----------------------------------------------------------------------------
(* Release 0.1.0, sqlx's Migrator over _sqlx_migrations *)

OldBegins(d) ==
  /\ old[d] = "out"
  /\ ~Creating(d, 1)
  /\ old' = [old EXCEPT ![d] = IF schema[d][1] # None THEN "gone" ELSE "in"]
  /\ UNCHANGED <<build, step, at, holder, attempts, overlapped, beaten, tx, tables, why, mishaps>>

OldCommits(d) ==
  /\ old[d] = "in"
  /\ old' = [old EXCEPT ![d] = "gone"]
  /\ schema' = [schema EXCEPT ![d][1] = OldSum]
  /\ legacy' = [legacy EXCEPT ![d][1] = OldSum]
  /\ UNCHANGED <<build, step, at, holder, attempts, overlapped, beaten, tx, ledger, why, mishaps>>

\* Its transaction rolls back; it may be started again.
OldFails(d) ==
  /\ old[d] = "in"
  /\ mishaps < MaxFaults /\ mishaps' = mishaps + 1
  /\ old' = [old EXCEPT ![d] = "out"]
  /\ UNCHANGED <<build, step, at, holder, attempts, overlapped, beaten, tx, tables, why>>

-----------------------------------------------------------------------------
\* Any other error, or a crash: the transaction rolls back.
Mishap(r) ==
  /\ step[r] \in Step
  /\ mishaps < MaxFaults /\ mishaps' = mishaps + 1
  /\ GiveUp(r, "mishap")
  /\ UNCHANGED <<build, attempts, overlapped, beaten, tables, old>>

\* The orchestrator starts the replica again.
Restart(r) ==
  /\ step[r] = "failed"
  /\ \/ why[r] = "mishap" /\ UNCHANGED mishaps
     \/ why[r] # "mishap" /\ mishaps < MaxFaults /\ mishaps' = mishaps + 1
  /\ step' = [step EXCEPT ![r] = "role"]
  /\ why' = [why EXCEPT ![r] = "none"]
  /\ attempts' = [attempts EXCEPT ![r] = 0]
  /\ beaten' = [beaten EXCEPT ![r] = 0]
  /\ UNCHANGED <<build, at, holder, overlapped, tx, tables, old>>

Next ==
  \/ \E r \in Replica :
       \/ Begin(r) \/ CommitCatalog(r) \/ Collide(r)
       \/ ReadLedger(r) \/ ApplyNext(r) \/ RunSql(r) \/ CommitLedger(r)
       \/ Mishap(r) \/ Restart(r)
  \/ \E d \in Database : OldBegins(d) \/ OldCommits(d) \/ OldFails(d)

Spec == Init /\ [][Next]_dvars

-----------------------------------------------------------------------------
(* Properties *)

TypeOK ==
  /\ build \in [Replica -> Builds]
  /\ step \in [Replica -> Step \cup {"ready", "failed"}]
  /\ at \in [Replica -> {"out", "begun", "read", "creating"}]
  /\ holder \in [Database -> [Step -> Replica \cup {None}]]
  /\ attempts \in [Replica -> 0..MaxAttempts] /\ beaten \in [Replica -> Nat]
  /\ next \in [Replica -> 1..(MaxVersion + 1)]
  /\ ran \in [Replica -> SUBSET Version] /\ noted \in [Replica -> SUBSET Version]
  /\ ledger \in [Database -> [Version -> Sum \cup {None}]]
  /\ legacy \in [Database -> [Version -> Sum \cup {None}]]
  /\ schema \in [Database -> [Version -> Sum \cup {None}]]
  /\ why \in [Replica -> {"none", "contention", "mismatch", "exists", "mishap"}]

\* README.md:92-93 of br-util-postgres: safe to call from parallel replicas.  Replicas of
\* one database never use up each other's attempts: a replica that gives up has lost to
\* MaxAttempts commits of replicas on other databases.
ContentionIsForeign ==
  \A r \in Replica : why[r] = "contention" => beaten[r] >= MaxAttempts

\* A replica never fails because another one of its kind migrates: only a different checksum
\* in the ledger stops it, or a 0.1.0 replica, which takes another lock.  That one stops it
\* over another checksum, and also over the same one if it commits between the look-up in
\* _sqlx_migrations and the SQL that waited for it; a restart then adopts its row.
NobodyStopsAnother ==
  \A r \in Replica :
    /\ why[r] = "exists" => old[Home[r]] = "gone" /\ legacy[Home[r]][1] # None
    /\ why[r] = "mismatch" => \E q \in Replica : Home[q] = Home[r] /\ build[q] # build[r]

\* The ledger names what the schema has: whatever crashed, a recorded checksum is that of
\* the SQL that made the tables, and tables without a record are those of a 0.1.0 database
\* not yet adopted.
LedgerIsTheSchema ==
  \A d \in Database, v \in Version :
    /\ ledger[d][v] # None => ledger[d][v] = schema[d][v]
    /\ schema[d][v] # None => ledger[d][v] # None \/ legacy[d][v] # None

\* README.md:83-89 of br-util-directory: concurrent callers of migrate() are serialised, and
\* what one has recorded the others find done, whatever builds and restarts there are.
ParallelMigrationsAgree == NobodyStopsAnother /\ LedgerIsTheSchema

-----------------------------------------------------------------------------
(* The inductive invariant *)

Typed ==
  /\ TypeOK
  /\ overlapped \in [Replica -> BOOLEAN]
  /\ recorded \in [Replica -> [Version -> Sum \cup {None}]]
  /\ old \in [Database -> {"out", "in", "gone"}]

\* An open transaction holds the lock of its step.
LockHeld == \A r \in Replica : at[r] # "out" => step[r] \in Step /\ holder[Home[r]][step[r]] = r

\* What a transaction has read is what the ledger says, as long as it runs.
ReadsTheLedger ==
  \A r \in Replica :
    /\ at[r] \in {"read", "creating"} => step[r] = "ledger" /\ recorded[r] = ledger[Home[r]]
    /\ at[r] \notin {"read", "creating"} => noted[r] = {}
    /\ at[r] = "creating" => /\ next[r] \in Version
                             /\ build[r][next[r]] # None /\ recorded[r][next[r]] = None

\* What it has noted is either its own SQL, run where nothing was, or adopted.
NotedWithReason ==
  \A r \in Replica :
    /\ ran[r] \subseteq noted[r]
    /\ \A v \in noted[r] :
         /\ build[r][v] # None
         /\ v \in ran[r] => schema[Home[r]][v] = None /\ (v = 1 => old[Home[r]] # "in")
         /\ v \notin ran[r] => legacy[Home[r]][v] = build[r][v]

\* Every attempt that was in vain has lost to a replica of another database.
AttemptsCounted ==
  \A r \in Replica :
    step[r] \in Step =>
      /\ at[r] = "out" => attempts[r] < MaxAttempts /\ attempts[r] <= beaten[r]
      /\ at[r] = "begun" => /\ attempts[r] > 0 /\ attempts[r] <= beaten[r] + 1
                            /\ overlapped[r] => attempts[r] <= beaten[r]

FailedForAReason == \A r \in Replica : why[r] # "none" => step[r] = "failed"

\* Where the rows of a database come from.
TablesAgree ==
  /\ LedgerIsTheSchema
  /\ \A d \in Database, v \in Version :
       /\ ledger[d][v] # None => \E q \in Replica : Home[q] = d /\ build[q][v] = ledger[d][v]
       /\ legacy[d][v] # None => v = 1 /\ old[d] = "gone" /\ schema[d][v] = legacy[d][v]
  /\ \A d \in Database : old[d] = "in" => schema[d][1] = None

Inv ==
  /\ Typed /\ LockHeld /\ ReadsTheLedger /\ NotedWithReason /\ AttemptsCounted
  /\ FailedForAReason /\ ContentionIsForeign /\ NobodyStopsAnother /\ TablesAgree
=============================================================================
