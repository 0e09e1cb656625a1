------------------------- MODULE DirectoryProjection -------------------------
(***************************************************************************)
(* The consumer side of br-util-directory: replicas of a service, each     *)
(* with a DirectoryProjector (reconcile(), then watch(), restarted by a    *)
(* supervisor when either fails), project the identity roster into the     *)
(* known_* tables of the one database they share.  A group is recomposed   *)
(* into membership rows under its row lock, and the adopter's stager puts  *)
(* the impacts of a write into the transaction of the write.               *)
(*                                                                         *)
(* The adopter is one that keeps, per user, state derived from its         *)
(* memberships, and recomputes it from nothing but the impacts.            *)
(***************************************************************************)
EXTENDS FiniteSets, Naturals, Sequences

CONSTANTS
  Replica,
  User, Account, Group,  \* keys of the roster
  Content,    \* what a user's or an account's columns may hold
  Copied,     \* user contents that pass filter_users
  Name,       \* group names
  Nothing,    \* no row; an absent or deleted key
  NoOne,      \* a row nobody has locked
  MaxWrites,  \* bound: publications
  MaxFaults   \* bound: failures of a stager, the database or a replica

VARIABLES
  published,  \* per key, the sequence of its published values
  declared,   \* what the manifest in the bucket declares: "absent", "roster", "accounts"
  stages,     \* with_impact_stager was called
  phase,      \* per replica: down, reconciling, watching
  follows,    \* per replica, the keys its manifest and scope made it consume
  taken,      \* per replica and key, how far its consumer has read
  todo,       \* per replica, the keys its reconcile has still to settle
  tx,         \* per replica, the sink call under way
  locked,     \* per key, who holds the lock of its row
  rows,       \* known_users, known_service_accounts, known_groups
  links,      \* known_user_group
  impacts,    \* staged and committed, not yet handled by the adopter
  derived,    \* the adopter's state: per user, its groups
  gap,        \* keys written between a reconcile's scan and its watch, or left to a manifest
              \* that declares them no more (history)
  failures

bucket == <<published, declared>>
replica == <<phase, follows, taken, todo>>
database == <<rows, links>>
adopter == <<impacts, derived>>
vars == <<bucket, stages, replica, tx, locked, database, adopter, gap, failures>>

Key == User \cup Account \cup Group
Roster(k) == IF k \in Group THEN [name : Name, members : SUBSET User] ELSE Content
At(k, n) == IF n = 0 THEN Nothing ELSE published[k][n]
Last(k) == At(k, Len(published[k]))

Idle == [at |-> "idle"]

Init ==
  /\ published = [k \in Key |-> <<>>]
  /\ declared = "absent"
  /\ stages \in BOOLEAN
  /\ phase = [r \in Replica |-> "down"]
  /\ follows = [r \in Replica |-> {}]
  /\ taken = [r \in Replica |-> [k \in Key |-> 0]]
  /\ todo = [r \in Replica |-> {}]
  /\ tx = [r \in Replica |-> Idle]
  /\ locked = [k \in Key |-> NoOne]
  /\ rows = [k \in Key |-> Nothing]
  /\ links = {}
  /\ impacts = {}
  /\ derived = [u \in User |-> {}]
  /\ gap = {}
  /\ failures = 0

Members(g) == {u \in User : <<g, u>> \in links}
GroupsOf(u) == {g \in Group : <<g, u>> \in links}

-----------------------------------------------------------------------------
(* The bucket, written by identity *)

Publish(k, v) ==
  /\ Cardinality({e \in Key \X (1..MaxWrites) : e[2] <= Len(published[e[1]])}) < MaxWrites
  /\ v # Last(k)
  /\ published' = [published EXCEPT ![k] = Append(@, v)]
  /\ UNCHANGED <<declared, stages, replica, tx, locked, database, adopter, gap, failures>>

WriteMeta(m) ==
  /\ declared' = m
  /\ declared # m
  /\ UNCHANGED <<published, stages, replica, tx, locked, database, adopter, gap, failures>>

-----------------------------------------------------------------------------
(* DirectoryProjector *)

\* active_streams: users always, groups by the scope (here the default one), accounts by the
\* manifest
Consumed == User \cup Group \cup (IF declared = "accounts" THEN Account ELSE {})

\* mutant: a projector that failed goes on where it was
ReconcileResumes(r) ==
  /\ phase[r] = "down" /\ declared # "absent"
  /\ phase' = [phase EXCEPT ![r] = "reconciling"]
  /\ follows' = [follows EXCEPT ![r] = Consumed]
  /\ UNCHANGED <<bucket, stages, taken, todo, tx, locked, database, adopter, gap, failures>>

\* reconcile(): present_manifest, then the consumers' bootstraps.  An absent manifest fails
\* closed.
Reconcile(r) ==
  /\ phase[r] = "down" /\ declared # "absent"
  /\ phase' = [phase EXCEPT ![r] = "reconciling"]
  /\ follows' = [follows EXCEPT ![r] = Consumed]
  /\ taken' = [taken EXCEPT ![r] = [k \in Key |-> Len(published[k])]]
  /\ todo' = [todo EXCEPT ![r] = Consumed]
  /\ gap' = gap \cup (follows[r] \ Consumed)
  /\ UNCHANGED <<bucket, stages, tx, locked, database, adopter, failures>>

\* watch(): the manifest is read again; what was written since the scan is not delivered.
Watch(r) ==
  /\ phase[r] = "reconciling" /\ tx[r].at = "idle"
  /\ declared # "absent"
  /\ todo[r] = {}
  /\ phase' = [phase EXCEPT ![r] = "watching"]
  /\ follows' = [follows EXCEPT ![r] = Consumed]
  /\ taken' = [taken EXCEPT ![r] = [k \in Key |-> Len(published[k])]]
  /\ gap' = gap \cup (follows[r] \ Consumed)
         \cup {k \in Consumed : k \notin follows[r] \/ taken[r][k] < Len(published[k])}
  /\ UNCHANGED <<bucket, stages, todo, tx, locked, database, adopter, failures>>

KeepUser(v) == v \in Copied
KeepAll(v) == TRUE

\* The copy filter: what a value makes of the row.
Image(k, v) == IF IF k \in User THEN KeepUser(v) ELSE KeepAll(v) THEN v ELSE Nothing

KnownUsers == {u \in User : rows[u] # Nothing}
KnownGroups == {g \in Group : rows[g] # Nothing}
KnownAccounts == {a \in Account : rows[a] # Nothing}

\* known_keys: of the rows, those without a passing value are orphans.
Orphan(k, v) == Image(k, v) = Nothing /\ k \in KnownUsers \cup KnownGroups \cup KnownAccounts

\* What the bootstrap's scan found of a key, at some moment since the reconcile began.
Scanned(r, k, n) ==
  /\ phase[r] = "reconciling" /\ tx[r].at = "idle"
  /\ k \in todo[r] /\ n >= taken[r][k]
  /\ taken' = [taken EXCEPT ![r][k] = n]
  /\ todo' = [todo EXCEPT ![r] = @ \ {k}]

Call(r, k, n) ==
  tx' = [tx EXCEPT ![r] = [at |-> "begun", key |-> k, value |-> Image(k, At(k, n)), read |-> {}]]

\* bootstrap(): the sink is called with a value that passes, or to retract an orphan.
Bootstrap(r, k, n) ==
  /\ Scanned(r, k, n)
  /\ \/ /\ Image(k, At(k, n)) # Nothing \/ Orphan(k, At(k, n))
        /\ Call(r, k, n) /\ UNCHANGED gap
     \/ /\ Image(k, At(k, n)) = Nothing /\ ~Orphan(k, At(k, n))
        /\ gap' = IF Image(k, Last(k)) = Nothing THEN gap \ {k} ELSE gap
        /\ UNCHANGED tx
  /\ UNCHANGED <<bucket, stages, phase, follows, locked, database, adopter, failures>>

\* The sink is called with an entry of the watch, which may skip one that was superseded.
Follow(r, k, n) ==
  /\ phase[r] = "watching" /\ tx[r].at = "idle"
  /\ k \in follows[r] /\ n > taken[r][k]
  /\ taken' = [taken EXCEPT ![r][k] = n]
  /\ Call(r, k, n)
  /\ UNCHANGED <<bucket, stages, phase, follows, todo, locked, database, adopter, gap, failures>>

-----------------------------------------------------------------------------
(* The sinks *)

Retracts(r) == tx[r].value = Nothing

\* Which calls open a transaction: all of them with a stager, a group's upsert always.
Transactional(r) == stages \/ (tx[r].key \in Group /\ ~Retracts(r))

\* The call is over; if it carried the newest value, its key is in no gap any more.
Finish(r) == LET k == tx[r].key IN
  /\ tx' = [tx EXCEPT ![r] = Idle]
  /\ gap' = IF tx[r].value = Image(k, Last(k)) THEN gap \ {k} ELSE gap

\* mutant: what the DELETE affected is not looked at
AbsentNever(r) == FALSE

Absent(r) == Retracts(r) /\ rows[tx[r].key] = Nothing

\* A DELETE or SELECT FOR UPDATE that finds no committed row: no lock, no impact, no wait.
NothingToRetract(r) ==
  /\ tx[r].at = "begun" /\ Absent(r)
  /\ Finish(r)
  /\ UNCHANGED <<bucket, stages, replica, locked, database, adopter, failures>>

\* mutant: a group's retraction reads the members without locking the row
LockUpserts(r) == LET k == tx[r].key IN
  IF k \in Group /\ Retracts(r) THEN UNCHANGED locked
  ELSE locked[k] = NoOne /\ locked' = [locked EXCEPT ![k] = r]

\* The first statement takes the lock of the row: the change-detecting upsert, whether it
\* changes the row or not, the DELETE of a user, LOCKED_GROUP before the DELETE of a group.
Lock(r) == LET k == tx[r].key IN
  locked[k] = NoOne /\ locked' = [locked EXCEPT ![k] = r]

\* mutant: the impact is staged on a connection of its own, before the write
FirstStages(r) ==
  /\ tx[r].at = "begun" /\ Transactional(r) /\ ~Absent(r)
  /\ Lock(r)
  /\ tx' = [tx EXCEPT ![r].at = "locked"]
  /\ impacts' = IF stages THEN impacts \cup {tx[r].key} ELSE impacts
  /\ UNCHANGED <<bucket, stages, replica, database, derived, gap, failures>>

First(r) ==
  /\ tx[r].at = "begun" /\ Transactional(r) /\ ~Absent(r)
  /\ Lock(r)
  /\ tx' = [tx EXCEPT ![r].at = "locked"]
  /\ UNCHANGED <<bucket, stages, replica, database, adopter, gap, failures>>

\* locked_members of a group; memberships_of a user it deletes.
ReadLinks(r) == LET k == tx[r].key IN
  /\ tx[r].at = "locked"
  /\ tx' = [tx EXCEPT ![r].at = "read",
                      ![r].read = IF k \in Group THEN Members(k)
                                  ELSE IF k \in User /\ Retracts(r) THEN GroupsOf(k) ELSE {}]
  /\ UNCHANGED <<bucket, stages, replica, locked, database, adopter, gap, failures>>

MemberRows(v) == v.members

\* MembershipDiff::between: the users that lose their link to the group, by what was read.
Removed(r) == tx[r].read \ MemberRows(tx[r].value)

\* What the change-detecting upsert of a value makes of the row.
RowOf(k, v) == IF k \in Group /\ v # Nothing THEN v.name ELSE v

\* mutant: the published sequence counts as a move whatever was read
MovedAlways(r) == tx[r].key \in Group

\* MembershipDiff::moved
Moved(r) == tx[r].read # MemberRows(tx[r].value)

\* MembershipDiff::rewrite: the links it found gone go, those it found missing come.
Rewritten(r) == LET t == tx[r] IN
  IF ~Moved(r) THEN links
  ELSE (links \ {<<t.key, u>> : u \in Removed(r)}) \cup {<<t.key, u>> : u \in MemberRows(t.value)}

\* The delete of a group cascades to its links, whatever was read.
WithoutGroup(g) == {l \in links : l[1] # g}

\* What a call of a sink makes of the row and the links, and the impacts it returns.
Write(row, after, told) == [row |-> row, links |-> after, impacts |-> told]

UserProject(r) == LET t == tx[r] IN
  Write(t.value, links, IF t.value = rows[t.key] THEN {} ELSE {t.key})

\* A user's links stay; the groups it is in are told, when there is someone to tell.
UserRetract(r) == Write(Nothing, links, {tx[r].key} \cup tx[r].read)

AccountProject(r) == LET t == tx[r] IN
  Write(t.value, links, IF t.value = rows[t.key] THEN {} ELSE {t.key})

AccountRetract(r) == Write(Nothing, links, {tx[r].key})

GroupProject(r) == LET t == tx[r] IN
  Write(RowOf(t.key, t.value), Rewritten(r),
        IF RowOf(t.key, t.value) = rows[t.key] /\ ~Moved(r) THEN {} ELSE {t.key} \cup Removed(r))

GroupRetract(r) == Write(Nothing, WithoutGroup(tx[r].key), {tx[r].key} \cup tx[r].read)

Result(r) == LET k == tx[r].key IN
  CASE k \in User -> IF Retracts(r) THEN UserRetract(r) ELSE UserProject(r)
    [] k \in Account -> IF Retracts(r) THEN AccountRetract(r) ELSE AccountProject(r)
    [] k \in Group -> IF Retracts(r) THEN GroupRetract(r) ELSE GroupProject(r)

Apply(r) ==
  /\ rows' = [rows EXCEPT ![tx[r].key] = Result(r).row]
  /\ links' = Result(r).links

Free(r) == [k \in Key |-> IF locked[k] = r THEN NoOne ELSE locked[k]]

\* mutant: the impacts are staged after the commit, which may fail
CommitThenStage(r) ==
  /\ tx[r].at = "read"
  /\ Apply(r)
  /\ \E staged \in BOOLEAN :
       impacts' = IF stages /\ staged THEN impacts \cup Result(r).impacts ELSE impacts
  /\ locked' = Free(r)
  /\ Finish(r)
  /\ UNCHANGED <<bucket, stages, replica, derived, failures>>

\* The writes, stage_in when there is something to stage, and the commit.
Commit(r) ==
  /\ tx[r].at = "read"
  /\ Apply(r)
  /\ impacts' = IF stages THEN impacts \cup Result(r).impacts ELSE impacts
  /\ locked' = Free(r)
  /\ Finish(r)
  /\ UNCHANGED <<bucket, stages, replica, derived, failures>>

\* apply_single_statement without a stager: one statement that commits by itself.
ApplyAlone(r) ==
  /\ tx[r].at = "begun" /\ ~Transactional(r) /\ ~Absent(r)
  /\ locked[tx[r].key] = NoOne
  /\ Apply(r)
  /\ Finish(r)
  /\ UNCHANGED <<bucket, stages, replica, locked, adopter, failures>>

\* The stager or a statement fails, or the process dies: the transaction rolls back, and
\* reconcile() or watch() ends with the error.
Fails(r) ==
  /\ phase[r] # "down" /\ failures < MaxFaults
  /\ failures' = failures + 1
  /\ phase' = [phase EXCEPT ![r] = "down"]
  /\ tx' = [tx EXCEPT ![r] = Idle]
  /\ locked' = Free(r)
  /\ todo' = [todo EXCEPT ![r] = {}]
  /\ UNCHANGED <<bucket, stages, follows, taken, database, adopter, gap>>

-----------------------------------------------------------------------------
(* The adopter of the impacts *)

\* A user's impact: recompute that user; a group's: those who are in it now.
React(i) ==
  /\ i \in impacts
  /\ impacts' = impacts \ {i}
  /\ derived' = [u \in User |-> IF u = i \/ (i \in Group /\ u \in Members(i))
                                  THEN GroupsOf(u) ELSE derived[u]]
  /\ UNCHANGED <<bucket, stages, replica, tx, locked, database, gap, failures>>

Next ==
  \/ \E k \in Key : \E v \in Roster(k) \cup {Nothing} : Publish(k, v)
  \/ \E m \in {"roster", "accounts"} : WriteMeta(m)
  \/ \E r \in Replica :
       \/ Reconcile(r) \/ Watch(r)
       \/ \E k \in Key : \E n \in 0..Len(published[k]) : Bootstrap(r, k, n) \/ Follow(r, k, n)
       \/ NothingToRetract(r) \/ First(r) \/ ReadLinks(r) \/ Commit(r) \/ ApplyAlone(r)
       \/ Fails(r)
  \/ \E i \in Key : React(i)

Spec == Init /\ [][Next]_vars

-----------------------------------------------------------------------------
(* Properties *)

TypeOK ==
  /\ \A k \in Key : published[k] \in Seq(Roster(k) \cup {Nothing})
  /\ declared \in {"absent", "roster", "accounts"} /\ stages \in BOOLEAN
  /\ phase \in [Replica -> {"down", "reconciling", "watching"}]
  /\ follows \in [Replica -> SUBSET Key] /\ taken \in [Replica -> [Key -> Nat]]
  /\ todo \in [Replica -> SUBSET Key]
  /\ \A r \in Replica : tx[r].at \in {"idle", "begun", "locked", "read"}
  /\ locked \in [Key -> Replica \cup {NoOne}]
  /\ \A k \in Key : rows[k] \in (IF k \in Group THEN Name ELSE Content) \cup {Nothing}
  /\ links \subseteq Group \X User
  /\ impacts \subseteq Key /\ derived \in [User -> SUBSET Group]
  /\ gap \subseteq Key /\ failures \in 0..MaxFaults

CaughtUp ==
  \A r \in Replica : /\ phase[r] = "watching" /\ tx[r].at = "idle"
                     /\ \A k \in follows[r] : taken[r][k] = Len(published[k])

Mirrors(k) == LET v == Image(k, Last(k)) IN
  /\ rows[k] = RowOf(k, v)
  /\ k \in Group => Members(k) = IF v = Nothing THEN {} ELSE MemberRows(v)

\* README.md:390 of the crate: the row lock serialises the replicas.  Once they have all
\* caught up, the tables hold the roster: a slow replica's older write never stays over a
\* newer one, and the membership rows are those of one publication of the group, except for
\* keys that were written between a scan and its watch.
ReplicasConverge ==
  CaughtUp => \A r \in Replica : \A k \in follows[r] \ gap : Mirrors(k)

\* README.md:196-212: the impacts are enough to recompute per-user state.  Whenever the
\* adopter has handled every impact, what it holds for each user is what the tables say,
\* although a removed member and the links a cascade deletes are in no table any more.
ImpactsSuffice ==
  stages /\ impacts = {} => \A u \in User : derived[u] = GroupsOf(u)

\* README.md:246-250: an impact is staged only when a row actually changed.  Of every step:
StagedOnlyForAChange ==
  ~(impacts' \subseteq impacts) => <<rows, links>>' # <<rows, links>>

-----------------------------------------------------------------------------
(* The inductive invariant *)

Value == {Nothing} \cup UNION {Roster(k) : k \in Key}

SinkCall == [at : {"begun", "locked", "read"}, key : Key, value : Value, read : SUBSET (User \cup Group)]

Typed ==
  /\ TypeOK
  /\ DOMAIN published = Key /\ DOMAIN rows = Key
  /\ tx \in [Replica -> {Idle} \cup SinkCall]

\* A running projector is where its consumers are; a sink call carries what it read last.
Consumes ==
  \A r \in Replica :
    /\ \A k \in Key : taken[r][k] <= Len(published[k])
    /\ todo[r] \subseteq follows[r] /\ (phase[r] # "reconciling" => todo[r] = {})
    /\ LET t == tx[r] IN
         t.at # "idle" => /\ phase[r] # "down" /\ t.key \in follows[r]
                          /\ t.value = Image(t.key, At(t.key, taken[r][t.key]))

\* Under the row lock nobody else changes the row or its links.
LockHeld ==
  \A r \in Replica :
    LET t == tx[r] IN
      /\ t.at \in {"locked", "read"} => /\ locked[t.key] = r
                                        /\ t.value = Nothing => rows[t.key] # Nothing
      /\ t.at = "read" /\ t.key \in Group => t.read = Members(t.key)

LinksHaveAGroup == \A g \in Group : rows[g] = Nothing => Members(g) = {}

\* The replica has yet to settle the key: its reconcile or an entry of its watch is to come,
\* or its sink is at it.
Owes(r, k) ==
  \/ k \in follows[r] /\ (phase[r] = "down" \/ k \in todo[r] \/ taken[r][k] < Len(published[k]))
  \/ tx[r].at # "idle" /\ tx[r].key = k

\* A row that is not what was published is one that somebody will come back to.
MirroredOrOwed ==
  \A k \in Key \ gap : (\E r \in Replica : k \in follows[r]) =>
                         Mirrors(k) \/ \E r \in Replica : Owes(r, k)

\* A user whose derived state is behind will be recomputed.
DerivedOrTold ==
  stages => \A u \in User : \/ derived[u] = GroupsOf(u) \/ u \in impacts
                            \/ \E g \in Group \cap impacts : u \in Members(g)

Inv ==
  /\ Typed /\ Consumes /\ LockHeld /\ LinksHaveAGroup /\ MirroredOrOwed /\ DerivedOrTold
=============================================================================
