---------------------------- MODULE SnapshotRows ----------------------------
(* How the in-memory State becomes rows of the database and State again.       *)
(* persist stages every row State owns, then deletes, updates and inserts in   *)
(* the durable tables; load_state reads them back.  A map of State is a table  *)
(* with a key, a list is a table whose order is the rowid, and what belongs to *)
(* a repository is held by slug in memory and by repository id in the file.    *)
(* Releases that know fewer columns may write the file while it is closed.     *)
EXTENDS Integers, Sequences, FiniteSets, FiniteSetsExt, SequencesExt

CONSTANTS
    RowSlugs,       \* (owner, name) pairs
    RepoUuids,      \* repository ids
    RowKeys,        \* keys of rows and ids of list entries
    UsedMaps,       \* the map tables the behaviours write to
    UsedLists,      \* the list tables they write to
    MaxMutations    \* bound on mutations

NoSlug == "global"      \* the slug of what belongs to no repository
NoUuid == "no id"
NoCount == -1
DefaultRule == "default"    \* the key of the rule for a default branch

----------------------------------------------------------------------------
(* The tables State owns *)
AccountTables == {"users", "user_accounts", "web_sessions", "personal_access_tokens"}
BotTables == {"bots", "bot_keys", "bot_refresh_tokens", "bot_operations"}
MemberTables == {"account_invitations", "account_activation_challenges", "waitlist_signups",
                 "organizations", "teams"}
MoveTables == {"repository_transfer_journal", "repository_aliases"}
TrackerTables == {"repo_access_grants", "labels", "issues"}
RuleTables == {"branch_protection_rules", "codeowners", "repository_readmes"}

GlobalTables == AccountTables \cup BotTables \cup MemberTables \cup MoveTables
                \cup {"provider_connections", "bot_access_tokens", "password_recovery_tokens"}
ScopedTables == TrackerTables \cup RuleTables \cup {"pull_requests", "bot_repo_grants"}
ListTables == {"issue_comments", "reviews", "review_comments", "commit_statuses", "check_runs",
               "jankurai_scores", "webhooks", "webhook_deliveries", "bot_activity"}

\* What a row refers to beside its repository: the row of that table with its
\* key (one child for each parent).
Parents ==
    [user_accounts |-> "users", web_sessions |-> "user_accounts",
     personal_access_tokens |-> "user_accounts", bot_keys |-> "bots", bot_refresh_tokens |-> "bots",
     bot_operations |-> "bots", account_activation_challenges |-> "account_invitations",
     pull_requests |-> "issues"]

\* Tables with a second unique column, which val is: the login of a live
\* invitation, the slug of a bot.  The full name of a repository is its slug.
Reserving == {"account_invitations", "bots"}

\* OWNED_TABLES: parents stand before children.
Place ==
    [users |-> 1, user_accounts |-> 2, web_sessions |-> 3, personal_access_tokens |-> 4, bots |-> 5,
     bot_keys |-> 6, bot_refresh_tokens |-> 7, bot_operations |-> 8, bot_activity |-> 9,
     bot_access_tokens |-> 10, provider_connections |-> 11, account_invitations |-> 12,
     account_activation_challenges |-> 13, password_recovery_tokens |-> 14, waitlist_signups |-> 16,
     organizations |-> 17, teams |-> 18, repositories |-> 19, repository_transfer_journal |-> 20,
     repository_aliases |-> 21, repo_access_grants |-> 22, bot_repo_grants |-> 23, labels |-> 24,
     issues |-> 25, issue_comments |-> 26, pull_requests |-> 27, reviews |-> 28, review_comments |-> 29,
     branch_protection_rules |-> 30, codeowners |-> 31, repository_readmes |-> 32, commit_statuses |-> 33,
     check_runs |-> 34, jankurai_scores |-> 35, webhooks |-> 36, webhook_deliveries |-> 38,
     repo_counters |-> 39]

ASSUME SnapshotRowsAssumption ==
    /\ UsedMaps \subseteq GlobalTables \cup ScopedTables
    /\ UsedLists \subseteq ListTables
    /\ NoSlug \notin RowSlugs /\ {NoSlug, NoUuid} \cap RepoUuids = {}
    /\ MaxMutations \in Nat

VARIABLES
    mem,        \* State
    main,       \* the durable rows
    opened,     \* whether a forge has the file open
    marked,     \* rows another tool set a column of its own on
    audit,      \* rows of forge_audit_log
    refusals,   \* refused persists of a state the schema has room for
    mutations

rowVars == <<mem, main, opened, marked, audit, refusals, mutations>>

\* maps: entries [table, slug, key, val]; lists: a used table and slug to entries
\* [id, val]; val of a check run is its creation_sequence, of an activity
\* event its time, of an invitation the login it reserves while it is live.
EmptyState ==
    [repos |-> [s \in RowSlugs |-> NoUuid], maps |-> {},
     lists |-> [l \in UsedLists \X (RowSlugs \cup {NoSlug}) |-> <<>>],
     counters |-> [s \in RowSlugs |-> NoCount]]

----------------------------------------------------------------------------
(* Staging *)

\* repo_id: the id of a slug; a row of a slug without one refuses the persist.
RowRepo(s, slug) == IF slug = NoSlug THEN NoSlug ELSE s.repos[slug]

\* One row per entry of a map, keyed by the repository where it is scoped.
StagedMaps(s, tables) ==
    {[table |-> e.table, key |-> <<RowRepo(s, e.slug), e.key>>, repo |-> RowRepo(s, e.slug),
      val |-> e.val, pos |-> 0] : e \in {x \in s.maps : x.table \in tables}}

\* One row per entry of a list, keyed by its id, in the order of the list.
StagedLists(s, tables) ==
    UNION {{[table |-> l[1], key |-> <<NoSlug, s.lists[l][i].id>>, repo |-> RowRepo(s, l[2]),
             val |-> s.lists[l][i].val, pos |-> i] : i \in DOMAIN s.lists[l]} :
           l \in {k \in DOMAIN s.lists : k[1] \in tables}}

StageAccounts(s) == StagedMaps(s, AccountTables)
StageBots(s) == StagedMaps(s, BotTables) \cup StagedLists(s, {"bot_activity"})
StageConnections(s) == StagedMaps(s, {"provider_connections"})
StageAccessTokens(s) == StagedMaps(s, {"bot_access_tokens"})
StageBotGrants(s) == StagedMaps(s, {"bot_repo_grants"})
StageRecoveries(s) == StagedMaps(s, {"password_recovery_tokens"})
StageMembers(s) == StagedMaps(s, MemberTables)
StageRepositories(s) ==
    {[table |-> "repositories", key |-> <<NoSlug, s.repos[r]>>, repo |-> NoSlug, val |-> r, pos |-> 0] :
        r \in {x \in RowSlugs : s.repos[x] # NoUuid}}
StageMoves(s) == StagedMaps(s, MoveTables)
StageTracker(s) == StagedMaps(s, TrackerTables) \cup StagedLists(s, {"issue_comments"})
StagePulls(s) == StagedMaps(s, {"pull_requests"}) \cup StagedLists(s, {"reviews", "review_comments"})
StageRules(s) == StagedMaps(s, RuleTables)
StageChecks(s) == StagedLists(s, {"commit_statuses", "check_runs", "jankurai_scores"})
StageHooks(s) == StagedLists(s, {"webhooks", "webhook_deliveries"})

\* The file holds the next number, memory the last one handed out.
StageCounters(s) ==
    {[table |-> "repo_counters", key |-> <<s.repos[r], "next">>, repo |-> s.repos[r],
      val |-> IF s.counters[r] = NoCount THEN 1 ELSE s.counters[r] + 1, pos |-> 0] :
        r \in {x \in RowSlugs : s.repos[x] # NoUuid}}

StageState(s) ==
    StageAccounts(s) \cup StageBots(s) \cup StageConnections(s) \cup StageAccessTokens(s)
    \cup StageBotGrants(s) \cup StageRecoveries(s) \cup StageMembers(s) \cup StageRepositories(s)
    \cup StageMoves(s) \cup StageTracker(s) \cup StagePulls(s) \cup StageRules(s)
    \cup StageChecks(s) \cup StageHooks(s) \cup StageCounters(s)

SameRow(x, y) == x.table = y.table /\ x.key = y.key

\* Every slug has its repository, and no two staged rows have one key.
StagingSucceeds(s) ==
    /\ \A r \in StageState(s) : r.repo # NoUuid
    /\ \A x, y \in StageState(s) : SameRow(x, y) => x = y

----------------------------------------------------------------------------
(* Applying the staged rows *)

\* What a table keeps unique beside its key; a revoked invitation lets go of it.
Reserves(r) ==
    IF r.table = "repositories" \/ (r.table \in Reserving /\ r.val # "revoked") THEN {<<r.table, r.val>>}
    ELSE {}

Unique(rs) == \A x, y \in rs : ~SameRow(x, y) => Reserves(x) \cap Reserves(y) = {}

IsRepository(d, u) == d.table = "repositories" /\ d.key = <<NoSlug, u>>

\* The deletes, children first: rows whose key is not staged, and with a
\* repository what still refers to it (ON DELETE CASCADE).
Kept(rs, staged) ==
    {r \in rs : /\ \E d \in staged : SameRow(r, d)
                /\ r.repo = NoSlug \/ \E p \in staged : IsRepository(p, r.repo)}

\* The foreign keys: whatever a row refers to is staged, and written before it.
FindsParents(staged) ==
    \A d \in staged :
        /\ d.repo = NoSlug \/ /\ \E p \in staged : IsRepository(p, d.repo)
                              /\ Place.repositories < Place[d.table]
        /\ d.table \in DOMAIN Parents =>
              /\ \E p \in staged : p.table = Parents[d.table] /\ p.key = d.key
              /\ Place[Parents[d.table]] < Place[d.table]

\* The update of rows whose key is there; rowid and foreign columns stay.
UpdatedRows(rs, staged) ==
    {LET d == CHOOSE x \in staged : SameRow(r, x) IN [r EXCEPT !.val = d.val, !.repo = d.repo] : r \in rs}

\* SQLite checks each updated row against the others as they are then.
UpdateSucceeds(rs, staged) ==
    \A x, y \in rs :
        LET new == CHOOSE d \in staged : SameRow(x, d) IN
        (~SameRow(x, y) /\ x.rowid < y.rowid) => Reserves(new) \cap Reserves(y) = {}

NewRows(rs, staged) == {d \in staged : ~\E r \in Kept(rs, staged) : SameRow(r, d)}

LastRowid(rs, t) == Max({0} \cup {r.rowid : r \in {x \in rs : x.table = t}})

\* The insert, in the order of staging.
InsertedRows(rs, staged) ==
    {[table |-> d.table, key |-> d.key, repo |-> d.repo, val |-> d.val, foreign |-> "default",
      rowid |-> LastRowid(rs, d.table) + d.pos + 1] : d \in NewRows(rs, staged)}

\* Mutant: new rows are inserted before the rows that are there are updated.
InsertFirst(rs, staged) ==
    LET kept == Kept(rs, staged) IN Unique(kept \cup InsertedRows(rs, staged)) /\ UpdateSucceeds(kept, staged)

\* reconcile_rows: no statement of the apply breaks a unique index or a foreign
\* key.
ReconcileSucceeds(rs, staged) ==
    LET kept == Kept(rs, staged) IN
    /\ FindsParents(staged) /\ UpdateSucceeds(kept, staged)
    /\ Unique(UpdatedRows(kept, staged) \cup InsertedRows(rs, staged))

ApplyRows(rs, staged) == UpdatedRows(Kept(rs, staged), staged) \cup InsertedRows(rs, staged)

----------------------------------------------------------------------------
(* Loading *)

SlugsById(rs) == [u \in {r.key[2] : r \in {x \in rs : x.table = "repositories"}} |->
                    (CHOOSE r \in rs : r.table = "repositories" /\ r.key[2] = u).val]

\* The join with repositories: a row without its repository is not read.
Joined(rs, tables) ==
    {r \in rs : r.table \in tables /\ (r.repo = NoSlug \/ r.repo \in DOMAIN SlugsById(rs))}

SlugOfRow(rs, r) == IF r.repo = NoSlug THEN NoSlug ELSE SlugsById(rs)[r.repo]

LoadedMaps(rs, tables) ==
    {[table |-> r.table, slug |-> SlugOfRow(rs, r), key |-> r.key[2], val |-> r.val] :
        r \in Joined(rs, tables)}

RowsOf(rs, l) == {r \in Joined(rs, {l[1]}) : SlugOfRow(rs, r) = l[2]}

\* ORDER BY: the i-th is the one with i rows, itself included, at or before it.
Ranked(S, at, i) == CHOOSE x \in S : Cardinality({y \in S : at[y] <= at[x]}) = i

Listed(rows, at) ==
    [i \in 1 .. Cardinality(rows) |->
        LET r == Ranked(rows, at, i) IN [id |-> r.key[2], val |-> r.val]]

RowPlace(r) == r.rowid

ListOf(rs, l) == Listed(RowsOf(rs, l), [r \in RowsOf(rs, l) |-> RowPlace(r)])

LoadAccounts(rs) == LoadedMaps(rs, AccountTables)

\* An operation row of a token refresh that is not sealed is dropped.
LoadBots(rs) == {e \in LoadedMaps(rs, BotTables) : ~(e.table = "bot_operations" /\ e.val = "unsealed")}
LoadConnections(rs) == LoadedMaps(rs, {"provider_connections"})
LoadAccessTokens(rs) == LoadedMaps(rs, {"bot_access_tokens"})
LoadBotGrants(rs) == LoadedMaps(rs, {"bot_repo_grants"})
LoadRecoveries(rs) == LoadedMaps(rs, {"password_recovery_tokens"})
LoadMembers(rs) == LoadedMaps(rs, MemberTables)
LoadRepositories(rs) ==
    [s \in RowSlugs |->
        LET at == {r \in rs : r.table = "repositories" /\ r.val = s} IN
        IF at = {} THEN NoUuid ELSE (CHOOSE r \in at : TRUE).key[2]]
LoadMoves(rs) == LoadedMaps(rs, MoveTables)
LoadTracker(rs) == LoadedMaps(rs, TrackerTables)

\* A pull request from before source_repository comes from its own repository.
LoadPulls(rs) ==
    {IF e.val = "" THEN [e EXCEPT !.val = "own"] ELSE e : e \in LoadedMaps(rs, {"pull_requests"})}
LoadRules(rs) == LoadedMaps(rs, RuleTables)

\* Events are read in the order of their times.
LoadActivity(rs) ==
    LET rows == RowsOf(rs, <<"bot_activity", NoSlug>>) IN Listed(rows, [r \in rows |-> r.val])

\* Check runs without a number get the next ones, in the order of the rows.
LoadChecks(rs, l) ==
    LET runs == ListOf(rs, l)
        top == Max({0} \cup {runs[i].val : i \in DOMAIN runs})
        Unnumbered(i) == Cardinality({j \in 1 .. i : runs[j].val = 0})
    IN  [i \in DOMAIN runs |->
            IF runs[i].val = 0 THEN [runs[i] EXCEPT !.val = top + Unnumbered(i)] ELSE runs[i]]

LoadLists(rs) ==
    [l \in UsedLists \X (RowSlugs \cup {NoSlug}) |->
        IF l[1] = "check_runs" THEN LoadChecks(rs, l)
        ELSE IF l = <<"bot_activity", NoSlug>> THEN LoadActivity(rs)
        ELSE ListOf(rs, l)]

LoadCounters(rs) ==
    [s \in RowSlugs |->
        LET at == {r \in Joined(rs, {"repo_counters"}) : SlugOfRow(rs, r) = s} IN
        IF at = {} THEN NoCount ELSE Max({1, (CHOOSE r \in at : TRUE).val}) - 1]

LoadState(rs) ==
    [repos |-> LoadRepositories(rs),
     maps |-> LoadAccounts(rs) \cup LoadBots(rs) \cup LoadConnections(rs) \cup LoadAccessTokens(rs)
              \cup LoadBotGrants(rs) \cup LoadRecoveries(rs) \cup LoadMembers(rs) \cup LoadMoves(rs)
              \cup LoadTracker(rs) \cup LoadPulls(rs) \cup LoadRules(rs),
     lists |-> LoadLists(rs), counters |-> LoadCounters(rs)]

\* backfill_missing_counters: the highest number in use.
Numbers(s, slug) == {e.key : e \in {x \in s.maps : x.table = "issues" /\ x.slug = slug}}
BackfillCounters(s) ==
    [s EXCEPT !.counters = [r \in RowSlugs |->
        IF s.repos[r] # NoUuid /\ s.counters[r] = NoCount THEN Max({0} \cup Numbers(s, r))
        ELSE s.counters[r]]]

\* backfill_default_branch_protections, fence_unfinished_rotations and
\* prune_dead_recoveries.
NewRule(slug) == [table |-> "branch_protection_rules", slug |-> slug, key |-> DefaultRule, val |-> "default"]
MissingRules(s) ==
    {NewRule(r) : r \in {x \in RowSlugs : /\ s.repos[x] # NoUuid
                                          /\ ~\E e \in s.maps : /\ e.table = "branch_protection_rules"
                                                                /\ e.slug = x /\ e.key = DefaultRule}}
Fenced(e) ==
    IF e.table = "provider_connections" /\ e.val = "rotating" THEN [e EXCEPT !.val = "fenced"] ELSE e
Dead(e) == e.table = "password_recovery_tokens" /\ e.val = "dead"

Repaired(s) == [s EXCEPT !.maps = {Fenced(e) : e \in {x \in @ : ~Dead(x)}} \cup MissingRules(s)]

Persists(rs, s) == StagingSucceeds(s) /\ ReconcileSucceeds(rs, StageState(s))

----------------------------------------------------------------------------
(* Mutations: memory changes, the state is persisted, and put back if that is  *)
(* refused                                                                     *)
\* The values fit the CHECKs of their columns (an empty name of a webhook or of
\* a default branch does not), and each row belongs to a repository that is there.
HasRoom(new, fits) == fits /\ StagingSucceeds(new)

Mutate(new, fits) ==
    /\ opened /\ mutations < MaxMutations /\ mutations' = mutations + 1
    /\ IF fits /\ Persists(main, new)
       THEN /\ mem' = new /\ main' = ApplyRows(main, StageState(new))
            /\ marked' = {m \in marked : \E r \in main' : SameRow(r, m)}
            /\ UNCHANGED refusals
       ELSE /\ refusals' = refusals + (IF HasRoom(new, fits) THEN 1 ELSE 0)
            /\ UNCHANGED <<mem, main, marked>>
    /\ UNCHANGED <<opened, audit>>

\* With its counters and the rule for its default branch.
CreateRow(s, u, fits) ==
    /\ mem.repos[s] = NoUuid /\ u \notin {mem.repos[r] : r \in RowSlugs}
    /\ Mutate([mem EXCEPT !.repos[s] = u, !.counters[s] = 0, !.maps = @ \cup {NewRule(s)}], fits)

DeleteRows(s) ==
    /\ mem.repos[s] # NoUuid
    /\ Mutate([mem EXCEPT !.repos[s] = NoUuid, !.counters[s] = NoCount,
                          !.maps = {e \in @ : e.slug # s},
                          !.lists = [l \in DOMAIN @ |-> IF l[2] = s THEN <<>> ELSE @[l]]], TRUE)

\* A rename: the repository row is updated, its children only in memory.
RenameRows(s, t) ==
    /\ mem.repos[s] # NoUuid /\ mem.repos[t] = NoUuid
    /\ Mutate([mem EXCEPT
         !.repos = [@ EXCEPT ![s] = NoUuid, ![t] = mem.repos[s]],
         !.counters = [@ EXCEPT ![s] = NoCount, ![t] = mem.counters[s]],
         !.maps = {IF e.slug = s THEN [e EXCEPT !.slug = t] ELSE e : e \in @},
         !.lists = [l \in DOMAIN @ |-> IF l[2] = t THEN @[<<l[1], s>>]
                                       ELSE IF l[2] = s THEN <<>> ELSE @[l]]], TRUE)

\* The repository was there before the lock was taken.
SlugsFor(t) == IF t \in GlobalTables THEN {NoSlug} ELSE RowSlugs

RowVals(t) ==
    IF t = "provider_connections" THEN {"rotating", "idle"}
    ELSE IF t = "password_recovery_tokens" THEN {"live", "dead", "gone"}
    ELSE {"one", "two", "gone"}

\* A row of a map is put, replaced or removed; what others refer to and the rule
\* for a default branch stay.
Removable(t) == t # "branch_protection_rules" /\ t \notin Range(Parents)
PutRow(t, s, k, v, fits) ==
    /\ v = "gone" => Removable(t)
    /\ t \in DOMAIN Parents => \E e \in mem.maps : e.table = Parents[t] /\ e.slug = s /\ e.key = k
    /\ Mutate([mem EXCEPT !.maps = {e \in @ : ~(e.table = t /\ e.slug = s /\ e.key = k)}
                    \cup (IF v = "gone" THEN {} ELSE {[table |-> t, slug |-> s, key |-> k, val |-> v]})], fits)

\* An issue takes the next number of its repository, a pull request its issue's.
NumberedRow(s, tables, fits) ==
    LET n == Max({0, mem.counters[s]}) + 1 IN
    Mutate([mem EXCEPT !.counters[s] = n,
               !.maps = @ \cup {[table |-> t, slug |-> s, key |-> n, val |-> "open"] : t \in tables}], fits)

\* A login is invited while no live invitation reserves it, and a bot gets a slug
\* no other has.
ReserveRow(t, k, name, fits) ==
    /\ \A e \in mem.maps : e.table = t => e.key # k /\ e.val # name
    /\ Mutate([mem EXCEPT !.maps = @ \cup {[table |-> t, slug |-> NoSlug, key |-> k, val |-> name]}], fits)

\* An expired invitation is revoked and its login invited again, at once.
Invitations == {e \in mem.maps : e.table = "account_invitations"}
ReissueRow(old, new, fits) ==
    /\ old.val # "revoked"
    /\ \A e \in Invitations : e.key # new
    /\ Mutate([mem EXCEPT !.maps = (@ \ {old}) \cup {[old EXCEPT !.val = "revoked"], [old EXCEPT !.key = new]}],
              fits)

\* What a new list entry holds: the number of a check run; of an event the time
\* read before the lock was taken, no two the same.
NewVals(l) ==
    IF l[1] = "check_runs" THEN {Max({0} \cup {mem.lists[l][i].val : i \in DOMAIN mem.lists[l]}) + 1}
    ELSE {n \in 1 .. MaxMutations : \A i \in DOMAIN mem.lists[l] : mem.lists[l][i].val # n}

AppendRow(l, k, v, fits) ==
    /\ v \in NewVals(l)
    /\ \A m \in DOMAIN mem.lists : m[1] = l[1] => ~\E i \in DOMAIN mem.lists[m] : mem.lists[m][i].id = k
    /\ Mutate([mem EXCEPT !.lists[l] = Append(@, [id |-> k, val |-> v])], fits)

\* cap_bot_activity: the first event goes.
CapRows == /\ "bot_activity" \in UsedLists /\ mem.lists[<<"bot_activity", NoSlug>>] # <<>>
           /\ Mutate([mem EXCEPT !.lists[<<"bot_activity", NoSlug>>] = Tail(@)], TRUE)

----------------------------------------------------------------------------
(* The file on its own *)
AppendAuditRow ==
    /\ opened /\ audit < 1 /\ audit' = audit + 1
    /\ UNCHANGED <<mem, main, opened, marked, refusals, mutations>>

CloseFile ==
    /\ opened /\ opened' = FALSE
    /\ mem' = EmptyState
    /\ UNCHANGED <<main, marked, audit, refusals, mutations>>

\* Another release or tool: a column State does not own, a check run without a
\* number, an operation row from before sealing, a pull request from before
\* source_repository, a repository without counters or a rule.
OtherWriter ==
    /\ ~opened /\ mutations < MaxMutations /\ mutations' = mutations + 1
    /\ \/ \E r \in main : /\ main' = (main \ {r}) \cup {[r EXCEPT !.foreign = "set"]}
                          /\ marked' = marked \cup {[table |-> r.table, key |-> r.key]}
       \/ \E r \in main : /\ r.table = "check_runs" /\ r.val > 0
                          /\ main' = (main \ {r}) \cup {[r EXCEPT !.val = 0]} /\ UNCHANGED marked
       \/ \E r \in main : /\ r.table = "bot_operations"
                          /\ main' = (main \ {r}) \cup {[r EXCEPT !.val = "unsealed"]} /\ UNCHANGED marked
       \/ \E r \in main : /\ r.table = "pull_requests"
                          /\ main' = (main \ {r}) \cup {[r EXCEPT !.val = ""]} /\ UNCHANGED marked
       \/ \E r \in main : /\ r.table \in {"repo_counters", "branch_protection_rules"} /\ main' = main \ {r}
                          /\ marked' = {m \in marked : ~SameRow(m, r)}
    /\ UNCHANGED <<mem, opened, audit, refusals>>

\* open: load, repair, persist what was repaired; refused, it does not open.  The
\* unsealed rows are deleted while loading.
Reopen ==
    LET rows == {r \in main : ~(r.table = "bot_operations" /\ r.val = "unsealed")}
        state == Repaired(BackfillCounters(LoadState(rows))) IN
    /\ ~opened
    /\ IF state = LoadState(rows) \/ Persists(rows, state)
       THEN /\ opened' = TRUE /\ mem' = state
            /\ main' = IF state = LoadState(rows) THEN rows ELSE ApplyRows(rows, StageState(state))
            /\ marked' = {m \in marked : \E r \in main' : SameRow(r, m)}
            /\ UNCHANGED refusals
       ELSE /\ main' = rows /\ marked' = {m \in marked : \E r \in rows : SameRow(r, m)}
            /\ refusals' = refusals + 1 /\ UNCHANGED <<opened, mem>>
    /\ UNCHANGED <<audit, mutations>>

RowInit ==
    /\ mem = EmptyState /\ main = {} /\ opened = FALSE
    /\ marked = {} /\ audit = 0 /\ refusals = 0 /\ mutations = 0

RowNext ==
    \/ \E s \in RowSlugs, fits \in BOOLEAN :
          \/ "issues" \in UsedMaps /\ NumberedRow(s, {"issues"}, fits)
          \/ {"issues", "pull_requests"} \subseteq UsedMaps /\ NumberedRow(s, {"issues", "pull_requests"}, fits)
          \/ \E u \in RepoUuids : CreateRow(s, u, fits)
    \/ \E s \in RowSlugs : DeleteRows(s) \/ \E t \in RowSlugs : RenameRows(s, t)
    \/ \E t \in UsedMaps \ (Reserving \cup {"issues", "pull_requests"}), fits \in BOOLEAN :
          \E s \in SlugsFor(t), k \in RowKeys, v \in RowVals(t) : PutRow(t, s, k, v, fits)
    \/ \E t \in UsedMaps \cap Reserving, k \in RowKeys, fits \in BOOLEAN :
          \/ ReserveRow(t, k, "name", fits)
          \/ t = "account_invitations" /\ \E e \in Invitations : ReissueRow(e, k, fits)
    \/ \E t \in UsedLists, k \in RowKeys, fits \in BOOLEAN :
          \E s \in (IF t = "bot_activity" THEN {NoSlug} ELSE RowSlugs) :
              \E v \in NewVals(<<t, s>>) : AppendRow(<<t, s>>, k, v, fits)
    \/ CapRows \/ AppendAuditRow \/ CloseFile \/ OtherWriter \/ Reopen

RowSpec == RowInit /\ [][RowNext]_rowVars

----------------------------------------------------------------------------
\* A state with its events in the order of their times.
Events(list) == {list[i] : i \in DOMAIN list}
InTimeOrder(list) ==
    LET es == Events(list) IN [i \in 1 .. Cardinality(es) |-> Ranked(es, [e \in es |-> e.val], i)]
Sorted(s) ==
    [s EXCEPT !.lists = [l \in DOMAIN @ |-> IF l = <<"bot_activity", NoSlug>> THEN InTimeOrder(@[l]) ELSE @[l]]]

(* Whatever was written, renamed, deleted, numbered or reissued, and by which  *)
(* release, opening the file again gives the state in memory, lists in their   *)
(* order, but for events, which come back in the order of their times; a       *)
(* persist is refused only when a value does not fit its column or a row's     *)
(* repository has gone, never for the order in which keys and parents are      *)
(* written, and the repairs of an open never are; a column State does not own  *)
(* keeps its value while its row lives; and the next number of a repository is *)
(* free (stage_state, snapshot::apply, load_state, open).                      *)
ReopenRestoresState ==
    /\ opened => BackfillCounters(LoadState(main)) = Sorted(mem)
    /\ refusals = 0
    /\ \A r \in main : (\E m \in marked : SameRow(r, m)) => r.foreign = "set"
    /\ opened => \A s \in RowSlugs : \A n \in Numbers(mem, s) : n <= mem.counters[s]
=============================================================================
