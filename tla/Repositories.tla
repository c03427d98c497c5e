----------------------------- MODULE Repositories -----------------------------
(* Repositories of the forge: create, delete, rename, the two-phase transfer,  *)
(* the aliases that old names leave behind, the rows kept under a              *)
(* repository's slug, and the bare directory on disk.  A repository is known   *)
(* by its slug (owner, name) everywhere but in aliases, transfer journals and  *)
(* deployments, which carry its UUID; every move re-keys everything else.      *)
(* A writer of rows looks for the repository under one lock and inserts under  *)
(* another.                                                                    *)
EXTENDS Naturals, FiniteSets

CONSTANTS
    Owners,        \* owner names
    KnownOwners,   \* the owners that are users or organizations
    Slugs,         \* the (owner, name) pairs in play
    RepoIds,       \* UUIDs that create_repository may draw
    TransferKeys,  \* idempotency keys of transfers
    Callers,       \* callers of the forge
    Branches,      \* branch names; the first argument of Decoded is one of them
    Encoded,       \* the branch names that hold %2F
    Decoded(_),    \* the branch name with %2F replaced by a slash
    MainBranch,    \* the default branch of a repository created without one
    MaxMoves,      \* bound on renames and transfers
    MaxWrites      \* bound on rows written

NoRepo == "no repository"

ASSUME RepositoriesAssumption ==
    /\ \A s \in Slugs : s[1] \in Owners
    /\ KnownOwners \subseteq Owners
    /\ NoRepo \notin RepoIds
    /\ MainBranch \in Branches
    /\ Encoded \subseteq Branches
    /\ \A b \in Encoded : Decoded(b) \in Branches \ Encoded
    /\ MaxMoves \in Nat /\ MaxWrites \in Nat

Idle == [step |-> "idle"]
NewInfo == [archived |-> FALSE, branch |-> MainBranch, optOut |-> FALSE]

VARIABLES
    repos,        \* State.repos: slug -> UUID
    info,         \* per UUID: archived, default branch, opt-out of its protection
    aliases,      \* State.repository_aliases: slug -> UUID and canonical slug
    transfers,    \* State.repository_transfers: idempotency key -> journal
    rows,         \* every map keyed by (owner, repo, ..), as rows
    counters,     \* State.counters: slug -> last number handed out
    deployments,  \* State.deployments: UUID and denormalized slug
    dirs,         \* the bare directories: slug -> UUID of the repository whose data it is
    heads,        \* HEAD of the directory at a slug
    session,      \* callers between two locks
    used,         \* UUIDs drawn so far
    made,         \* UUIDs whose directory was made while they were at its slug
    torn,         \* UUIDs of a directory and of the repository at its slug that a
                  \* rename left apart: it was not survived, its directory could not
                  \* be put back, or they never belonged together
    moves, writes

repoVars == <<repos, info, aliases, transfers, rows, counters, deployments, dirs,
              heads, session, used, made, torn, moves, writes>>

Tables == {"labels", "issues", "readmes", "grants", "rules", "webhooks"}
RuleKinds == {"automatic", "custom", "status"}
NoAlias == [of |-> NoRepo]
NoJournal == [status |-> "none"]

SlugOf(id) == CHOOSE s \in Slugs : repos[s] = id
Registered == {id \in RepoIds : \E s \in Slugs : repos[s] = id}

-----------------------------------------------------------------------------
(* Rows.  "of" and "timely" are not in the code: the repository that the       *)
(* writer was told to write to, and whether it was still at the slug when the  *)
(* row was inserted.                                                           *)
SameKey(x, y) == x.table = y.table /\ x.slug = y.slug /\ x.key = y.key
Put(rs, r) == {x \in rs : ~SameKey(x, r)} \union {r}
At(rs, s) == {x \in rs : x.slug = s}
Rules(rs, s) == {x \in At(rs, s) : x.table = "rules"}

RequiresStatus(rs, s) == \E x \in Rules(rs, s) : x.value = "status"

HasRule(rs, s, b) == \E x \in Rules(rs, s) : x.key = b

\* ensure_default_branch_protection for the repository id at slug s.
EnsureDefaultProtection(rs, s, id, i) ==
    IF (i.optOut /\ ~RequiresStatus(rs, s)) \/ HasRule(rs, s, i.branch)
    THEN rs
    ELSE rs \union {[table |-> "rules", slug |-> s, key |-> i.branch,
                     value |-> "automatic", of |-> id, timely |-> TRUE]}

\* default_rule_is_mandatory: the rule of the default branch may not be removed.
DefaultRuleIsMandatory(s, id) == ~info[id].optOut \/ RequiresStatus(rows, s)

\* The repository a requested slug names: the canonical one wins, an alias is
\* followed for one hop.
Resolve(s) ==
    IF repos[s] # NoRepo THEN repos[s]
    ELSE IF aliases[s] # NoAlias /\ repos[aliases[s].canonical] = aliases[s].of
    THEN aliases[s].of
    ELSE NoRepo

\* One repository, with a label in it.
RepoInit ==
    \E s \in {t \in Slugs : t[1] \in KnownOwners}, id \in RepoIds :
        /\ repos = [t \in Slugs |-> IF t = s THEN id ELSE NoRepo]
        /\ info = [r \in RepoIds |-> NewInfo]
        /\ rows = EnsureDefaultProtection({[table |-> "labels", slug |-> s, key |-> "bug", value |-> "label",
                                             of |-> id, timely |-> TRUE]}, s, id, NewInfo)
        /\ aliases = [t \in Slugs |-> NoAlias]
        /\ transfers = [k \in TransferKeys |-> NoJournal]
        /\ counters = [t \in Slugs |-> 0]
        /\ deployments = {}
        /\ dirs = [t \in Slugs |-> IF t = s THEN id ELSE NoRepo]
        /\ heads = [t \in Slugs |-> MainBranch]
        /\ session = [w \in Callers |-> Idle]
        /\ used = {id} /\ made = {id} /\ torn = {}
        /\ moves = 0 /\ writes = 0

-----------------------------------------------------------------------------
(* Create and delete                                                           *)

\* create_repository up to the persist; the directory is made after the lock.
CreateRepository(w, s, id, b) ==
    /\ session[w] = Idle /\ id \notin used
    /\ repos[s] = NoRepo
    /\ repos' = [repos EXCEPT ![s] = id]
    /\ info' = [info EXCEPT ![id] = [NewInfo EXCEPT !.branch = b]]
    /\ counters' = [counters EXCEPT ![s] = 0]
    /\ rows' = EnsureDefaultProtection(rows, s, id, info'[id])
    /\ used' = used \union {id}
    /\ session' = [session EXCEPT ![w] = [step |-> "materialize", slug |-> s, of |-> id, key |-> b]]
    /\ UNCHANGED <<aliases, transfers, deployments, dirs, heads, made, torn, moves, writes>>

\* The materializer: a directory that is already there is success.
Materialize(w) ==
    /\ session[w].step = "materialize"
    /\ LET s == session[w].slug IN
       IF dirs[s] = NoRepo
       THEN /\ dirs' = [dirs EXCEPT ![s] = session[w].of]
            /\ heads' = [heads EXCEPT ![s] = session[w].key]
            /\ made' = IF repos[s] = session[w].of THEN made \union {session[w].of} ELSE made
       ELSE UNCHANGED <<dirs, heads, made>>
    /\ session' = [session EXCEPT ![w] = Idle]
    /\ UNCHANGED <<repos, info, aliases, transfers, rows, counters, deployments, used, torn,
                   moves, writes>>

\* delete_repository: everything scoped to the slug, then what names the UUID.
\* Deployments stay; the directory is the caller's to remove.
DeleteRepository(s) ==
    /\ repos[s] # NoRepo
    /\ repos' = [repos EXCEPT ![s] = NoRepo]
    /\ rows' = rows \ At(rows, s)
    /\ counters' = [counters EXCEPT ![s] = 0]
    /\ aliases' = [t \in Slugs |-> IF aliases[t].of = repos[s] THEN NoAlias ELSE aliases[t]]
    /\ transfers' = [k \in TransferKeys |->
                        IF transfers[k] # NoJournal /\ transfers[k].id = repos[s]
                        THEN NoJournal ELSE transfers[k]]
    /\ info' = [info EXCEPT ![repos[s]] = NewInfo]
    /\ UNCHANGED <<deployments, dirs, heads, session, used, made, torn, moves, writes>>

-----------------------------------------------------------------------------
(* Moves                                                                       *)

\* rekey_repository on the rows: a moved row replaces one that has its new key.
Rekeyed(rs, old, new) ==
    LET moved == {[x EXCEPT !.slug = new] : x \in At(rs, old)} IN
    {x \in rs \ At(rs, old) : \A y \in moved : ~SameKey(x, y)} \union moved

\* Mutant: old names are not retargeted.
RecordAliasOnly(as, id, old, new) == [as EXCEPT ![old] = [of |-> id, canonical |-> new]]

\* record_alias: retarget what the repository already had, keep the old slug.
RecordAlias(as, id, old, new) ==
    [t \in Slugs |->
        IF t = old THEN [of |-> id, canonical |-> new]
        ELSE IF as[t].of = id THEN [as[t] EXCEPT !.canonical = new]
        ELSE as[t]]

\* What rekey_repository refuses: a destination that is taken or an alias, a
\* source that is gone or is another repository by now.
CanRekey(as, id, old, new) ==
    /\ repos[new] = NoRepo /\ as[new] = NoAlias
    /\ repos[old] = id

\* The registry after a move from old to new; as is the alias table before it.
MoveRegistry(as, id, old, new) ==
    /\ repos' = [repos EXCEPT ![old] = NoRepo, ![new] = id]
    /\ rows' = Rekeyed(rows, old, new)
    /\ counters' = [counters EXCEPT ![old] = 0, ![new] = counters[old]]
    /\ aliases' = RecordAlias(as, id, old, new)

\* relocate_bare refuses a missing source and a target that exists.
CanRelocate(old, new) == dirs[old] # NoRepo /\ dirs[new] = NoRepo

Moved(ds, old, new) == [ds EXCEPT ![old] = NoRepo, ![new] = ds[old]]

Relocated(old, new) ==
    /\ dirs' = Moved(dirs, old, new)
    /\ heads' = [heads EXCEPT ![new] = heads[old], ![old] = MainBranch]

\* refresh_deployment_slugs after the registry changed.
RefreshDeploymentSlugs(ds, rp) ==
    {IF \E s \in Slugs : rp[s] = d.of
     THEN [d EXCEPT !.slug = CHOOSE s \in Slugs : rp[s] = d.of] ELSE d : d \in ds}

\* The checks of write_repository_rename before it changes anything.
MayRename(old, new) ==
    /\ moves < MaxMoves
    /\ repos[old] # NoRepo /\ ~info[repos[old]].archived
    /\ old # new
    /\ old[1] # new[1] => new[1] \in KnownOwners
    /\ repos[new] = NoRepo

\* write_repository_rename, all of it under the write lock: the alias at the
\* target is reclaimed, the registry is re-keyed, the directory moved, the state
\* persisted.
RenameRepository(old, new) ==
    /\ MayRename(old, new)
    /\ CanRelocate(old, new)
    /\ MoveRegistry([aliases EXCEPT ![new] = NoAlias], repos[old], old, new)
    /\ deployments' = RefreshDeploymentSlugs(deployments, repos')
    /\ Relocated(old, new)
    /\ torn' = IF dirs[old] = repos[old] THEN torn ELSE torn \union {dirs[old]} \union ({repos[old]} \cap made)
    /\ moves' = moves + 1
    /\ UNCHANGED <<info, transfers, session, used, made, writes>>

\* Mutant: the directory stays where the failed rename put it.
LeftMoved(ds, old, new) == ds

\* The second relocation of a rename that was not persisted.
PutBack(ds, old, new) == Moved(ds, new, old)

\* The directory moved and then something fails: relocate_bare writes its
\* metadata after the rename, and the persist comes last.  The state is rolled
\* back; the directory is put back, which may fail as well and is not looked at,
\* and is not even tried when it was relocate_bare that failed.
RenameNotPersisted(old, new, back) ==
    /\ MayRename(old, new)
    /\ CanRelocate(old, new)
    /\ IF back
       THEN /\ dirs' = PutBack(Moved(dirs, old, new), old, new)
            /\ UNCHANGED <<heads, torn>>
       ELSE /\ Relocated(old, new)
            /\ torn' = torn \union {repos[old], dirs[old]}
    /\ moves' = moves + 1
    /\ UNCHANGED <<repos, info, aliases, transfers, rows, counters, deployments, session, used,
                   made, writes>>

\* The persist commits and reports an error, the directory is put back, and the
\* process stops before a later write corrects the file: the next one loads the
\* new registry.
RenameStoppedLate(old, new) ==
    /\ MayRename(old, new)
    /\ CanRelocate(old, new)
    /\ MoveRegistry([aliases EXCEPT ![new] = NoAlias], repos[old], old, new)
    /\ deployments' = RefreshDeploymentSlugs(deployments, repos')
    /\ dirs' = PutBack(Moved(dirs, old, new), old, new)
    /\ torn' = torn \union {repos[old]}
    /\ session' = [w \in Callers |-> Idle]
    /\ moves' = moves + 1
    /\ UNCHANGED <<info, transfers, heads, used, made, writes>>

\* The process stops between the two writes: the next one loads the old registry.
RenameStopped(old, new) ==
    /\ MayRename(old, new)
    /\ CanRelocate(old, new)
    /\ Relocated(old, new)
    /\ torn' = torn \union {repos[old], dirs[old]}
    /\ session' = [w \in Callers |-> Idle]
    /\ deployments' = RefreshDeploymentSlugs(deployments, repos)
    /\ moves' = moves + 1
    /\ UNCHANGED <<repos, info, aliases, transfers, rows, counters, used, made, writes>>

\* prepare_repository_transfer: the owner changes and the name stays.  Whether
\* the new owner exists is not asked, an archived repository is not refused.
PrepareRepositoryTransfer(k, id, o) ==
    /\ moves < MaxMoves
    /\ transfers[k] = NoJournal /\ id \in Registered
    /\ LET old == SlugOf(id)
           new == <<o, old[2]>> IN
       /\ old[1] # o /\ new \in Slugs
       /\ repos[new] = NoRepo /\ aliases[new] = NoAlias
       /\ transfers' = [transfers EXCEPT ![k] =
                          [status |-> "Prepared", id |-> id, from |-> old, to |-> new, stored |-> FALSE]]
    /\ moves' = moves + 1
    /\ UNCHANGED <<repos, info, aliases, rows, counters, deployments, dirs, heads, session, used,
                   made, torn, writes>>

\* The caller moves the directory between the two phases (outside this
\* repository's code): the repository's own, from where the repository still is.
MoveStorage(k) ==
    /\ transfers[k].status = "Prepared" /\ ~transfers[k].stored
    /\ repos[transfers[k].from] = transfers[k].id
    /\ dirs[transfers[k].from] = transfers[k].id
    /\ CanRelocate(transfers[k].from, transfers[k].to)
    /\ Relocated(transfers[k].from, transfers[k].to)
    /\ transfers' = [transfers EXCEPT ![k].stored = TRUE]
    /\ UNCHANGED <<repos, info, aliases, rows, counters, deployments, session, used, made, torn,
                   moves, writes>>

\* commit_repository_transfer of a prepared journal.
CommitRepositoryTransfer(k) ==
    /\ transfers[k].status = "Prepared" /\ transfers[k].stored
    /\ CanRekey(aliases, transfers[k].id, transfers[k].from, transfers[k].to)
    /\ MoveRegistry(aliases, transfers[k].id, transfers[k].from, transfers[k].to)
    /\ transfers' = [transfers EXCEPT ![k].status = "Committed"]
    /\ UNCHANGED <<info, deployments, dirs, heads, session, used, made, torn, moves, writes>>

\* fail_repository_transfer, after the caller put the directory back if it is
\* where the transfer left it.
FailRepositoryTransfer(k) ==
    /\ transfers[k].status = "Prepared"
    /\ \/ /\ transfers[k].stored => dirs[transfers[k].to] # transfers[k].id
          /\ UNCHANGED <<dirs, heads>>
       \/ /\ transfers[k].stored /\ dirs[transfers[k].to] = transfers[k].id
          /\ CanRelocate(transfers[k].to, transfers[k].from)
          /\ Relocated(transfers[k].to, transfers[k].from)
    /\ transfers' = [transfers EXCEPT ![k].status = "Failed"]
    /\ UNCHANGED <<repos, info, aliases, rows, counters, deployments, session, used, made, torn,
                   moves, writes>>

-----------------------------------------------------------------------------
(* Settings of a repository, each under one write lock                         *)
SetRepositoryArchived(s, archived) ==
    /\ repos[s] # NoRepo /\ info[repos[s]].archived # archived
    /\ info' = [info EXCEPT ![repos[s]].archived = archived]
    /\ UNCHANGED <<repos, aliases, transfers, rows, counters, deployments, dirs, heads, session,
                   used, made, torn, moves, writes>>

\* set_repository_default_branch: HEAD first, then the registry under the lock;
\* the branch exists in git.
PointHeadAt(w, s, b) ==
    /\ session[w] = Idle /\ writes < MaxWrites
    /\ repos[s] # NoRepo /\ dirs[s] # NoRepo
    /\ heads' = [heads EXCEPT ![s] = b]
    /\ writes' = writes + 1
    /\ session' = [session EXCEPT ![w] =
                     IF info[repos[s]].branch = b THEN Idle
                     ELSE [step |-> "default branch", slug |-> s, key |-> b]]
    /\ UNCHANGED <<repos, info, aliases, transfers, rows, counters, deployments, dirs, used, made,
                   torn, moves>>

\* Mutant: the new default branch gets no rule.
SetDefaultBranchOnly(w) ==
    /\ session[w].step = "default branch"
    /\ IF repos[session[w].slug] = NoRepo THEN UNCHANGED info
       ELSE info' = [info EXCEPT ![repos[session[w].slug]].branch = session[w].key]
    /\ session' = [session EXCEPT ![w] = Idle]
    /\ UNCHANGED <<repos, aliases, transfers, rows, counters, deployments, dirs, heads, used, made,
                   torn, moves, writes>>

SetDefaultBranch(w) ==
    /\ session[w].step = "default branch"
    /\ LET s == session[w].slug
           b == session[w].key IN
       IF repos[s] = NoRepo THEN UNCHANGED <<info, rows>>
       ELSE /\ info' = [info EXCEPT ![repos[s]].branch = b]
            /\ rows' = EnsureDefaultProtection(rows, s, repos[s], info'[repos[s]])
    /\ session' = [session EXCEPT ![w] = Idle]
    /\ UNCHANGED <<repos, aliases, transfers, counters, deployments, dirs, heads, used, made, torn,
                   moves, writes>>

\* reconcile_repository_heads for one repository.
ReconcileHead(s) ==
    /\ repos[s] # NoRepo /\ dirs[s] # NoRepo
    /\ heads[s] # info[repos[s]].branch
    /\ heads' = [heads EXCEPT ![s] = info[repos[s]].branch]
    /\ UNCHANGED <<repos, info, aliases, transfers, rows, counters, deployments, dirs, session,
                   used, made, torn, moves, writes>>

\* set_default_branch_protection_opt_out: opting out drops the rule of the
\* default branch when it is still the automatic one.
SetOptOut(s, optOut) ==
    /\ repos[s] # NoRepo /\ info[repos[s]].optOut # optOut
    /\ optOut => ~RequiresStatus(rows, s)
    /\ info' = [info EXCEPT ![repos[s]].optOut = optOut]
    /\ rows' = IF optOut
               THEN {x \in rows : ~(x \in Rules(rows, s) /\ x.key = info[repos[s]].branch
                                     /\ x.value = "automatic")}
               ELSE EnsureDefaultProtection(rows, s, repos[s], info'[repos[s]])
    /\ UNCHANGED <<repos, aliases, transfers, counters, deployments, dirs, heads, session, used,
                   made, torn, moves, writes>>

DeleteBranchProtection(s, b) ==
    /\ repos[s] # NoRepo /\ ~info[repos[s]].archived
    /\ ~(info[repos[s]].branch = b /\ DefaultRuleIsMandatory(s, repos[s]))
    /\ HasRule(rows, s, b)
    /\ rows' = {x \in rows : ~(x \in Rules(rows, s) /\ x.key = b)}
    /\ UNCHANGED <<repos, info, aliases, transfers, counters, deployments, dirs, heads, session,
                   used, made, torn, moves, writes>>

\* rekey_encoded_branch_protections: the plan is made from a copy of the rules
\* and git's answers, without the lock.
PlanRekey(w) ==
    /\ session[w] = Idle
    /\ \E x \in rows : /\ x.table = "rules" /\ x.key \in Encoded
                       /\ session' = [session EXCEPT ![w] = [step |-> "rekey", seen |-> x]]
    /\ UNCHANGED <<repos, info, aliases, transfers, rows, counters, deployments, dirs, heads, used,
                   made, torn, moves, writes>>

\* decide_rekey under the lock, no branch having the encoded name and the decoded
\* one existing: re-key, remove, or keep.
DecideRekey(x) ==
    LET target == [x EXCEPT !.key = Decoded(x.key)] IN
    IF \/ x \notin rows \/ repos[x.slug] = NoRepo
       \/ info[repos[x.slug]].archived \/ info[repos[x.slug]].branch = x.key
    THEN rows
    ELSE IF ~HasRule(rows, x.slug, Decoded(x.key)) THEN (rows \ {x}) \union {target}
    ELSE IF x.value = "status" THEN rows
    ELSE rows \ {x}

ApplyRekey(w) ==
    /\ session[w].step = "rekey"
    /\ rows' = DecideRekey(session[w].seen)
    /\ session' = [session EXCEPT ![w] = Idle]
    /\ UNCHANGED <<repos, info, aliases, transfers, counters, deployments, dirs, heads, used, made,
                   torn, moves, writes>>

-----------------------------------------------------------------------------
(* Rows under a slug: ensure_repo_exists under a read lock, then the insert    *)

EnsureRepoExists(w, t, s) ==
    /\ session[w] = Idle /\ writes < MaxWrites
    /\ repos[s] # NoRepo
    /\ session' = [session EXCEPT ![w] = [step |-> t, slug |-> s, of |-> repos[s]]]
    /\ writes' = writes + 1
    /\ UNCHANGED <<repos, info, aliases, transfers, rows, counters, deployments, dirs, heads, used,
                   made, torn, moves>>

Row(w, t, k, v) ==
    [table |-> t, slug |-> session[w].slug, key |-> k, value |-> v, of |-> session[w].of,
     timely |-> repos[session[w].slug] = session[w].of]

\* The insert and its persist.  stage_state refuses a row whose slug is no
\* repository's, and persist_after_mutation puts the previous state back.
Inserted(w, t, r, n) ==
    /\ session[w].step = t
    /\ session' = [session EXCEPT ![w] = Idle]
    /\ IF repos[session[w].slug] = NoRepo
       THEN UNCHANGED <<rows, counters>>
       ELSE /\ rows' = Put(rows, r)
            /\ counters' = [counters EXCEPT ![session[w].slug] = n]
    /\ UNCHANGED <<repos, info, aliases, transfers, deployments, dirs, heads, used, made, torn,
                   moves, writes>>

Stay(w) == counters[session[w].slug]

\* create_label refuses a name that is there.
CreateLabel(w) ==
    /\ session[w].step = "labels"
    /\ ~\E x \in rows : SameKey(x, Row(w, "labels", "bug", "label"))
    /\ Inserted(w, "labels", Row(w, "labels", "bug", "label"), Stay(w))

LabelExists(w) ==
    /\ session[w].step = "labels"
    /\ \E x \in rows : SameKey(x, Row(w, "labels", "bug", "label"))
    /\ session' = [session EXCEPT ![w] = Idle]
    /\ UNCHANGED <<repos, info, aliases, transfers, rows, counters, deployments, dirs, heads, used,
                   made, torn, moves, writes>>

\* next_record_number, then the insert.
CreateIssue(w) ==
    LET n == counters[session[w].slug] + 1 IN
    Inserted(w, "issues", Row(w, "issues", n, "issue"), n)

CreateWebhook(w) == Inserted(w, "webhooks", Row(w, "webhooks", "hook", "hook"), Stay(w))

SetRepositoryReadme(w) == Inserted(w, "readmes", Row(w, "readmes", "readme", "text"), Stay(w))

GrantRepoAccess(w) == Inserted(w, "grants", Row(w, "grants", "person", "write"), Stay(w))

SetBranchProtection(w, b, v) == Inserted(w, "rules", Row(w, "rules", b, v), Stay(w))

RevokeRepoAccess(s) ==
    /\ \E x \in At(rows, s) : x.table = "grants"
    /\ rows' = {x \in rows : ~(x.slug = s /\ x.table = "grants")}
    /\ UNCHANGED <<repos, info, aliases, transfers, counters, deployments, dirs, heads, session,
                   used, made, torn, moves, writes>>

\* create_deployment finds the repository and inserts under one lock.
CreateDeployment(s) ==
    /\ repos[s] # NoRepo /\ writes < MaxWrites
    /\ deployments' = deployments \union {[of |-> repos[s], slug |-> s]}
    /\ writes' = writes + 1
    /\ UNCHANGED <<repos, info, aliases, transfers, rows, counters, dirs, heads, session, used,
                   made, torn, moves>>

RowInsert(w) ==
    /\ session[w] # Idle
    /\ \/ CreateLabel(w)
       \/ LabelExists(w)
       \/ CreateIssue(w)
       \/ CreateWebhook(w)
       \/ SetRepositoryReadme(w)
       \/ GrantRepoAccess(w)
       \/ \E b \in Branches, v \in {"custom", "status"} : SetBranchProtection(w, b, v)

RepoNext ==
    \/ \E w \in Callers :
         \/ \E s \in Slugs, id \in RepoIds, b \in Branches : CreateRepository(w, s, id, b)
         \/ \E s \in Slugs, b \in Branches : PointHeadAt(w, s, b)
         \/ \E s \in Slugs, t \in Tables : EnsureRepoExists(w, t, s)
         \/ Materialize(w) \/ SetDefaultBranch(w) \/ PlanRekey(w) \/ ApplyRekey(w)
         \/ RowInsert(w)
    \/ \E s \in Slugs :
         \/ DeleteRepository(s) \/ ReconcileHead(s) \/ RevokeRepoAccess(s) \/ CreateDeployment(s)
         \/ \E x \in BOOLEAN : SetRepositoryArchived(s, x) \/ SetOptOut(s, x)
         \/ \E b \in Branches : DeleteBranchProtection(s, b)
         \/ \E t \in Slugs :
              \/ RenameRepository(s, t) \/ RenameStopped(s, t) \/ RenameStoppedLate(s, t)
              \/ \E back \in BOOLEAN : RenameNotPersisted(s, t, back)
    \/ \E k \in TransferKeys :
         \/ \E id \in RepoIds, o \in Owners : PrepareRepositoryTransfer(k, id, o)
         \/ MoveStorage(k) \/ CommitRepositoryTransfer(k) \/ FailRepositoryTransfer(k)

RepoSpec == RepoInit /\ [][RepoNext]_repoVars

-----------------------------------------------------------------------------
(* Properties                                                                  *)

\* A row written while its repository was at the slug is at the slug of that
\* repository for as long as both exist.
RowsFollow == \A x \in rows : x.timely => repos[x.slug] = x.of

\* An alias leads to its repository in one hop, however often it moved
\* (resolve_repository, "one hop is the whole chain").
AliasesLeadHome == \A s \in Slugs : aliases[s] # NoAlias => repos[aliases[s].canonical] = aliases[s].of

\* A repository that did not opt out has a rule on its default branch, through
\* creation, renames, transfers, changes of the default branch and of the
\* opt-out, removed rules and the repair of encoded names.
DefaultBranchIsProtected ==
    \A s \in Slugs : repos[s] # NoRepo /\ ~info[repos[s]].optOut => HasRule(rows, s, info[repos[s]].branch)

\* A repository's slug leads to its own data: the directory made for it is at
\* its slug.  The exceptions are named: a transfer is between its two phases, the
\* process stopped in the middle of a rename, the directory of a refused rename
\* could not be put back, or a rename took the directory of one repository for
\* that of another (write_repository_rename, relocate_bare).
DiskFollowsRegistry ==
    \A s \in Slugs :
        (repos[s] \in made \ torn
          /\ ~\E k \in TransferKeys : /\ transfers[k].status = "Prepared" /\ transfers[k].stored
                                       /\ transfers[k].id = repos[s])
        => dirs[s] = repos[s]

\* A move or a delete takes everything along, and a repository is whole between
\* them: no row and no old name of it is left at a slug where another repository
\* would find it, its slug leads to its own directory but in the cases
\* DiskFollowsRegistry names, and its default branch is never left without a
\* rule, whatever its name (rekey_repository, record_alias, delete_repository,
\* relocate_bare, set_repository_default_branch, rekey_encoded_branch_protections).
RepositoriesStayWhole ==
    RowsFollow /\ AliasesLeadHome /\ DiskFollowsRegistry /\ DefaultBranchIsProtected
=============================================================================
