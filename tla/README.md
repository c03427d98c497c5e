# A verification project for jeryu-core

jeryu-core is the state engine of a git forge: repositories, pull requests, reviews, the merge
gate, accounts and their credentials, held in memory by `ForgeCore` and written whole to SQLite
after every change. `jeryu-gitd` serves git itself. This project models the parts whose
correctness depends on the order of calls, on what happens between two calls, and on what survives
a failed write or a restart.

The paths below are under `crates/`; `engine/…` is `jeryu-core/src/engine/…`.

## 1. Inventory

| Component | State it keeps | Operations | What is hard |
|---|---|---|---|
| Pull requests (`engine/pull_requests.rs`) | record per number: head, base, diff identity, commit facts, mergeability, merge commit | create, edit, refresh heads, retarget, record base, readiness, finalize | a merge is two calls with git in between; every write ends in a re-evaluation |
| Reviews (`engine/reviews.rs`, `branch_protection/reviews.rs`) | append-only ledger of verdicts and dismissals | review, dismiss own, dismiss another's | which verdict counts after rewinds, rewrites, dismissals, retargets |
| Merge gate (`branch_protection/evaluate.rs`, `codeowners.rs`) | rule per branch, CODEOWNERS | set, delete, evaluate | pinned statuses, newest answer, check-run fallback |
| Override (`engine/merge_overrides.rs`) | permit held by the caller, audit receipts | prepare, finalize with permit | ten minutes during which anything may change |
| Statuses and check runs (`engine/commit_status.rs`, `check_runs.rs`) | rows per head | append, then refresh stored mergeability | arrival order against publication time |
| Provider connections and vault (`engine/provider_connections.rs`, `vault.rs`) | sealed secret per connection, rotation marker, lock table | connect, disconnect, bind, refresh | a provider call outside every state lock; crash and half-failed writes |
| Durable store (`engine/storage.rs`, `storage/`) | the SQLite file, its locks and identity; one row per record | open, persist, persist with audit, append audit, load | commit and error at once; two processes; replaced files; order of rows under unique keys |
| Migrations (`storage/migrations.rs`) | columns, table shapes, backfilled values; no version number | every open runs every step | a stop between two statements; foreign keys off during a rebuild |
| Repositories (`engine/repositories.rs`, `repository_rename.rs`, `repository_transfer*.rs`) | repository by slug, aliases, transfer journals, every row kept under a slug, the bare directory | create, archive, rename, transfer, delete, default branch, opt-out | a move re-keys everything; the directory and the registry are two writes; writers that looked before the lock |
| Accounts, sessions, recovery (`engine/auth.rs`, `accounts.rs`, `password_recovery.rs`, `organizations.rs`) | accounts with an auth epoch, sessions, tokens, recovery secrets, invitations, organizations, teams | sign in, change, reset, force, recover, lock, invite, activate | a credential issued between two locks while the password changes |
| Bots (`engine/bots.rs`, `bot_tokens.rs`, `team_bots.rs`) | keys, refresh families, reach, grants, reservations, activity | enroll, exchange, refresh, revoke, authorize, reserve, finish, observe | replay of a rotated token; grants by id against reach by name; late finishers |
| Deployments, scores, waitlist (`engine/deployments.rs`, `jankurai.rs`, `waitlist.rs`) | append-only trails and capped lists | append, supersede, list | one write of several rows; caps that drop the oldest |
| Webhooks, audit, readmes, labels | single-record tables | append, list | little |
| Git refs (`jeryu-gitd/src/refs.rs`, `repo.rs`, `pack.rs`, `hooks.rs`) | refs of a bare repository, archive marker, push marker | update, merge, push, archive, import | each git call is atomic, nothing between two of them is |
| Pack services (`pack_rpc.rs`, `command.rs`) | admission slots, pumps, child processes | buffered and streamed requests | waiting with a deadline; three threads and a child that may each stop |
| Git edges (`smart_http.rs`, `ssh.rs`, `auth.rs`) | the bytes of a request; the token registry file | judge a push, authorize, mint | bodies in pieces; one temporary file for all commands |
| LFS (`lfs.rs`) | published objects, temporary files | upload, batch, verify, download | two uploads of one object; a machine stop around the rename |
| Mirror and restore (`jeryu-mirror`, `jeryu-mirror-cli`) | bundle files, catalog, restore target, imported repositories, mirror copies | back up, verify, register, restore, import, sync | commands that stop halfway or overlap |
| Overlap routing (`jeryu-core/src/overlap.rs`), proof planning (`jeryu-proof`) | none between calls | route; plan, verify | the order of the inputs must not matter |
| Bug tracker (`jeryu-bugtracker`) | bugs, events, attempts, idempotency keys | submit, update, attempt, list | retries after triage |
| Enterprise checks, read models, terminal interface, identifiers | none or views | none | none |

How they interact: every engine call takes `ForgeCore`'s one read-write lock, changes a clone or
keeps one to roll back to, and calls `persist_after_mutation`; components therefore meet in the
shared `State` and at the few places where a call lets go of the lock and comes back (two-phase
merge, provider refresh, rule rekeying, repository transfer, enrollment, sign-in and password
changes) or looks at something before it takes the lock. Callers outside (HTTP edge, gitd, gateway) keep what a first call returned and hand it
to a second.

`PROJECT.json` lists every component with its status, and under `hazards` the places where this
code can go wrong in ways a unit test hardly reaches, with the properties that would notice.

## 2. Plan

Every part of the plan that carries state is modelled. The order was: the merge decision; provider
connections; bot credentials; the store with its refinement, rows and migrations; accounts;
repositories; git refs, pack services, edges and LFS; backups and mirrors; the bug tracker; the
two planning algorithms.

Every property the passing runs check is a theorem now (section 5), but for the two liveness
properties.

## 3. Modules

| Module | Models | Notes |
|---|---|---|
| `ReviewLedger` | `branch_protection/reviews.rs`, `standing_approval` | constant operators: which rows of a ledger count at a head, with a diff identity, under a reach |
| `ReviewLoop` | the loop of `reduce_reviews` | checked and proved equal to the closed form of `ReviewLedger` |
| `BranchProtection` | `evaluate.rs`, `model/checks.rs`, `codeowners.rs`, the checks of `merge_overrides.rs` | blockers of a pull request, override conditions, evidence |
| `PullRequests` | the calls of section 1's first five rows | the state machine; extends the two above |
| `PullRequestsProofs` | | theorems about `PullRequests` |
| `ReviewProofs` | | theorems about `PullRequests`, on the ones before, about `ChangeRouting`, and about `ReviewLoop` |
| `ProviderConnections` | provider connections, vault binding, persist outcomes, reopening | state machine |
| `BotCredentials` | `bots.rs`, `bot_tokens.rs`, `team_bots.rs`, and the account and team changes that cut bots off | state machine |
| `ProviderProofs` | | theorems about `ProviderConnections` |
| `StoreProofs` | | theorems about `ForgeStore`, its refinement of `DurableState`, `SnapshotRows`, `Migrations`, and `GitEdge` |
| `BotProofs` | | theorems about `BotCredentials` |
| `GitProofs` | | theorems about `PackService`, `GitRefs`, `LfsStore`, `GitAuth`, `MirrorBackup` |
| `AccessProofs` | | theorems about `Accounts`, `BotReach`, `BotActivity`, `Records` |
| `RepositoryProofs` | | theorems about `Repositories` and `BugTracker` |
| `ForgeStore` | custody of a database file, the steps of an open, persist and its outcomes | implements `DurableState` |
| `DurableState` | the promise: acknowledged mutations stay, refused ones return at most after a restart | abstract |
| `SnapshotRows` | staging, reconciling and loading of every table | state machine |
| `Migrations` | `apply_migrations`, statement by statement | state machine |
| `Accounts` | `auth.rs`, `accounts.rs`, `password_recovery.rs`, `organizations.rs` | state machine |
| `Repositories` | creation, moves, rules of the default branch, rows under a slug, the bare directory | state machine |
| `BotReach` | enrollment, grants, reach, `authorize_bot`, rosters | state machine |
| `BotActivity` | `reserve_bot_operation`, `finish_bot_operation`, observations and their log | state machine |
| `Records` | deployments, scores, waitlist | state machine |
| `Sublists` | lists without some of their entries | constant operators of `BotActivity` and `Records` |
| `GitRefs` | refs, merges, pushes, archive marker | state machine |
| `PackService` | admission gate, pumps, children | state machine, fairness |
| `GitEdge` | a push at the HTTP edge, as cells | state machine |
| `GitAuth` | the token registry and authorization | state machine |
| `LfsStore` | LFS objects | state machine |
| `MirrorBackup` | bundles, restores, imports, mirror syncs | state machine |
| `BugTracker` | the bug store | state machine |
| `ChangeRouting` | `decide_from_scores`, `plan`, `verify` as loops | checked against definitions over sets |
| `MCReviews`, `MCMerge`, `MCOverride`, `MCProviderConnections`, `MCBotCredentials`, `MCMigrations` | | instances for TLC |
| `MCServices`, `MCComponents`, `MCStore`, `MCLiveness` | | instances of several modules that share no state: a variable `focus`, chosen at the start, says which of them moves |

### PullRequests

`pulls`, `reviews`, `rules`, `ruleRev` (a rule's `updated_at`), `statuses`, `runs`, `codeowners`,
`admins` and `audit` are the tables of `State` and the audit log that these calls use. `edge`
holds what each caller of the two-phase merge keeps between `evaluate_merge_readiness` or
`prepare_merge_override`, the git merge, and finalize. `given` is history: the base branch a
review row was written for.

An action is a whole call under the write lock, its closing `apply_evaluation` or
`refresh_pull_mergeability_for_sha` included (`Evaluated`, `RefreshForSha`). A call whose write
fails restores the previous memory and is therefore no step, except where a receipt was written
first: `DismissOtherReviewFails` and `FinalizeEnds` are those. `DiffIdentity`, `GitMerge` and
`ChangeAdministrator` stand for git and for the grants of other components. Commits, branches,
logins and paths are opaque; a commit range is the two facts the gate asks of it; of the issue
behind a pull request, its state; a head's content decides its patch id.

### ProviderConnections

`mem` and `disk` are the rows and active accounts as `ForgeCore` and SQLite hold them; the
properties relate the two. A write is `saved`, `lost`, or `late`: committed, then reported as an
error, because `SqliteStore::persist` drops its staging tables after the commit.
`PersistAfterMutation` and `PersistFence` are the two ways the code answers an error. A session
goes `idle -> waiting -> entered -> asking -> answered -> leaving`: the places where
`refresh_provider_secret` and `refresh_locked` hold no state lock. `table` and `holder` are
`RefreshLocks` and the mutexes in it, with reference counting by `Refs`. `ProviderAnswers` is the
provider: it may rotate, refuse, revoke, or leave the caller without an answer, with the secret
spent or not. `Restart` may happen anywhere, with any vault key; a request already at the provider
may still be answered there. `issued`, `consumed`, `handed` and `fenced` are history. A secret is
its number, a seal its key and the changing part of its binding.

### BotCredentials

`bots`, `keys`, `refresh`, `operations` and `agents` are the tables of `State`; a record's place
in its table stands for its id and its `created_at`. `account` is status and `auth_epoch`,
`members` the teams of one organization. `enrolling` holds enrollments between the read of the
account and `store_enrolled_bot`, which does not look at the account again; every other call
checks under the write lock whatever it looked at before, and is one action. `answers` and the
field `under` are history: who got which successor, and the epoch behind a credential when it was
made.

`PasswordPath` is what reset, change, forced change and recovery of a password have in common for
bots; `TransitionAccountStatus` is the status machine. `AcceptsKey`, `AcceptsRefresh` and
`AcceptsAgent` are the conditions of the three authenticating calls, and the properties are about
them. `rotate_bot_refresh_token_idempotent` has four outcomes that differ in what they leave:
`RotateIdempotent`, `ReplayRotation`, `ReuseIdempotent` and `RefuseIdempotent`. The clock counts
ticks; the grace is one of them, a refresh token lives for two.

### The store: ForgeStore, DurableState, SnapshotRows, Migrations

`ForgeStore` has names, files, the two locks and, per opener, where it is in `open_bound`. Files
may be moved or linked under a name between any two steps (`fsMoves`), two openers may race, a
process may stop anywhere. A mutation is one name in a set: `disk[f]` holds those in the file,
`store[o].mem` those in the memory of the opener. `DurableState` knows only, per file, what
callers see (`value`) and what the file holds beyond that (`doubt`). The refinement maps `value`
to the memory of the opener that holds the file (to the file itself when nobody does) and `doubt`
to the difference. A commit is `Write`, a return is `Acknowledge`, the late error of `persist` is
a `Write` without one, a stop or a close is `Restart`. That the memory is put back on an error
and that one opener holds a file at a time are what make the mapping work; the mutant breaks the
first.

`SnapshotRows` says what is in such a file. A map of `State` is a set of keyed rows, a list a set
of rows with rowids; rows are scoped by repository id although memory is scoped by slug. The
tables that behave alike are written once (`StagedMaps`, `StagedLists`) and named by the sections
of `stage_state` and `load_state`. Of the schema it has the keys, the foreign keys to the
repository, the account, the bot, the invitation and the issue (`Parents`, with the order of
`OWNED_TABLES` in `Place` and the cascades in `Kept`), the unique columns beside the key of
repositories, invitations and bots, and the CHECKs, as the `fits` a caller brings. A mutation is
refused when its value does not fit (the calls do not look at the name of a webhook or of a default
branch) or when its repository was deleted after the caller looked; refusals of any other kind are
counted and must not occur. `Reopen` ends in the repairs of `open`: counters, rules of default
branches, rotations left unfinished, dead recovery secrets. Events carry the time their caller
read before its lock, so they may stand in another order than they are read back in. `Migrations`
is the sequence of statements an open runs, with a stop possible between two that no transaction
joins.

### Accounts and Repositories

Both have callers between two locks: `caller` and `session` hold what was read under the first.
In `Accounts`, `revoked` counts the times a login's credentials were revoked and a credential
remembers the count at the lookup of its account, so that "issued before" has a meaning that is
not the epoch's own. In `Repositories`, `rows` is every map keyed by slug, each row with the
repository it was written for and whether the writer still found it there (`timely`); a writer
that comes late does insert under a slug that may by then lead elsewhere, which the code allows
and the property leaves out. `made` and `torn` say which directories can be expected to follow: a
rename whose write is refused puts the directory back, but discards the error when that fails
too, and a rename that stops between its two writes does not come to it (`RenameNotPersisted`,
`RenameStopped`, `RenameStoppedLate`). A default branch may have any name, an encoded one included.

### Git: GitRefs, PackService, GitEdge, GitAuth, LfsStore

Every git process is one step, because git locks the ref itself; everything else a request does is
a step of its own. In `GitRefs` a push over HTTP is judged by the edge, one over SSH by the hook
alone, and the hook is modelled as installed. `PackService` has the mutex and condition variable
of the gate, with lost races after a wake-up and a deadline that may pass at any time. Git is a
child that reads, writes and exits at its own pace between two pipes of `PipeSize` chunks: a
buffered request writes its whole body before it reads any output, a streamed one has a thread for
each pipe, and its client may stop sending or stop reading for good. In `GitEdge` a
byte is a cell and a packet two header cells and its payload; that is enough for a read to end
inside a header, inside a payload and past the flush. A streamed body is answered 200 before git
has any of it; a whole one waits for a slot and is answered after git, with 503 when there is no
slot and 500 when git failed. `GitAuth` has one process per command with
its own copy of the file and the one temporary path they share. Any owner may be given a token,
`local-operator` included, which the code takes for the operator. `LfsStore` has file contents,
renames and flushes as separate steps.

### The rest

`BotReach` keeps, beside the tables, the grants administrators stand by (`allowed`): what a bot
may do is compared with those, not with the table. `BotActivity` and `Records` hold memory and
file, as writes may be refused. The calls of both that read the clock before they take the lock
(`reserve_bot_operation`, `note_bot_observation`, `record_jankurai_score`) bring their reading with
them (`read`), any instant up to the present: two callers may arrive in the other order.
`overtaken` names the bots of which that happened, `rewound` says whether a commit's score was
replaced by an older one. `MirrorBackup` has four parts that share nothing: bundle, restore,
import, sync. Its archives have branches, issues, webhooks and an installed app; a restore prints
the last two and creates neither, and drift counts all but the app. git clone, fetch and push may
be killed: a clone leaves a repository without refs, a push part of the refs. `BugTracker` has bugs with ids that are digests of report and time. `ChangeRouting`
steps through the loops of the code; the properties are stated over sets.

## 4. Runs

| Run | Instance | Shows |
|---|---|---|
| `reviews` | one pull request, two heads with one diff, two reviewers of whom one administers, three review rows, a strict and a lax branch | `ExactApprovalsJudgedThisBase`, `DutiesSeparated`, `DismissalReceipted`, `DismissalNeverRecovers` |
| `merge` | two interchangeable callers, two heads, two bases, two branches to target | `MergeRecordsWhatGitMerged`, `MergedIsFinal`, `ClosedUntilEdited` |
| `override` | a required context, four status rows (one pinned to another base, one by the administrator), a check run, one rule change, the grant may go | `OverrideReceiptMeansMerged`, `NoMergeOverHold`, `OnlyAuditedBypass`, `ProofAnswersThisBase`, which also compares what `combined_status_for_base` and the suites show with the gate |
| `services` | one user's connection with two sessions, two locks, two keys, three secrets and generations; one bot, two people, two places, five changes; three callers of an operation; two bots' heartbeats; two bots observed; two deployments with three statuses | the six safety properties of `ProviderConnections`, `BotsStayWithinGrants`, `ActivityIsTrue`, `RecordsAreTrue` |
| `liveness` | a service's connection with two sessions; three buffered requests for one slot and one streamed request, pipes of one chunk, two chunks of output | `RefreshEnds`, `SlotsAndRecordsBalance`, `RpcsEnd` |
| `bot_credentials` | one person who also runs an organization and may join its team, one bot, two enrollments in flight, two keys, three refresh tokens, one agent token, two request bodies, three epochs | `OldEpochIsRefused`, `OneSuccessor`, `UnrevokedIssuersSteward`, `RefusedStaysRefused` |
| `components` | two writers of four refs; two uploads of two objects and a machine stop; two commands on the registry; two repositories, three slugs, two moves; two logins with two requests in flight; all ledgers of three rows; two backups, three archives, four import paths, syncs; two submissions of a bug | `RefsMoveByTheRules`, `PublishedIsWhole`, `TokensNameTheirOwner`, `RepositoriesStayWhole`, `NoCredentialOutlivesARevocation`, `LoopAgrees`, `MirrorsAreWhole`, `BugTrailIsTrue` |
| `store` | three files, two names, two openers, two moves of files; two repositories, eight maps and two lists, four mutations; opens that stop twice; every body of up to three packets in every division; every two open pull requests, every change of two paths | `StoreIsDurable` (the refinement), `ReopenRestoresState`, `OpenedFileIsWhole`, `GitGetsWhatWasJudged`, `ChangesAreHeldToProof` |
| `retarget`, `provider_fence`, `bot_reuse`, `family_seed` | | the four findings, as counterexamples |

Bounds. Three review rows are the fewest in which a verdict is replaced and the replacement is
dismissed; two heads let a push be rewound; two callers are what it takes for one finalize to find
the other's merge; two statuses and a run give an older success against a newer failure. Three
secrets and three generations allow a connect, a rotation and a reconnect that overtakes a
refresh; two sessions and two locks allow a stranger to get a lock while another is released. For
bots, three epochs are a lock and the way back to active; two enrollments in flight with different
epochs make one of them lose the slug; three refresh tokens exceed the cap of two, or are a
rotation and a rotation of its successor; two ticks end the grace and then the lifetime. Five
changes create, grant, rename, delete and create again. Two moves of a repository make a chain of
aliases and let a freed name be taken; one writer at a time between its locks is enough because
the moves come from others. Two requests are a credential being issued and the change it misses.
Two writers are a check and the move that overtakes it. Three buffered requests on one slot are a
holder, a waiter and one that overtakes the waiter. Four mutations create, number, rename and
delete; two stops let an open meet what a stopped open of a stopped open left. Two openers and two
moves of files replace a database between its lock and its binding. Every name that begins with
`Max`, and the sizes of the sets in a `.cfg`, are the only bounds; `FailureLimit`, `ActivityCap`,
`MaxScoresPerBranch`, `MaxWaitlist`, `MaxOwners`, `MaxAttempts` and the like are limits of the
code, made small. Larger instances checked once, each alone: three deployments with three
statuses (2 664 174 states), five changes of reach from an empty forge (464 464), three backups
(421 484); all hold.

Runs that hold several modules lose nothing by it: the parts share no variable and no part moves
while another does, so the states are the union of the parts' states.

Deadlock is not checked where tables are bounded or callers may all be done: the instance stops
then, as the program does when nobody calls it. Where a stop would be a fault, the waiting threads
of `PackService` and `ProviderConnections`, a liveness property says that they end.

Fairness is assumed in one place, `LiveSpec` of `MCLiveness` (the same conditions as `FairSpec` of
`ProviderConnections` and `PackFairness` of `PackService`): weak fairness of each refresh session's
own steps and of each request's own threads. A waiter for a refresh uses `try_lock_for` with a
timeout (`RefreshBusy`), and the holder's exchange ends because the gateway's requests time out. A
waiter for a slot uses `wait_timeout` and compares with its deadline, so its own steps suffice
though others may take every slot. A pump is fair only in what the operating system lets it do: it
reads what is there and writes where there is room. Git is fair in that it reads its input,
finishes a write there is room for and exits at the end of its input; when it writes, and how much
(up to `MaxOutput`), is its own affair. Nothing is assumed of a client: it may never send the rest of its body and may
stop reading what it is sent. `RpcsEnd` therefore names the two ways a request can hang in this
code: `Wedged`, where `run_with_stdin` writes a body nobody reads because git writes output nobody
reads, and `Stalled`, where `io::copy` writes to a socket whose client has stopped reading and
which has no write timeout. A streamed request is promised to end from the moment its body is in,
git has closed its output, or the socket has failed, which is when the code cancels the input. The
code promises nothing about calls nobody makes, so no other action is fair.

Every property has a mutant in `PROJECT.json`: a definition replaced by one with a plausible bug
(the operators marked "Mutant of" in the modules), under which TLC finds it violated. Properties
that are a conjunction of named parts have further operators of that kind, one per part
(`RecordAliasOnly`, `SetDefaultBranchOnly`, `CreatesAnyhow`, `RegistersAnyhow`, `AfterFailure`,
`HookTrustsRequest`, `ShowReach`, `MovedAnchor`, `CapAllActivity`, `NewestOf`, `LanesOfAnyPath`,
`AnyEvidenceOf`, `AnyTransition`, `LeftReading`, `BumpFamilyOnly`, `CapSpentRefresh`,
`UnusedButOne`), which the same run refutes.

## 5. Theorems

All are for every value of the constants, from the named assumptions of the modules alone. Those
say that the constants are what they are called: numbers are natural (and not zero where the code
has a positive limit), sentinels are not values, what is a set of lists holds lists, a table of
roles names people who exist. `PullAssumptions` adds the types of status rows and check runs;
`GitRefsAssumption` what git promises of ancestry and of a merge commit; `LfsAssumption` that
contents with one digest are one content; `MirrorAssumption` and `ArchivesAreLists` the
shape of an archive. The conjuncts of a property are proved one by one and joined in the theorem
`PROJECT.json` lists for it.

**PullRequestsProofs.** `TypeCorrect` goes action by action. `RecordedMergesAreReal` needs more
than its property: `FlightsInv` adds that a caller's flight is about a pull request that exists
(`FlightsOnPulls`) and that what git merged is what the flight was bound to (`FlightsBound`).
`StepEffects` classifies every step by what it does to a pull request (unmoved, base moved while
unmerged, merged by a bound flight), from which `MergesAreFinal` follows. `OverrideReceiptsAreTrue`
uses the same classification.

**ReviewProofs.** `LedgerInv` strengthens separation of duties with the shape of ledgers
(dismissals name earlier verdicts) and, for `ExactApprovalsAreForThisBase`, quantifies over all
heads at once: a rewind may return to any head, so an approval that would count at any head must
have been given for the present base. `DismissalsNeverRecover` and `HoldsAreHonoured` rest on
lemmas about appending one row to a ledger.

`ClosedStaysClosed` reads `StepEffects` once more. `BypassesAreAudited` needs that a
flight under an override carries the permit and receipts it was given, and that a readied merge
the gate refuses now is turned away at finalize. `ProofsAnswerThisBase` is about operators: the
newest row of a context is unique because rows are numbered, and filtering by base commutes with
taking the newest; the maximum of a finite set exists by a least counterexample.

`LoopSelects` is about the loop of `reduce_reviews`. What the loop keeps after a prefix of a ledger
is shown to be exactly the effective verdict of each reviewer among the rows of that prefix
(`LatestAfter`), by induction up to the length of the ledger: a row that does not count changes
nothing, a dismissal takes its target away only where the target is what is kept, and a later
verdict of a reviewer takes the place of an earlier one. At the end the prefix is the ledger, so
the two definitions select the same rows, whatever the ledger is.

For `ChangeRouting`, the loop's invariant says that the best so far supersedes all it has looked
at; superseding is shown to be a total order of scores, compared as fractions, with the lower
number first among equals, so the answer does not depend on the order of the list. The witness is
proved path by path: what a path owes is owed by the plan, and evidence of a lane is its last run.

**ProviderProofs.** `RefreshInv` is asked of single rows (`GoodRow`), in memory and in the
database alike, so that a write need only produce a good row whichever of its three outcomes it
has. It says: a seal matches its row and holds a secret issued for that connection, marked if the
secret is spent or in flight; no row is older than what was handed out, fenced or leased; the
database is not behind the memory; a session that refers to a lock finds it in the table; and what
a refresh in flight knows of its secrets. The lock part makes a refresh alone on its connection,
and a secret belongs to one connection, hence no two refreshes hold one secret. The six safety
theorems are consequences. `LocksDrain` needs more (`DrainInv`): no lock stands in the table for two
connections, so a lock that outlives a release is referred to for the connection it stands for.

**StoreProofs.** `StoreInv` is custody: whoever is past a step of an open has what the step gives
(`HasIt`), the nonce in a file is of a store bound to that file, and memory is never ahead of the
file, except for the write in progress. From it, one opener holds a file (`OneHolder`), so what is
seen of a file is its holder's memory, and each step is mapped: a commit to `Write`, a return to
`Acknowledge`, a stop or a close to `Restart`, everything else to a stutter. For `Migrations` the
plan is first computed (`PlanIs`: which statement stands at which place); `MigInv` then says that
every statement behind the present one has left what it leaves, and that no open is in a seed of a
family that somebody edited. It is inductive because a stop returns to the first place and
statements are guarded by what they leave. For `GitEdge`, `Laid` says at which cell of a body each
packet starts, and `EdgeInv` that the scan stands at such a cell with no flush behind it, so the
edge can never take payload for a length. The reader of a whole body looks only ahead, so what it
reads is found backwards from the flush (`Parsed`), by induction up to a bound over a set
(`UpTo`), which needs no theorem with an operator parameter; hence what is judged is what git will
find (`Judged`). What git is given is a start of the body however many cells reach it, and before
it is spawned it has nothing, which is where every answer but the late 500 comes from. It is
assumed that an object id is not the name `refs/heads/main`.

For `SnapshotRows` the invariant (`RowInv`) speaks of a state the rows show: `Shown(rows, s)` says
that each row is one `stage_state` would stage for `s`, but for values another release may have
loosened, that each staged row is there but for counters and default rules, and that rowids run in
the order of the lists. While the file is open that state is the one in memory, and the rows are
read back as it with its events sorted by their times; while it is closed there is one, which a
write of another release leaves as it was. `Normal` is what every state the calls reach has (a
repository has one slug and a counter no lower than its issues, a login is invited once and a bot's
slug is its own, what a row refers to is there, an id is in the lists of a table once, no two
events have one time), and `Follows` what one state may do after another: slugs and reserved names
are taken from nobody (`SlugsFollow`, `ReservedFollow`), entries stay before those they were before
(`ListsFollow`), and what leaves with a repository leaves altogether (`ReposFollow`). Whatever
follows is persisted without meeting a key, a unique index or a foreign key (`AppliedSucceeds`, the
order of delete, update and insert is in it), leaves the rows of the new state and no others
(`AppliedExact`), and is read back as it was (`LoadsExact`); one lemma per mutation shows that it
follows, or that it was refused for a value that does not fit or a repository that is gone
(`MutateRefused`, `LostRefused`). Sorting events by time is a permutation, and leaves a list alone
whose times ascend (`EventsOrdered`). An open drops what is not sealed, numbers runs and counters,
and repairs the state it has read, which follows it too (`ReopenNormal`, `ReopenShown`,
`RepairFollows`, `ReopenKeeps`). Repository ids are assumed to differ from the sentinels for "no
id" and "no repository".

**BotProofs.** Three clocks stamp a credential: the account's epoch, the bot's copy of it, and the
bot's generation. `OnlyForward` says how they move: a step that moves the epoch under a bot revokes
its keys and moves its generation, and one that moves the generation empties the refresh family.
Every step goes only forward, and what it adds is stamped with the moment (`NewRows`); a rotation is
the one step that also marks. `LastingKeeps` gets the invariant from that and `LastingRefuses` the
action property, once for all steps.

**GitProofs.** `SlotsAndRecordsBalance` is inductive with where each request is (`AdmissionOf`).
For `RefsMoveByTheRules` a writer past its check carries what the check found of the change it
declared, and git's compare-and-swap makes that the change it moves (`CheckedMoveIsSafe`). A
temporary LFS file holds what was read of its body, as no two uploads have one name. A record
anywhere, in either file or in any process's copy, is the token its command minted (`Minted`),
however the files overwrite each other; whose owner is then who may act, or the operator where the
owner has the operator's name. The four parts of `MirrorBackup` have an invariant each.
Bundles: as long as no two commands overlapped one works at a time, the files before its place are
its own, and a whole manifest came last. Imports: the path looked at has been stored, whole or
fetched over what an earlier import left. Syncs: what is left to do is a tail of the plan, a command
that git accepted and nobody killed has done what it is for, one that needs `git fetch --mirror` is
never over, and nothing is ahead of where it comes from. Restores: what was
printed is about items behind the next one, so nothing is created twice (`RestoreInv`). That a
restore is whole needs more (`WholeInv`): repositories are printed in the order of the archive,
each once and under a name no other has; a blocked one is blocked for a name an earlier one took;
and the commands run so far are the plan of the repositories behind the present one, then a part of
the present one's, in its order. The plan of an archive is computed by a recursive function over
its repositories, and its value after each is found by induction up to their number. The counts the
report compares are those of the plan because items and places of it correspond one to one
(`FS_Bijection`), and what the target held is all of what drift was counted in; what is left of
drift is then webhooks and repositories the target had besides.

**AccessProofs.** Accounts, bots, and the records kept beside them. An account's epoch is the number of its revocations, and what carries an epoch
carries the one of the lookup it was born from (`AccountInv`). A team bot's grant stands where an
administrator's decision stands (`ReachInv`); the rest of `BotsStayWithinGrants` is the definition
of what `authorize_bot` lets through. Who is not late with an operation has the booking of its key,
so nobody else is let in (`BookingsHold`). Heartbeats: memory and file agree and the last one
acknowledged is within the window, by whatever reading it came. Events stand in any order of their
times; the one behind a bot's last outcome was appended last, so the cap spares it, was read at the
time the age limit is counted from, so that limit does too, and is alone the newest of its bot
unless another was overtaken (`FreshInv`), also when an open has sorted them
(`ReopenKeepsEvents`). What is left of a list after `retain` is counted off by ranks (`RanksCount`,
`RetainedPlaces`). Deployments: ids are
given without a gap, so the i-th status has the id i and the file is the history as it was told
(`ReadBack`). `Trail` says of that history, which never names a slug, that who is retired lost to a
later success of its environment, and, as long as every success was careful, that the live
deployment is alone and won last; `TrailGoesOn` appends a status and the retirements it brings. The
one shown as previous then follows from its definition. Scores stand in any order of their times:
the cap takes the oldest, or the first of those, which is not the newest nor the one shown while
there are others (`CapTakesTheOldest`), and only a commit's own next score takes its place.

**RepositoryProofs.** Rows, aliases and rules are preserved by the operators that move them
(`RekeyMovesRows`). The directory needs more: between the two phases of a transfer it is ahead of
its repository (`TransfersInv`), and one not yet made is nobody's (`DirectoriesInv`). The attempt to
prove this found a mistake in the model, since corrected: a rename that meets the directory of
another repository between the two phases of that one's transfer takes it along, as the code does,
and `torn` records it. For `BugTracker`, a trail only grows, and a bug of this instant has no
status but its first, which is what lets one id stand for a digest of report and time
(`TrailOf`).

The prover takes an IF or CASE by its first true arm only where the arms exclude each other: an
overlapping CASE is a free choice to it. A few such definitions were written as nested
conditions, which is also what the code says.

Only model-checked, and out of the prover's reach: `RefreshEnds` and `RpcsEnd`, liveness under
fairness (what `RefreshEnds` says of every state, `LockTableDrains`, is the theorem `LocksDrain`).
The properties of the four violated runs are refuted, not proved.

## 6. Findings

- `retarget`: an approval given for one base branch can count after a retarget to another, under
  a rule that counts verdicts through an unchanged diff. `retarget_pull_request` judges standing
  approvals at their exact head, the gate by diff identity.
- `provider_fence`: when the write of a rotated secret commits and is then reported as an error,
  and the fence that follows cannot be written, memory says `auth_required` and the database holds
  a connected row without a marker; after a restart the connection is live again. The comment of
  `persist_fence` says otherwise. The secret in that row is the current one, so the safety
  properties hold.

- `bot_reuse`: a spent refresh token presented through the idempotent call after the enrollment
  key behind it has retired is refused as invalid without the family being revoked; `docs/bots.md`
  and the comment in the call say that reuse always revokes. The plain call does revoke. In the
  code's favour: the tokens of a retired key can no longer be rotated, but a family may span keys.
- `family_seed`: migration 0005 adds the column `family` and then seeds it, as separate statements
  outside a transaction, and is guarded by the column. A process that stops in between leaves
  repositories whose family is never seeded; `db/migrations/0005_repository_family.meta.toml`
  declares `transaction = "required"` and the seeding as the migration's backfill.

Noticed while modelling, without a run:

- `cap_bot_activity` drops a prefix of a bot's events because "events are appended in time order"
  (`engine/bots.rs:1610`), but `note_bot_observation` reads the clock before it takes the lock, so
  the later of two racing observations may be appended first. The cap then drops another than the
  oldest, and the list changes its order when the file is opened again: `ActivityIsFresh` and
  `ReopenRestoresState` say what holds all the same.
- `fetch_command` (`jeryu-mirror/src/mirror.rs:103`) runs `git fetch --mirror`, an option `git fetch`
  does not have, so the plans of `fetch_only` and of the default `full_sync` always fail. The
  command line only prints plans; `execute_git_mirror_plan` is for callers of the library.
- `jeryu-bugtracker/src/domain/ops.rs` documents its ranking as fewer failed attempts first, then
  most recently updated; the key negates the number of failures and leaves the time as it is, so
  ascending order gives the opposite of both.
- `jeryu-core/src/overlap.rs:161` says that an empty change never coalesces; at a threshold of
  zero the score of two empty changes reaches it.
- `organizations.rs` says that a login is unique across accounts, profiles and organizations;
  activation of an invitation does not look at organizations again.
- `ensure_user` checks and creates under two locks and expects the creation to succeed, so two
  callers can make it panic.
- A rule or CODEOWNERS write recomputes no stored mergeability; lists filter on the old answers
  until something touches each pull request. A head refresh matches by branch name only, forks
  included.
- `connect_provider` looks at its owner before the lock; an account disabled in between still gets
  a row, which every use refuses. `ensure_repository_writable` likewise looks before the lock, so
  a write may land after an archive or under a slug that was renamed away.
- `commit_repository_transfer` does not refresh the slugs of deployments, as a rename does; a
  prepared transfer does not reserve its destination; a bot's reach names slugs and is not
  re-keyed by a rename.
- A push that is cut short after git moved its refs is never recorded; `finish_push` compares refs
  with a snapshot and so misses a push undone by another. An LFS upload does not look at the
  archive marker.
- A restore that stops at a duplicate leaves a repository that blocks the next strict restore, and
  one of an archive with a webhook always leaves drift, as no restore creates webhooks; a
  full sync clones into its path and so fails on its second run; `write_bundle` removes the old
  bundle before the new one is written. An import whose clone was killed leaves a
  repository without refs, which the next import reports as fetched, even where it has no origin to
  fetch from.
- A commit's score may be replaced by an older one: `record_jankurai_score` reads the clock before
  the lock and replaces whatever the commit had.
- `rename_repository` discards the error of moving the directory back, and then the registry leads
  to a path where nothing is.
- A token may be minted, or a key registered, for the owner `local-operator`, whom the code takes
  for the operator at this machine: it passes every check of an owner.
- The name of a webhook and of a default branch is not looked at before the CHECK of its column
  refuses it, as a storage error.
- `run_with_stdin` writes a whole body before it reads any output, and a streamed answer has no
  write timeout: a request may hang on a git that answers early, or on a client that stops reading.

## 7. Not modelled

The components marked `not_modelled` in `PROJECT.json`, with reasons: terminal interface, read
models, identifiers, the read services' traits and the enterprise checks keep no state that an
order of calls could break. Within the modelled ones: titles, bodies, comments, webhook payloads,
timestamps other than those that order or expire something, and error texts; cryptography and
hashing (a seal is its key and binding, a hash equals another when the secrets do); the text of
SQL, HTTP, pkt-line and globs; the glob matcher of CODEOWNERS and the ref-operation gate; the
`strict` flag of a rule, which the code stores and never reads; `issue_provider_broker` (a core
hands out one broker); an exchange closure that panics and so leaves its entry in `RefreshLocks`;
the parking of descriptors of `HeldDatabase`; a server without a vault; the repair tool. The clock
is taken as of the step where only an expiry depends on it; where the order of rows does, it is the
caller's reading from before the lock. Of the database's constraints: the parents of list rows (a review's
pull request, a delivery's webhook, an event's bot: bots stay, and the others go with their
repository), the repository an alias or a transfer names, the second unique columns of aliases and
transfers, of connections, and of secret hashes and token ids, which do not move between rows, more
than one child of a parent, and the
opt-out of the default rule in the rows (`Repositories` has it); events of one time. git, the provider, the operating
system and other writers of the database file are external: they do what the code can observe of
them, at any time.
