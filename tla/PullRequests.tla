---------------------------- MODULE PullRequests ----------------------------
(***************************************************************************)
(* The pull requests of one repository held by ForgeCore: their lifecycle, *)
(* reviews and dismissals, commit statuses and check runs, protection      *)
(* rules, head and base refreshes, and the two-phase merge with its        *)
(* administrator override (engine/pull_requests.rs, reviews.rs,            *)
(* merge_overrides.rs, commit_status.rs, check_runs.rs, and the shared     *)
(* parts of engine/mod.rs).                                                *)
(*                                                                         *)
(* Each action is one call of ForgeCore made under its write lock.  A call *)
(* whose store write fails restores the previous memory, so it changes     *)
(* nothing here, except where a receipt was written first: those calls     *)
(* have an action for the failure.  A merge takes two calls with a git     *)
(* merge between them; the caller's data lives in `edge`.                  *)
(*                                                                         *)
(* Abstractions: logins are canonical; heads, merge bases and branches are *)
(* opaque; `commits` is what the gate asks of the commit range (does it    *)
(* hold a merge commit, an unsigned one); of the audit trail, the set of   *)
(* receipts that authorize or confirm a decision is kept and the log of    *)
(* refusals and completed edits is not; of the backing issue, its state;   *)
(* the webhook deliveries that the calls queue feed nothing here.          *)
(***************************************************************************)
EXTENDS BranchProtection

CONSTANTS
    Pulls,            \* pull request numbers
    Users,            \* canonical logins
    Branches,         \* branch names, all existing in git
    DefaultBranch,    \* its rule is mandatory
    Heads,            \* head commits
    Bases,            \* merge base commits
    Contents,         \* what the commits base..head change (patch content)
    ContentOf,        \* the content of each head; NoIds: it has no identity
    RangeOf,          \* what git says of the commits up to each head
    Ranges,           \* commit facts a caller may supply
    Paths,            \* repository paths
    PathSets,         \* changed paths a caller may supply
    Contexts,         \* status contexts
    StatusRows,       \* commit statuses publishers may post
    RunRows,          \* check runs publishers may post
    RuleChoices,      \* protection rules an administrator may set
    InitialRules,     \* the rules in force at the start
    OwnerMaps,        \* CODEOWNERS files: the owners of each path
    InitialAdmins,    \* active repository administrators at the start
    Grantable,        \* users whose administrator grant may change
    UpdateStates,     \* states an edit may ask for
    IssueEdits,       \* states an issue edit may ask for
    DraftEdits,       \* draft values an edit may ask for
    Reviewers,        \* users who write reviews
    ReviewEvents,     \* review states they submit
    OpenChoices,      \* [author, headRef, baseRef, fork, draft] a pull may open with
    Edges,            \* callers driving a two-phase merge
    Idle,             \* an edge with no merge in flight
    NoPermit,         \* the merge in flight is not an override
    NoMerge,          \* merge_commit_sha = None
    Keep,             \* an edit leaves this field alone
    MaxReviews,       \* bound: rows in one review ledger
    MaxStatuses,      \* bound: rows on one head
    MaxRuns,          \* bound: check runs
    MaxRuleChanges    \* bound: rule writes on one branch

ASSUME PullAssumptions ==
    /\ NoUser \notin Users /\ NoHead \notin Heads
    /\ AnyBase \notin Branches /\ NoSha \notin Heads
    /\ DefaultBranch \in Branches
    /\ NoIds \notin Bases \X Contents
    /\ ContentOf \in [Heads -> Contents \cup {NoIds}]
    /\ RangeOf \in [Heads -> [merge : BOOLEAN, unsigned : BOOLEAN]]
    /\ Ranges \subseteq [merge : BOOLEAN, unsigned : BOOLEAN]
    /\ PathSets \subseteq SUBSET Paths
    /\ InitialAdmins \subseteq Users

VARIABLES
    pulls,      \* pull number -> pull request record
    reviews,    \* pull number -> its review ledger
    given,      \* history: the base branch each review row was written for
    rules,      \* branch -> rule in force or NoRule
    ruleRev,    \* branch -> number of rule writes (updated_at)
    statuses,   \* head -> commit statuses, in append order
    runs,       \* check runs, in creation order
    codeowners, \* path -> owners
    admins,     \* active repository administrators, team bots excluded
    audit,      \* receipts
    edge        \* what each caller of the two-phase merge holds

vars == <<pulls, reviews, given, rules, ruleRev, statuses, runs, codeowners,
          admins, audit, edge>>

PullStates == {"Draft", "Open", "BlockedByChecks", "Mergeable", "Merged",
               "Closed", "ReadyForReview"}
IssueStates == {"Open", "Closed"}   \* of the issue behind a pull request
Identities == (Bases \X Contents) \cup {NoIds}

\* What a merge commit identifies: the branch, base and head that git merged,
\* and the head the caller had asked Core for.
MergeCommits == [baseRef : Branches, base : Bases, head : Heads,
                 requested : Heads \cup {NoSha}]

PullRecords ==
    [author : Users, state : PullStates, draft : BOOLEAN, fork : BOOLEAN,
     headRef : Branches, head : Heads, baseRef : Branches, base : Bases,
     ids : Identities, commits : [merge : BOOLEAN, unsigned : BOOLEAN],
     paths : SUBSET Paths, mergeable : BOOLEAN, merged : BOOLEAN,
     mergeSha : MergeCommits \cup {NoMerge}, issue : IssueStates]

ReviewRows == [author : Users, state : ReviewStates, head : Heads,
               ids : Identities, target : Nat, admin : BOOLEAN]

Receipts == [action : {"review_dismissal", "merge_override"},
             phase : {"requested", "completed"}, pull : Pulls, actor : Users]

Permits == [actor : Users, rule : RuleChoices, rev : Nat, base : Bases,
            head : Heads, blockers : SUBSET [kind : BlockerKinds,
                                             context : Contexts \cup {NoContext}],
            evidence : SUBSET Nat, expired : BOOLEAN]

Flights == [pull : Pulls, baseRef : Branches, base : Bases, head : Heads,
            requested : Heads \cup {NoSha}, git : BOOLEAN,
            permit : Permits \cup {NoPermit}]

ASSUME SentinelAssumptions ==
    /\ Idle \notin Flights
    /\ NoPermit \notin Permits
    /\ NoMerge \notin MergeCommits
    /\ NoRule \notin RuleChoices
    /\ InitialRules \subseteq [Branches -> RuleChoices \cup {NoRule}]
    /\ \A r \in InitialRules : r[DefaultBranch] # NoRule
    /\ OwnerMaps \subseteq [Paths -> SUBSET Users]
    /\ UpdateStates \subseteq PullStates
    /\ OpenChoices \subseteq [author : Users, headRef : Branches, baseRef : Branches,
                              fork : BOOLEAN, draft : BOOLEAN]
    /\ Grantable \subseteq Users
    /\ Reviewers \subseteq Users
    /\ DraftEdits \subseteq BOOLEAN
    /\ IssueEdits \subseteq IssueStates
    /\ ReviewEvents \subseteq ReviewStates \ {"Dismissed"}
    /\ \A r \in RunRows : r.head \in Heads
    /\ \A r \in StatusRows : r.at \in Nat /\ r.state \in StatusStates
    /\ \A r \in RuleChoices : r.checks \subseteq Contexts

TypeOK ==
    /\ DOMAIN pulls \subseteq Pulls
    /\ pulls \in [DOMAIN pulls -> PullRecords]
    /\ reviews \in [Pulls -> Seq(ReviewRows)]
    /\ given \in [Pulls -> Seq(Branches)]
    /\ rules \in [Branches -> RuleChoices \cup {NoRule}]
    /\ ruleRev \in [Branches -> Nat]
    /\ statuses \in [Heads -> Seq(StatusRows)]
    /\ runs \in Seq(RunRows)
    /\ codeowners \in [Paths -> SUBSET Users]
    /\ admins \subseteq Users
    /\ audit \subseteq Receipts
    /\ edge \in [Edges -> Flights \cup {Idle}]

-----------------------------------------------------------------------------
(* Shared helpers *)

\* The merged record replaces or adds key k of a growing function.
Put(f, k, v) == [x \in DOMAIN f \cup {k} |-> IF x = k THEN v ELSE f[x]]

\* evaluate_locked on a (possibly just changed) record and ledger.
Gate(pr, R, S, C, requested) ==
    Blockers(pr, rules[pr.baseRef], R, S[pr.head], C, codeowners, requested)

\* apply_evaluation: merged and closed are left as they are.
ApplyEvaluation(pr, mergeable) ==
    IF pr.merged \/ pr.state \in {"Merged", "Closed"}
      THEN [pr EXCEPT !.mergeable = FALSE]
    ELSE [pr EXCEPT !.mergeable = mergeable,
                    !.state = IF pr.draft THEN "Draft"
                              ELSE IF mergeable THEN "Mergeable"
                              ELSE "BlockedByChecks"]

\* The record after the evaluation that ends every writing call.
Evaluated(pr, R, S, C) == ApplyEvaluation(pr, Gate(pr, R, S, C, NoSha) = {})

\* refresh_pull_mergeability_for_sha
RefreshForSha(sha, S, C) ==
    [q \in DOMAIN pulls |->
        IF pulls[q].head = sha THEN Evaluated(pulls[q], reviews[q], S, C)
                               ELSE pulls[q]]

\* Mutant of IsOpen: the merged flag is not consulted.
IsOpenByState(pr) == pr.state \notin {"Closed", "Merged"}

IsOpen(pr) == ~pr.merged /\ pr.state \notin {"Closed", "Merged"}

Receipt(action, phase, p, actor) ==
    [action |-> action, phase |-> phase, pull |-> p, actor |-> actor]

\* append_audit_as whose failure the caller drops: the receipt may be missing.
BestEffort(old, receipt) == { old, old \cup {receipt} }

\* The diff identity git computes for base..head.
DiffIdentity(base, head) ==
    IF ContentOf[head] = NoIds THEN NoIds ELSE <<base, ContentOf[head]>>

-----------------------------------------------------------------------------
(* Opening, editing and refreshing *)

Init ==
    /\ pulls = << >>
    /\ reviews = [p \in Pulls |-> << >>]
    /\ given = [p \in Pulls |-> << >>]
    /\ rules \in InitialRules
    /\ ruleRev = [b \in Branches |-> 0]
    /\ statuses = [h \in Heads |-> << >>]
    /\ runs = << >>
    /\ codeowners \in OwnerMaps
    /\ admins = InitialAdmins
    /\ audit = {}
    /\ edge = [e \in Edges |-> Idle]

\* create_pull_request: a new pull has no diff identity; the author supplies
\* the commit range and the changed paths.
CreatePullRequest(p, open, head, base, range, files) ==
    /\ p \in Pulls \ DOMAIN pulls
    /\ LET pr == [author |-> open.author, draft |-> open.draft, fork |-> open.fork,
                  state |-> IF open.draft THEN "Draft" ELSE "Open",
                  headRef |-> open.headRef, head |-> head,
                  baseRef |-> open.baseRef, base |-> base,
                  ids |-> NoIds, commits |-> range, paths |-> files,
                  mergeable |-> FALSE, merged |-> FALSE, mergeSha |-> NoMerge,
                  issue |-> "Open"]
       IN  pulls' = Put(pulls, p, Evaluated(pr, reviews[p], statuses, runs))
    /\ UNCHANGED <<reviews, given, rules, ruleRev, statuses, runs, codeowners,
                   admins, audit, edge>>

\* The fields an edit sets: draft first, then state, which decides draft again.
EditedFlags(pr, draft, state) ==
    LET d == IF draft = Keep THEN pr
             ELSE [pr EXCEPT !.draft = draft,
                             !.state = IF draft THEN "Draft" ELSE "Open"]
    IN  IF state = Keep THEN d
        ELSE [d EXCEPT !.state = state, !.draft = (state = "Draft")]

\* update_pull_request
UpdatePullRequest(p, draft, state, range, files) ==
    /\ p \in DOMAIN pulls
    /\ LET flags  == EditedFlags(pulls[p], draft, state)
           edited == [flags EXCEPT
                        !.commits = IF range = Keep THEN @ ELSE range,
                        !.paths = IF files = Keep THEN @ ELSE files]
       IN  pulls' = [pulls EXCEPT
                       ![p] = Evaluated(edited, reviews[p], statuses, runs)]
    /\ UNCHANGED <<reviews, given, rules, ruleRev, statuses, runs, codeowners,
                   admins, audit, edge>>

\* update_issue on the issue behind a pull request: neither follows the other
\* except at a merge.
UpdateIssue(p, state) ==
    /\ p \in DOMAIN pulls
    /\ pulls' = [pulls EXCEPT ![p].issue = state]
    /\ UNCHANGED <<reviews, given, rules, ruleRev, statuses, runs, codeowners,
                   admins, audit, edge>>

\* Mutant of Refreshed: the identity is recorded whatever base it is for.
RefreshedForAnyBase(pr, head, base) ==
    [pr EXCEPT !.head = head, !.ids = DiffIdentity(base, head),
               !.commits = RangeOf[head]]

\* One open pull moved to `head`.  `base` is the base git computed the identity
\* and the commit range for, or NoSha when the caller computed nothing.
Refreshed(pr, head, base) ==
    LET computed == base # NoSha
        ours     == computed /\ pr.base = base
    IN  [pr EXCEPT
           !.head = head,
           !.ids = IF ours THEN DiffIdentity(base, head) ELSE NoIds,
           !.commits = IF ours THEN RangeOf[head]
                       ELSE IF computed /\ pr.head # head
                         THEN [merge |-> TRUE, unsigned |-> TRUE]
                       ELSE @]

\* refresh_pull_request_heads_for_ref (base = NoSha) and
\* refresh_pull_request_heads_from_git: every open pull from that branch.
RefreshHeads(ref, head, base) ==
    LET moved == { q \in DOMAIN pulls : pulls[q].headRef = ref /\ IsOpen(pulls[q]) }
    IN  /\ moved # {}
        /\ pulls' = [q \in DOMAIN pulls |->
                       IF q \in moved
                         THEN Evaluated(Refreshed(pulls[q], head, base),
                                        reviews[q], statuses, runs)
                         ELSE pulls[q]]
        /\ UNCHANGED <<reviews, given, rules, ruleRev, statuses, runs, codeowners,
                       admins, audit, edge>>

\* retarget_pull_request: refused while an approval stands at any head.
RetargetPullRequest(p, ref, base, range, files) ==
    /\ p \in DOMAIN pulls
    /\ IsOpen(pulls[p])
    /\ files # {}
    /\ ~pulls[p].fork => pulls[p].headRef # ref
    /\ ~StandingApproval(reviews[p])
    /\ LET moved == [pulls[p] EXCEPT !.baseRef = ref, !.base = base,
                                     !.commits = range, !.paths = files,
                                     !.ids = NoIds]
       IN  pulls' = [pulls EXCEPT
                       ![p] = Evaluated(moved, reviews[p], statuses, runs)]
    /\ UNCHANGED <<reviews, given, rules, ruleRev, statuses, runs, codeowners,
                   admins, audit, edge>>

\* record_pull_request_base: a new merge base on the same branch.
RecordPullRequestBase(p, base) ==
    /\ p \in DOMAIN pulls
    /\ IsOpen(pulls[p])
    /\ pulls[p].base # base
    /\ LET moved == [pulls[p] EXCEPT !.base = base, !.ids = NoIds]
       IN  pulls' = [pulls EXCEPT
                       ![p] = Evaluated(moved, reviews[p], statuses, runs)]
    /\ UNCHANGED <<reviews, given, rules, ruleRev, statuses, runs, codeowners,
                   admins, audit, edge>>

-----------------------------------------------------------------------------
(* Reviews *)

Row(p, user, state, target, admin) ==
    [author |-> user, state |-> state, head |-> pulls[p].head,
     ids |-> pulls[p].ids, target |-> target, admin |-> admin]

\* Mutant of AppendReview: the evaluation after a review treats only a merge as
\* terminal.
AppendReviewReviving(p, row) ==
    LET R == Append(reviews[p], row)
        mergeable == Gate(pulls[p], R, statuses, runs, NoSha) = {}
    IN  /\ Len(reviews[p]) < MaxReviews
        /\ reviews' = [reviews EXCEPT ![p] = R]
        /\ given' = [given EXCEPT ![p] = Append(@, pulls[p].baseRef)]
        /\ pulls' = [pulls EXCEPT ![p] =
                       IF @.merged THEN [@ EXCEPT !.mergeable = FALSE]
                       ELSE [@ EXCEPT !.mergeable = mergeable,
                                      !.state = IF mergeable THEN "Mergeable"
                                                ELSE "BlockedByChecks"]]

\* The end of record_review: the row, the ledger's evaluation.
AppendReview(p, row) ==
    LET R == Append(reviews[p], row)
    IN  /\ Len(reviews[p]) < MaxReviews
        /\ reviews' = [reviews EXCEPT ![p] = R]
        /\ given' = [given EXCEPT ![p] = Append(@, pulls[p].baseRef)]
        /\ pulls' = [pulls EXCEPT ![p] = Evaluated(@, R, statuses, runs)]

\* create_review
CreateReview(p, user, state) ==
    /\ p \in DOMAIN pulls
    /\ state # "Dismissed"
    /\ state = "Approved" => /\ user # pulls[p].author
                             /\ user \notin DismissingAdmins(reviews[p])
    /\ AppendReview(p, Row(p, user, state, 0, FALSE))
    /\ UNCHANGED <<rules, ruleRev, statuses, runs, codeowners, admins, audit, edge>>

\* The verdict speaks at the current head, exactly or through its diff.
CountingHere(p, t) ==
    \/ t \in EffectiveForHead(reviews[p], pulls[p].head)
    \/ t \in EffectiveFor(pulls[p], reviews[p], "UnchangedDiff")

\* dismiss_review by the verdict's own author.
DismissOwnReview(p, user, t) ==
    /\ p \in DOMAIN pulls
    /\ t \in DOMAIN reviews[p]
    /\ reviews[p][t].author = user
    /\ reviews[p][t].state \in Verdicts
    /\ CountingHere(p, t)
    /\ AppendReview(p, Row(p, user, "Dismissed", t, FALSE))
    /\ UNCHANGED <<rules, ruleRev, statuses, runs, codeowners, admins, audit, edge>>

\* Mutant of MayDismissOthers: the administrator's own approvals are not checked.
MayDismissWhileApproving(p, user) ==
    LET rule == rules[pulls[p].baseRef]
    IN  /\ user \in admins
        /\ rule # NoRule
        /\ rule.adminDismissal
        /\ ~rule.enforceAdmins
        /\ user # pulls[p].author

\* authorize_cross_author_dismissal
MayDismissOthers(p, user) ==
    LET pr == pulls[p]
        R  == reviews[p]
        rule == rules[pr.baseRef]
    IN  /\ user \in admins
        /\ rule # NoRule
        /\ rule.adminDismissal
        /\ ~rule.enforceAdmins
        /\ user # pr.author
        /\ \A i \in DOMAIN R : R[i].state = "Approved" /\ R[i].author = user
                                 => i \in WithdrawnVerdicts(R)

DismissalAllowed(p, user, t) ==
    /\ MayDismissOthers(p, user)
    /\ reviews[p][t].state \in Verdicts
    /\ CountingHere(p, t)

\* Mutant of DismissOtherReview: the receipt is best effort, after the row.
DismissOtherReviewUnbound(p, user, t) ==
    /\ p \in DOMAIN pulls
    /\ t \in DOMAIN reviews[p]
    /\ reviews[p][t].author # user
    /\ DismissalAllowed(p, user, t)
    /\ AppendReview(p, Row(p, user, "Dismissed", t, TRUE))
    /\ audit' \in BestEffort(audit, Receipt("review_dismissal", "requested", p, user))
    /\ UNCHANGED <<rules, ruleRev, statuses, runs, codeowners, admins, edge>>

\* dismiss_review of another reviewer's verdict: the "requested" receipt first,
\* then the row, then the "completed" receipt, which may be lost.
DismissOtherReview(p, user, t) ==
    /\ p \in DOMAIN pulls
    /\ t \in DOMAIN reviews[p]
    /\ reviews[p][t].author # user
    /\ DismissalAllowed(p, user, t)
    /\ AppendReview(p, Row(p, user, "Dismissed", t, TRUE))
    /\ audit' \in BestEffort(
                    audit \cup {Receipt("review_dismissal", "requested", p, user)},
                    Receipt("review_dismissal", "completed", p, user))
    /\ UNCHANGED <<rules, ruleRev, statuses, runs, codeowners, admins, edge>>

\* The same call stopped by a store failure after its "requested" receipt.
DismissOtherReviewFails(p, user, t) ==
    /\ p \in DOMAIN pulls
    /\ t \in DOMAIN reviews[p]
    /\ reviews[p][t].author # user
    /\ DismissalAllowed(p, user, t)
    /\ audit' = audit \cup {Receipt("review_dismissal", "requested", p, user)}
    /\ UNCHANGED <<pulls, reviews, given, rules, ruleRev, statuses, runs, codeowners,
                   admins, edge>>

-----------------------------------------------------------------------------
(* Results, rules, owners and grants *)

\* create_commit_status: updated_at is taken before the lock, so rows are not
\* appended in the order of their times.
CreateCommitStatus(sha, row) ==
    LET S == [statuses EXCEPT ![sha] = Append(@, row)]
    IN  /\ Len(statuses[sha]) < MaxStatuses
        /\ statuses' = S
        /\ pulls' = RefreshForSha(sha, S, runs)
        /\ UNCHANGED <<reviews, given, rules, ruleRev, runs, codeowners, admins,
                       audit, edge>>

\* create_check_run: creation_sequence is the position in `runs`.
CreateCheckRun(row) ==
    LET C == Append(runs, row)
    IN  /\ Len(runs) < MaxRuns
        /\ runs' = C
        /\ pulls' = RefreshForSha(row.head, statuses, C)
        /\ UNCHANGED <<reviews, given, rules, ruleRev, statuses, codeowners, admins,
                       audit, edge>>

\* set_branch_protection: no stored mergeability is recomputed.
SetBranchProtection(b, rule) ==
    /\ ruleRev[b] < MaxRuleChanges
    /\ rules' = [rules EXCEPT ![b] = rule]
    /\ ruleRev' = [ruleRev EXCEPT ![b] = @ + 1]
    /\ UNCHANGED <<pulls, reviews, given, statuses, runs, codeowners, admins, audit,
                   edge>>

\* delete_branch_protection; the default branch's rule is mandatory here.
DeleteBranchProtection(b) ==
    /\ b # DefaultBranch
    /\ rules[b] # NoRule
    /\ rules' = [rules EXCEPT ![b] = NoRule]
    /\ UNCHANGED <<pulls, reviews, given, ruleRev, statuses, runs, codeowners, admins,
                   audit, edge>>

SetCodeowners(owners) ==
    /\ codeowners' = owners
    /\ UNCHANGED <<pulls, reviews, given, rules, ruleRev, statuses, runs, admins, audit,
                   edge>>

\* A grant, a revocation or an account suspension, as the gate sees it.
ChangeAdministrator(user) ==
    /\ admins' = IF user \in admins THEN admins \ {user} ELSE admins \cup {user}
    /\ UNCHANGED <<pulls, reviews, given, rules, ruleRev, statuses, runs, codeowners,
                   audit, edge>>

-----------------------------------------------------------------------------
(* The two-phase merge *)

Flight(p, requested, permit) ==
    [pull |-> p, baseRef |-> pulls[p].baseRef, base |-> pulls[p].base,
     head |-> pulls[p].head, requested |-> requested, git |-> FALSE,
     permit |-> permit]

GateNow(p, requested) == Gate(pulls[p], reviews[p], statuses, runs, requested)

\* evaluate_merge_readiness, on the answer Ready.
EvaluateMergeReadiness(e, p, requested) ==
    /\ edge[e] = Idle
    /\ p \in DOMAIN pulls
    /\ ~pulls[p].merged
    /\ pulls[p].state # "Closed"
    /\ GateNow(p, requested) = {}
    /\ edge' = [edge EXCEPT ![e] = Flight(p, requested, NoPermit)]
    /\ UNCHANGED <<pulls, reviews, given, rules, ruleRev, statuses, runs, codeowners,
                   admins, audit>>

\* The caller's git merge of the disclosed head into the disclosed base branch.
GitMerge(e) ==
    /\ edge[e] # Idle
    /\ ~edge[e].git
    /\ edge' = [edge EXCEPT ![e].git = TRUE]
    /\ UNCHANGED <<pulls, reviews, given, rules, ruleRev, statuses, runs, codeowners,
                   admins, audit>>

MergeCommit(f) == [baseRef |-> f.baseRef, base |-> f.base, head |-> f.head,
                   requested |-> f.requested]

\* The record that finalize_merge_checked stores.
MergedRecord(pr, f) ==
    [pr EXCEPT !.merged = TRUE, !.state = "Merged", !.mergeable = FALSE,
               !.mergeSha = MergeCommit(f), !.issue = "Closed"]

\* Mutant of SameBase: the base readiness disclosed is not compared.
SameBaseUnchecked(f) == ~pulls[f.pull].merged /\ pulls[f.pull].state # "Closed"

\* finalize_merge_checked up to the gate: still unmerged, not closed, and the
\* base is the one readiness disclosed.
SameBase(f) ==
    LET pr == pulls[f.pull]
    IN  /\ ~pr.merged
        /\ pr.state # "Closed"
        /\ pr.baseRef = f.baseRef
        /\ pr.base = f.base

\* Mutant of FinalizeMerge: readiness is trusted, the gate is not asked again.
FinalizeTrustingReadiness(e) ==
    LET f == edge[e]
    IN  /\ f # Idle
        /\ f.permit = NoPermit
        /\ f.git
        /\ SameBase(f)
        /\ pulls' = [pulls EXCEPT ![f.pull] = MergedRecord(@, f)]
        /\ edge' = [edge EXCEPT ![e] = Idle]
        /\ UNCHANGED <<reviews, given, rules, ruleRev, statuses, runs, codeowners,
                       admins, audit>>

\* finalize_merge: the gate is evaluated again under the write lock.
FinalizeMerge(e) ==
    LET f == edge[e]
    IN  /\ f # Idle
        /\ f.permit = NoPermit
        /\ f.git
        /\ SameBase(f)
        /\ GateNow(f.pull, f.requested) = {}
        /\ pulls' = [pulls EXCEPT ![f.pull] = MergedRecord(@, f)]
        /\ edge' = [edge EXCEPT ![e] = Idle]
        /\ UNCHANGED <<reviews, given, rules, ruleRev, statuses, runs, codeowners,
                       admins, audit>>

\* prepare_merge_override: the permit is usable only after its "requested"
\* receipt is stored.
PrepareMergeOverride(e, p, actor) ==
    LET pr       == pulls[p]
        rule     == rules[pr.baseRef]
        blockers == GateNow(p, pr.head)
        permit   == [actor |-> actor, rule |-> rule, rev |-> ruleRev[pr.baseRef],
                     base |-> pr.base, head |-> pr.head, blockers |-> blockers,
                     evidence |-> Evidence(pr, statuses[pr.head], blockers),
                     expired |-> FALSE]
    IN  /\ edge[e] = Idle
        /\ p \in DOMAIN pulls
        /\ OverrideAllowed(pr, rule, reviews[p], admins, actor)
        /\ OverridableOnly(pr, rule, statuses[pr.head], runs, actor, blockers)
        /\ edge' = [edge EXCEPT ![e] = Flight(p, pr.head, permit)]
        /\ audit' = audit \cup {Receipt("merge_override", "requested", p, actor)}
        /\ UNCHANGED <<pulls, reviews, given, rules, ruleRev, statuses, runs, codeowners,
                       admins>>

\* Ten minutes pass.
ExpirePermit(e) ==
    /\ edge[e] # Idle
    /\ edge[e].permit # NoPermit
    /\ ~edge[e].permit.expired
    /\ edge' = [edge EXCEPT ![e].permit.expired = TRUE]
    /\ UNCHANGED <<pulls, reviews, given, rules, ruleRev, statuses, runs, codeowners,
                   admins, audit>>

\* What finalize_merge_checked compares with the permit.
PermitHolds(f) ==
    LET pr == pulls[f.pull]
        t  == f.permit
        now == GateNow(f.pull, t.head)
        S  == statuses[pr.head]
    IN  /\ OverrideAllowed(pr, rules[pr.baseRef], reviews[f.pull], admins, t.actor)
        /\ ~t.expired
        /\ OverridableOnly(pr, t.rule, S, runs, t.actor, now)
        /\ Evidence(pr, S, now) = t.evidence
        /\ pr.head = t.head
        /\ pr.base = t.base
        /\ now = t.blockers
        /\ rules[pr.baseRef] = t.rule
        /\ ruleRev[pr.baseRef] = t.rev

\* finalize_merge_with_override: the merge and its "completed" receipt are one
\* transaction.
FinalizeMergeWithOverride(e) ==
    LET f == edge[e]
    IN  /\ f # Idle
        /\ f.permit # NoPermit
        /\ f.git
        /\ SameBase(f)
        /\ PermitHolds(f)
        /\ pulls' = [pulls EXCEPT ![f.pull] = MergedRecord(@, f)]
        /\ audit' = audit \cup
                      {Receipt("merge_override", "completed", f.pull, f.permit.actor)}
        /\ edge' = [edge EXCEPT ![e] = Idle]
        /\ UNCHANGED <<reviews, given, rules, ruleRev, statuses, runs, codeowners,
                       admins>>

\* Mutant of FinalizeEnds: the "completed" receipt of an override is written in
\* a transaction of its own and survives the failure of the merge's.
FinalizeEndsReceiptFirst(e) ==
    LET f == edge[e]
    IN  /\ f # Idle
        /\ f.git
        /\ edge' = [edge EXCEPT ![e] = Idle]
        /\ audit' = IF f.permit = NoPermit THEN audit ELSE audit \cup
                      {Receipt("merge_override", "completed", f.pull, f.permit.actor)}
        /\ UNCHANGED <<pulls, reviews, given, rules, ruleRev, statuses, runs, codeowners,
                       admins>>

\* Either finalize refused by a check or by a store failure (memory restored),
\* or answered "already merged": the caller's flight ends, git stays ahead.
FinalizeEnds(e) ==
    LET f == edge[e]
    IN  /\ f # Idle
        /\ f.git
        /\ edge' = [edge EXCEPT ![e] = Idle]
        /\ UNCHANGED <<pulls, reviews, given, rules, ruleRev, statuses, runs, codeowners,
                       admins, audit>>

-----------------------------------------------------------------------------
EditSteps ==
    \E p \in Pulls :
        \/ \E open \in OpenChoices, h \in Heads, b \in Bases, r \in Ranges,
              f \in PathSets : CreatePullRequest(p, open, h, b, r, f)
        \/ \E d \in DraftEdits \cup {Keep}, s \in UpdateStates \cup {Keep},
              r \in Ranges \cup {Keep}, f \in PathSets \cup {Keep} :
                UpdatePullRequest(p, d, s, r, f)
        \/ \E ref \in Branches, b \in Bases, r \in Ranges, f \in PathSets :
                RetargetPullRequest(p, ref, b, r, f)
        \/ \E b \in Bases : RecordPullRequestBase(p, b)
        \/ \E s \in IssueEdits : UpdateIssue(p, s)

RefreshSteps ==
    \E ref \in Branches, h \in Heads, b \in Bases \cup {NoSha} : RefreshHeads(ref, h, b)

ReviewSteps ==
    \E p \in Pulls, u \in Reviewers :
        \/ \E s \in ReviewEvents : CreateReview(p, u, s)
        \/ \E t \in 1..MaxReviews : \/ DismissOwnReview(p, u, t)
                                    \/ DismissOtherReview(p, u, t)
                                    \/ DismissOtherReviewFails(p, u, t)

ResultSteps ==
    \/ \E h \in Heads, row \in StatusRows : CreateCommitStatus(h, row)
    \/ \E row \in RunRows : CreateCheckRun(row)

PolicySteps ==
    \/ \E b \in Branches, rule \in RuleChoices : SetBranchProtection(b, rule)
    \/ \E b \in Branches : DeleteBranchProtection(b)
    \/ \E o \in OwnerMaps : SetCodeowners(o)
    \/ \E u \in Grantable : ChangeAdministrator(u)

MergeSteps ==
    \E e \in Edges :
        \/ \E p \in Pulls, r \in Heads \cup {NoSha} : EvaluateMergeReadiness(e, p, r)
        \/ \E p \in Pulls, u \in Users : PrepareMergeOverride(e, p, u)
        \/ GitMerge(e)
        \/ ExpirePermit(e)
        \/ FinalizeMerge(e)
        \/ FinalizeMergeWithOverride(e)
        \/ FinalizeEnds(e)

Next == \/ EditSteps \/ RefreshSteps \/ ReviewSteps \/ ResultSteps
        \/ PolicySteps \/ MergeSteps

Spec == Init /\ [][Next]_vars

-----------------------------------------------------------------------------
(* Properties *)

Merging(p) == p \in DOMAIN pulls /\ ~pulls[p].merged /\ pulls'[p].merged

\* A recorded merge is the one git performed: into the branch and merge base
\* the pull request still targets, and of its head whenever the caller bound
\* finalize_merge to one.  A retarget, a recorded base or a push between
\* readiness and finalize must not leave a record of another merge.
MergeRecordsWhatGitMerged ==
    \A p \in DOMAIN pulls :
        LET pr == pulls[p]
            m  == pr.mergeSha
        IN  /\ pr.merged <=> m # NoMerge
            /\ pr.merged => /\ m.baseRef = pr.baseRef
                            /\ m.base = pr.base
                            /\ m.requested # NoSha => m.head = pr.head

\* No later call (edit, refresh, retarget, second finalize, late override)
\* undoes a merge or changes what it records.
MergedIsFinal ==
    [][\A p \in DOMAIN pulls : pulls[p].merged =>
          /\ pulls'[p].merged
          /\ pulls'[p].mergeSha = pulls[p].mergeSha
          /\ pulls'[p].head = pulls[p].head
          /\ pulls'[p].baseRef = pulls[p].baseRef
          /\ pulls'[p].base = pulls[p].base]_vars

\* An approval that counts at the exact head was given for the branch the pull
\* request targets now, whatever retargets and head rewinds happened since:
\* what standing_approval is for.
ExactApprovalsJudgedThisBase ==
    \A p \in DOMAIN pulls :
        LET R == reviews[p]
        IN  \A i \in Approvals(R, EffectiveFor(pulls[p], R, "ExactHead")) :
                given[p][i] = pulls[p].baseRef

\* The same for the approvals the branch's own rule counts, diff identity
\* included: "it must not authorize a merge into another branch".
CountedApprovalsJudgedThisBase ==
    \A p \in DOMAIN pulls :
        LET R == reviews[p]
        IN  \A i \in Approvals(R, EffectiveFor(pulls[p], R,
                                               ReachFor(rules[pulls[p].baseRef]))) :
                given[p][i] = pulls[p].baseRef

\* A reviewer's verdicts that speak for the current head of p, under the reach
\* its branch's rule grants.
SpokenVerdicts(p, u) ==
    LET pr == pulls[p]
        R  == reviews[p]
    IN  { i \in DOMAIN R : /\ R[i].author = u
                           /\ R[i].state \in Verdicts
                           /\ Speaks(R, i, pr.head, pr.ids, ReachFor(rules[pr.baseRef])) }

\* No merge goes through while somebody's last verdict on what is merged is a
\* rejection nobody dismissed, with or without an override.
NoMergeOverHold ==
    [][\A p \in Pulls : Merging(p) =>
          \A u \in Users : \A i \in SpokenVerdicts(p, u) :
              /\ \A j \in SpokenVerdicts(p, u) : j <= i
              /\ reviews[p][i].state = "ChangesRequested"
              => \E d \in DOMAIN reviews[p] : reviews[p][d].target = i]_vars

\* Separation of duties across the whole history of a pull request: nobody
\* both withdrew somebody else's verdict and holds an approval of their own.
DutiesSeparated ==
    \A p \in Pulls :
        LET R == reviews[p]
        IN  \A i \in DOMAIN R :
                R[i].state = "Approved" /\ R[i].author \in DismissingAdmins(R)
                    => i \in WithdrawnVerdicts(R)

\* A dismissal never brings an older verdict back, at any head, diff identity
\* or reach: what counted before it is all that can count after it.
DismissalNeverRecovers ==
    [][\A p \in DOMAIN pulls :
          LET R == reviews[p]
              Q == reviews'[p]
          IN  Len(Q) > Len(R) /\ Q[Len(Q)].state = "Dismissed" =>
                \A h \in Heads, ids \in Identities, reach \in Reaches :
                    Effective(Q, h, ids, reach, pulls[p].author)
                        \subseteq Effective(R, h, ids, reach, pulls[p].author)]_vars

\* Only an explicit edit reopens a closed pull request: pushes, reviews,
\* results, retargets and reads leave it closed.
ClosedUntilEdited ==
    [][\A p \in DOMAIN pulls :
          pulls[p].state = "Closed" /\ pulls'[p].state # "Closed" =>
              \E d \in DraftEdits \cup {Keep}, s \in UpdateStates \cup {Keep} :
                 \E r \in Ranges \cup {Keep}, f \in PathSets \cup {Keep} :
                    UpdatePullRequest(p, d, s, r, f)]_vars

\* A merge the ordinary gate refuses happens only as an audited decision: its
\* completed receipt in the same step, its requested one before, by an
\* administrator who is neither the author nor a source of what it rests on.
OnlyAuditedBypass ==
    [][\A p \in Pulls : Merging(p) /\ GateNow(p, NoSha) # {} =>
          \E u \in admins :
             /\ Receipt("merge_override", "requested", p, u) \in audit
             /\ Receipt("merge_override", "completed", p, u) \in audit'
             /\ u # pulls[p].author
             /\ Cardinality(Approvers(reviews[p],
                     EffectiveFor(pulls[p], reviews[p],
                                  ReachFor(rules[pulls[p].baseRef]))) \ {u})
                  >= rules[pulls[p].baseRef].approvals
             /\ \A b \in GateNow(p, NoSha) :
                   /\ b.kind = "FailedStatusCheck"
                   /\ \E i \in DOMAIN statuses[pulls[p].head] :
                         LET row == statuses[pulls[p].head][i]
                         IN  row.context = b.context /\ row.creator # u
                               /\ row.state \in {"failure", "error"}]_vars

\* No administrator's dismissal stands without the receipt written before it.
DismissalReceipted ==
    \A p \in Pulls : \A d \in DOMAIN reviews[p] :
        IsCrossAuthorDismissal(reviews[p], d) =>
            Receipt("review_dismissal", "requested", p, reviews[p][d].author) \in audit

\* A completed override receipt always stands beside the merge it is about.
OverrideReceiptMeansMerged ==
    \A r \in audit : r.action = "merge_override" /\ r.phase = "completed" =>
        r.pull \in DOMAIN pulls /\ pulls[r.pull].merged

\* What the forge shows for a commit and a base agrees with its gate: success
\* where some status answers and every context with an answer is satisfied; and
\* where no status states a base, the page that leaves bases aside shows it too;
\* and under a suite that succeeded every context without statuses is satisfied.
ShownAgreesWithGate(S, head, base) ==
    LET answered == { S[i].context : i \in { k \in DOMAIN S : S[k].base \in {AnyBase, base} } }
    IN  /\ CombinedStatusForBase(S, base) = "success" <=>
              answered # {} /\ \A c \in answered : RequiredContextState(c, S, runs, head, base) = "Satisfied"
        /\ (\A i \in DOMAIN S : S[i].base = AnyBase) => CombinedStatus(S) = CombinedStatusForBase(S, base)
        /\ CheckSuite(runs, head).conclusion = "success" =>
              \A i \in DOMAIN runs :
                 runs[i].head = head /\ (\A k \in DOMAIN S : S[k].context # runs[i].context) =>
                    RequiredContextState(runs[i].context, S, runs, head, base) = "Satisfied"

\* A merge through the ordinary gate rests, for every required context, on a
\* passing answer for this base that no failing answer is newer than; a check
\* run stands in only where no status is pinned to a base; and the status page
\* and the gate read the same rows alike (required_context_state,
\* combined_status_for_base).
ProofAnswersThisBase ==
    [][\A p \in Pulls :
          Merging(p) /\ (\A u \in Users :
              Receipt("merge_override", "completed", p, u) \notin audit') =>
            LET pr   == pulls[p]
                S    == statuses[pr.head]
                rule == rules[pr.baseRef]
            IN  rule # NoRule =>
                  /\ ShownAgreesWithGate(S, pr.head, pr.baseRef)
                  /\ \A c \in rule.checks :
                    \/ \E i \in Answering(S, c, pr.baseRef) :
                          /\ S[i].state = "success"
                          /\ \A j \in Answering(S, c, pr.baseRef) : S[j].at <= S[i].at
                    \/ /\ \A i \in DOMAIN S : S[i].context # c
                       /\ \E i \in RunsOf(runs, pr.head, c) :
                             runs[i].conclusion = "success"]_vars
=============================================================================
