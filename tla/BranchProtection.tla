-------------------------- MODULE BranchProtection --------------------------
(***************************************************************************)
(* The merge gate: branch_protection/evaluate.rs, the per-base status      *)
(* selection of model/checks.rs, and the override rules of                 *)
(* engine/merge_overrides.rs that read the gate's answer.                  *)
(*                                                                         *)
(* Everything here is a function of its arguments, as in the source: the   *)
(* state that the engine reads under its lock is passed in.                *)
(*                                                                         *)
(* A rule keeps the settings the gate reads:                               *)
(*   checks     required_status_checks (a set of contexts)                 *)
(*   approvals  required_approving_review_count                            *)
(*   enforceAdmins, override, adminDismissal                               *)
(*   overrideChecks, overrideCreators                                      *)
(*   linear, signed, proof                                                 *)
(*   dismissStale, exact  dismiss_stale_approvals and                      *)
(*              require_exact_sha_approval                                 *)
(* `strict`, the force-push and the deletion settings are not read by the  *)
(* gate and are left out.                                                  *)
(***************************************************************************)
EXTENDS ReviewLedger

CONSTANTS NoRule,            \* the branch has no protection rule
          NoSha,             \* requested_sha = None
          AnyBase,           \* a commit status that states no base
          NoContext,         \* a blocker that is about no status context
          ProofContext,      \* "jankurai/proof"
          JankuraiMandatory  \* audit_merge_enforced(): a process-wide setting

ASSUME JankuraiMandatoryIsBoolean == JankuraiMandatory \in BOOLEAN

StatusStates == {"error", "failure", "pending", "success"}

BlockerKinds == {"ShaMismatch", "DraftPullRequest", "ChangesRequested",
                 "JankuraiProofRequired", "MissingReview", "MissingStatusCheck",
                 "FailedStatusCheck", "NonLinearHistory", "UnsignedCommits",
                 "MissingCodeOwnerReview"}

Blocker(kind) == [kind |-> kind, context |-> NoContext]
If(cond, kind) == IF cond THEN {Blocker(kind)} ELSE {}

-----------------------------------------------------------------------------
(* Required contexts *)

\* Rows of S that answer for a merge into `base`.
Answering(S, context, base) ==
    { i \in DOMAIN S : S[i].context = context /\ S[i].base \in {AnyBase, base} }

\* current_status_for_base: the newest answering row, the last appended of
\* equally old ones.  A set of one position, or empty when no row answers.
CurrentStatus(S, context, base) ==
    LET A == Answering(S, context, base)
    IN  { i \in A : \A j \in A : S[j].at < S[i].at \/ (S[j].at = S[i].at /\ j <= i) }

\* Check runs of this head and context; CheckRun::newest is the last created.
RunsOf(C, head, context) ==
    { i \in DOMAIN C : C[i].head = head /\ C[i].context = context }

\* Mutant of RequiredContextState: a check run stands in for a context whose
\* statuses are pinned to other bases.
BorrowedContextState(context, S, C, head, base) ==
    LET cur  == CurrentStatus(S, context, base)
        runs == RunsOf(C, head, context)
        last == CHOOSE i \in runs : \A j \in runs : j <= i
    IN  IF cur # {}
          THEN IF \E i \in cur : S[i].state = "success" THEN "Satisfied" ELSE "Failed"
        ELSE IF runs = {}
          THEN "Missing"
        ELSE IF C[last].status = "Completed" /\ C[last].conclusion = "success"
          THEN "Satisfied"
        ELSE "Failed"

RequiredContextState(context, S, C, head, base) ==
    LET cur  == CurrentStatus(S, context, base)
        runs == RunsOf(C, head, context)
        last == CHOOSE i \in runs : \A j \in runs : j <= i
    IN  IF cur # {}
          THEN IF \E i \in cur : S[i].state = "success" THEN "Satisfied" ELSE "Failed"
        ELSE IF \E i \in DOMAIN S : S[i].context = context /\ S[i].base # AnyBase
          THEN "Missing"
        ELSE IF runs = {}
          THEN "Missing"
        ELSE IF C[last].status = "Completed" /\ C[last].conclusion = "success"
          THEN "Satisfied"
        ELSE "Failed"

\* The one state shown for the current row of each context.
Rollup(states) ==
    IF "error" \in states THEN "error"
    ELSE IF "failure" \in states THEN "failure"
    ELSE IF states = {} \/ "pending" \in states THEN "pending"
    ELSE "success"

\* combined_status, which leaves bases aside, and combined_status_for_base.
CombinedStatus(S) ==
    LET newer(j, i) == S[j].context = S[i].context /\ (S[j].at > S[i].at \/ (S[j].at = S[i].at /\ j > i))
    IN  Rollup({ S[i].state : i \in { k \in DOMAIN S : \A j \in DOMAIN S : ~newer(j, k) } })

CombinedStatusForBase(S, base) ==
    Rollup({ S[i].state : i \in UNION { CurrentStatus(S, S[k].context, base) : k \in DOMAIN S } })

\* check_suites: one suite per head, of all its runs.
CheckSuite(C, head) ==
    LET own == { C[i] : i \in { k \in DOMAIN C : C[k].head = head } }
        completed == \A r \in own : r.status = "Completed"
    IN  [status |-> IF completed THEN "Completed"
                    ELSE IF \E r \in own : r.status = "InProgress" THEN "InProgress" ELSE "Queued",
         conclusion |-> IF ~completed THEN "none"
                        ELSE IF \A r \in own : r.conclusion = "success" THEN "success" ELSE "failure"]

-----------------------------------------------------------------------------
(* The gate *)

ReachFor(rule) ==
    IF rule # NoRule /\ ~rule.dismissStale /\ ~rule.exact
      THEN "UnchangedDiff" ELSE "ExactHead"

\* effective_reviews_for_pull_request_with
EffectiveFor(pr, R, reach) == Effective(R, pr.head, pr.ids, reach, pr.author)

Approvers(R, eff) == { R[i].author : i \in Approvals(R, eff) }

\* A changed path that has owners, none of whom approved.
MissesCodeOwner(pr, owners, approvers) ==
    \E f \in pr.paths : owners[f] # {} /\ owners[f] \cap approvers = {}

ProofMissing(pr, S, C) ==
    RequiredContextState(ProofContext, S, C, pr.head, pr.baseRef) # "Satisfied"

ContextBlockers(pr, rule, S, C) ==
    LET answer(c) == RequiredContextState(c, S, C, pr.head, pr.baseRef)
    IN  { [kind |-> IF answer(c) = "Missing" THEN "MissingStatusCheck"
                                             ELSE "FailedStatusCheck",
           context |-> c] : c \in { d \in rule.checks : answer(d) # "Satisfied" } }

IntrinsicBlockers(pr, R, eff, S, C, requested) ==
    If(requested # NoSha /\ requested # pr.head, "ShaMismatch")
      \cup If(pr.draft, "DraftPullRequest")
      \cup If(Rejections(R, eff) # {}, "ChangesRequested")
      \cup If(JankuraiMandatory /\ ProofMissing(pr, S, C), "JankuraiProofRequired")

RuleBlockers(pr, rule, R, eff, S, C, owners) ==
    If(Cardinality(Approvals(R, eff)) < rule.approvals, "MissingReview")
      \cup ContextBlockers(pr, rule, S, C)
      \cup If(rule.proof /\ ~JankuraiMandatory /\ ProofMissing(pr, S, C),
              "JankuraiProofRequired")
      \cup If(rule.linear /\ pr.commits.merge, "NonLinearHistory")
      \cup If(rule.signed /\ pr.commits.unsigned, "UnsignedCommits")
      \cup If(MissesCodeOwner(pr, owners, Approvers(R, eff)),
              "MissingCodeOwnerReview")

\* evaluate_branch_protection_with, as evaluate_locked calls it: the actor is
\* never an administrator.  The gate passes when the set is empty.
Blockers(pr, rule, R, S, C, owners, requested) ==
    LET eff == EffectiveFor(pr, R, ReachFor(rule))
    IN  IntrinsicBlockers(pr, R, eff, S, C, requested)
          \cup (IF rule = NoRule THEN {}
                ELSE RuleBlockers(pr, rule, R, eff, S, C, owners))

-----------------------------------------------------------------------------
(* The administrator's override of failed checks *)

\* validate_override: who may decide, on which pull request.
OverrideAllowed(pr, rule, R, admins, actor) ==
    /\ actor \in admins
    /\ rule # NoRule
    /\ rule.override
    /\ ~rule.enforceAdmins
    /\ actor # pr.author
    /\ LET eff == EffectiveFor(pr, R, ReachFor(rule))
       IN  Cardinality({ i \in Approvals(R, eff) : R[i].author # actor })
             >= rule.approvals
    /\ ~pr.draft
    /\ pr.state \notin {"Closed", "Merged"}
    /\ ~pr.merged

\* The failing row behind a blocker, when it may be overridden by `actor`.
OverridableRow(pr, rule, S, C, actor, b) ==
    /\ b.kind = "FailedStatusCheck"
    /\ b.context \in rule.overrideChecks
    /\ \A i \in RunsOf(C, pr.head, b.context) : C[i].status = "Completed"
    /\ \E i \in CurrentStatus(S, b.context, pr.baseRef) :
          /\ S[i].creator \in rule.overrideCreators
          /\ S[i].state \in {"failure", "error"}
          /\ S[i].creator # actor

\* Mutant of OverridableOnly: only the failed checks are examined.
OverridableChecks(pr, rule, S, C, actor, blockers) ==
    \A b \in blockers : b.kind = "FailedStatusCheck" =>
        OverridableRow(pr, rule, S, C, actor, b)

\* validate_override_evaluation: every blocker is an overridable failed check.
OverridableOnly(pr, rule, S, C, actor, blockers) ==
    \A b \in blockers : OverridableRow(pr, rule, S, C, actor, b)

\* The rows the decision rests on, by position in S.
Evidence(pr, S, blockers) ==
    UNION { CurrentStatus(S, b.context, pr.baseRef) : b \in blockers }
=============================================================================
