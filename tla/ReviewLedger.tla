---------------------------- MODULE ReviewLedger ----------------------------
(***************************************************************************)
(* The append-only review rows of one pull request and the selection of    *)
(* the verdicts that count: branch_protection/reviews.rs and               *)
(* standing_approval of engine/pull_requests.rs.                           *)
(*                                                                         *)
(* A ledger R is a sequence of rows                                        *)
(*   [author, state, head, ids, target, admin]                             *)
(* A row's id is its position.  head is NoHead on rows migrated from the   *)
(* schema that recorded none, ids is NoIds when the diff identity of the   *)
(* head was unknown, target is 0 on a row that names no review, and admin  *)
(* is dismissal_authority = repository_admin.                              *)
(*                                                                         *)
(* The source selects verdicts with one pass over the rows that keeps a    *)
(* map from reviewer to latest verdict.  Here the same selection is stated *)
(* without a loop: a row is effective when it is a counting verdict that   *)
(* no later row of its author replaced, withdrew or cleared.  ReviewLoop   *)
(* is the loop itself; the run components shows that the two agree.        *)
(***************************************************************************)
EXTENDS Naturals, Sequences, FiniteSets

CONSTANTS NoUser,   \* "no pull request author given" (pr_author = None)
          NoHead,   \* head_sha = None
          NoIds     \* head_patch_ids = [] (or not in the review format)

Verdicts == {"Approved", "ChangesRequested"}
ReviewStates == Verdicts \cup {"Commented", "Dismissed"}
Reaches == {"ExactHead", "UnchangedDiff"}

\* A dismissal written by an administrator about somebody else's row.
IsCrossAuthorDismissal(R, d) ==
    /\ R[d].state = "Dismissed"
    /\ R[d].head # NoHead
    /\ R[d].admin
    /\ R[d].target \in DOMAIN R
    /\ R[R[d].target].author # R[d].author

\* Rows that a recorded dismissal withdraws at every head, for good.
WithdrawnVerdicts(R) ==
    { t \in DOMAIN R : \E d \in DOMAIN R :
        /\ R[d].state = "Dismissed"
        /\ R[d].head # NoHead
        /\ R[d].target = t
        /\ R[t].author = R[d].author \/ R[d].admin }

DismissingAdmins(R) ==
    { R[d].author : d \in { e \in DOMAIN R : IsCrossAuthorDismissal(R, e) } }

\* The rows that speak for this head: written on it, or (when the rule asks
\* for it and the identity is known) on a head with the same diff identity.
Speaks(R, i, head, ids, reach) ==
    \/ R[i].head = head
    \/ reach = "UnchangedDiff" /\ ids # NoIds /\ R[i].ids = ids

\* Approvals the pass ignores: the pull request author's own, and those of an
\* administrator who withdrew somebody else's verdict here.
Ignored(R, i, author) ==
    /\ R[i].state = "Approved"
    /\ R[i].author = author \/ R[i].author \in DismissingAdmins(R)

\* Mutant of Ends: a withdrawn verdict is passed over instead of replacing the
\* reviewer's earlier one.
EndsUnlessWithdrawn(R, j, i, author) ==
    \/ R[j].state \in Verdicts /\ ~Ignored(R, j, author) /\ j \notin WithdrawnVerdicts(R)
    \/ /\ R[j].state = "Dismissed"
       /\ R[j].target = i \/ (R[j].target = 0 /\ R[i].state = "Approved")

\* Row j ends verdict i of the same reviewer: j was itself withdrawn, is a
\* newer counting verdict, or is a dismissal that names i (an unbound
\* historical dismissal clears an approval and never a rejection).
Ends(R, j, i, author) ==
    \/ j \in WithdrawnVerdicts(R)
    \/ R[j].state \in Verdicts /\ ~Ignored(R, j, author)
    \/ /\ R[j].state = "Dismissed"
       /\ R[j].target = i \/ (R[j].target = 0 /\ R[i].state = "Approved")

\* reduce_reviews: at most one effective row per reviewer.
Effective(R, head, ids, reach, author) ==
    { i \in DOMAIN R :
        /\ Speaks(R, i, head, ids, reach)
        /\ R[i].state \in Verdicts
        /\ i \notin WithdrawnVerdicts(R)
        /\ ~Ignored(R, i, author)
        /\ \A j \in DOMAIN R :
              /\ j > i
              /\ R[j].author = R[i].author
              /\ Speaks(R, j, head, ids, reach)
              => ~Ends(R, j, i, author) }

\* effective_reviews_for_head
EffectiveForHead(R, head) == Effective(R, head, NoIds, "ExactHead", NoUser)

Approvals(R, eff) == { i \in eff : R[i].state = "Approved" }
Rejections(R, eff) == { i \in eff : R[i].state = "ChangesRequested" }

\* Mutant of StandingApproval: only the last reviewed head is looked at.
StandingOnLastHead(R) ==
    R # << >> /\ Approvals(R, EffectiveForHead(R, R[Len(R)].head)) # {}

\* standing_approval: some approval still stands at a head it was given at.
StandingApproval(R) ==
    \E i \in DOMAIN R :
        /\ R[i].state = "Approved"
        /\ R[i].head # NoHead
        /\ Approvals(R, EffectiveForHead(R, R[i].head)) # {}
=============================================================================
