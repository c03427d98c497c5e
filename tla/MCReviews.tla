------------------------------ MODULE MCReviews ------------------------------
(***************************************************************************)
(* PullRequests on one pull request by ann, reviewed by bob and by the     *)
(* administrator cat: reviews, dismissals, pushes that keep the diff,      *)
(* retargets and merges race.  No status contexts.                         *)
(***************************************************************************)
EXTENDS PullRequests

CONSTANTS ann, bob, cat, main, rel, feat, h1, h2, b1, b2

Lax == [checks |-> {}, approvals |-> 1, enforceAdmins |-> FALSE,
        override |-> FALSE, adminDismissal |-> TRUE, overrideChecks |-> {},
        overrideCreators |-> {}, linear |-> FALSE, signed |-> FALSE,
        proof |-> FALSE, dismissStale |-> FALSE, exact |-> FALSE]
Strict == [Lax EXCEPT !.dismissStale = TRUE, !.exact = TRUE]

MCRuleChoices == {Lax, Strict}
MCInitialRules == {[b \in Branches |-> IF b = main THEN Strict
                                      ELSE IF b = rel THEN Lax ELSE NoRule]}
MCContentOf == [h \in Heads |-> "diff"]
Linear == [merge |-> FALSE, unsigned |-> FALSE]
MCRangeOf == [h \in Heads |-> Linear]
MCRanges == {Linear}
MCPathSets == {{"src"}}
MCOwnerMaps == {[f \in Paths |-> {}]}
MCOpenChoices == {[author |-> ann, headRef |-> feat, baseRef |-> main,
                   fork |-> FALSE, draft |-> FALSE]}
=============================================================================
