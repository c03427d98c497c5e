------------------------------- MODULE MCMerge -------------------------------
(***************************************************************************)
(* PullRequests with two callers driving two-phase merges of one pull      *)
(* request while its author edits, pushes and retargets it, a reviewer     *)
(* writes verdicts and an administrator changes the rule.                  *)
(***************************************************************************)
EXTENDS PullRequests, TLC

CONSTANTS ann, bob, main, rel, feat, h1, h2, b1, b2, e1, e2

Reviewed == [checks |-> {}, approvals |-> 1, enforceAdmins |-> FALSE,
             override |-> FALSE, adminDismissal |-> FALSE, overrideChecks |-> {},
             overrideCreators |-> {}, linear |-> TRUE, signed |-> FALSE,
             proof |-> FALSE, dismissStale |-> TRUE, exact |-> TRUE]
Open == [Reviewed EXCEPT !.approvals = 0]

MCRuleChoices == {Reviewed, Open}
MCInitialRules == {[b \in Branches |-> IF b = main THEN Reviewed ELSE NoRule]}
\* The two callers are interchangeable.
EdgeSymmetry == Permutations(Edges)
MCContentOf == [h \in Heads |-> "diff"]
Linear == [merge |-> FALSE, unsigned |-> FALSE]
MCRangeOf == [h \in Heads |-> Linear]
MCRanges == {Linear}
MCPathSets == {{"src"}}
MCOwnerMaps == {[f \in Paths |-> {}], [f \in Paths |-> {bob}]}
MCOpenChoices == {[author |-> ann, headRef |-> feat, baseRef |-> main,
                   fork |-> FALSE, draft |-> FALSE]}
=============================================================================
