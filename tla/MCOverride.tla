------------------------------ MODULE MCOverride ------------------------------
(***************************************************************************)
(* PullRequests with a required status context: statuses and check runs    *)
(* arrive in any order, some pinned to another base, and the administrator   *)
(* cat may override a failed check while rules, grants and reviews         *)
(* change between the permit and the merge.                                *)
(***************************************************************************)
EXTENDS PullRequests

CONSTANTS ann, bob, cat, ci, main, rel, h1, b1

Rule == [checks |-> {"build"}, approvals |-> 1, enforceAdmins |-> FALSE,
         override |-> TRUE, adminDismissal |-> FALSE, overrideChecks |-> {"build"},
         overrideCreators |-> {ci, cat}, linear |-> FALSE, signed |-> FALSE,
         proof |-> FALSE, dismissStale |-> TRUE, exact |-> TRUE]

MCRuleChoices == {Rule}
MCInitialRules == {[b \in Branches |-> IF b = rel THEN NoRule ELSE Rule]}
Status(state, base, creator, at) ==
    [context |-> "build", state |-> state, base |-> base, creator |-> creator, at |-> at]
MCStatusRows == {Status("failure", AnyBase, ci, 1), Status("success", rel, ci, 1),
                 Status("success", AnyBase, ci, 2), Status("failure", main, cat, 2)}
MCRunRows == {[context |-> "build", head |-> h1, status |-> "Completed", conclusion |-> "success"]}
MCContentOf == [h \in Heads |-> "diff"]
Linear == [merge |-> FALSE, unsigned |-> FALSE]
MCRangeOf == [h \in Heads |-> Linear]
MCRanges == {Linear}
MCPathSets == {{"src"}}
MCOwnerMaps == {[f \in Paths |-> {}]}
MCOpenChoices == {[author |-> ann, headRef |-> rel, baseRef |-> main,
                   fork |-> FALSE, draft |-> FALSE]}
=============================================================================
