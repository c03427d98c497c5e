------------------------------- MODULE MCStore -------------------------------
(* From a request to what is kept, in one run: a push at the git edge, what    *)
(* becomes of a change and the proof it owes; the store's custody and its one  *)
(* connection, the rows it writes and reads, and the migrations of an open.  A *)
(* behaviour moves one of them, chosen at the start; the others keep one       *)
(* initial state.                                                              *)
EXTENDS ForgeStore, SnapshotRows, Migrations, GitEdge, ChangeRouting, TLC

VARIABLE focus

\* Openers are interchangeable, and so are the names and the ids of repositories.
MCSymmetry == Permutations(Openers) \cup Permutations(RowSlugs) \cup Permutations(RepoUuids)

MCProvenance == [r \in FamilyRepos |-> IF r = "q1" THEN "split" ELSE "prefix"]

Sent == {Command(Main, FALSE), Command("refs/heads/dev", FALSE), Command("refs/heads/dev", TRUE),
         Shallow("s1"), Bad, Flush, Control, Reserved}
MCPreludes == UNION {[1 .. n -> Sent] : n \in 0 .. 3}

\* Below nothing, a half, all, and beyond all.
MCThresholds == {-1, 2, 4, 5}

Pattern(kind, of) == [kind |-> kind, of |-> of]
Doc == <<"d", "/", "a">>
Stray == <<"d", "x">>
Allowed == <<"t", "/", "g">>
Generated == <<"t", "/", "h">>
Src == <<"s", "r", "c">>
MCChangedPaths ==
    UNION {[1 .. n -> [path : {Doc, Stray, Allowed, Generated, Src}, sensitive : BOOLEAN]] : n \in 0 .. 2}
MCZones == <<[pattern |-> Pattern("exact", Allowed), allow |-> TRUE],
             [pattern |-> Pattern("tree", <<"t">>), allow |-> FALSE]>>
MCOwnerRules == <<[pattern |-> Pattern("tree", <<"d">>), names |-> {"writers"}],
                  [pattern |-> Pattern("stem", <<"s">>), names |-> {"coders"}],
                  [pattern |-> Pattern("tree", <<"t">>), names |-> {"coders"}]>>
MCTestRules == <<[pattern |-> Pattern("tree", <<"d">>), names |-> {"docs"}],
                 [pattern |-> Pattern("stem", <<"s">>), names |-> {"unit"}],
                 [pattern |-> Pattern("exact", Allowed), names |-> {"a lane of no engine"}]>>
MCLanes == [docs |-> FALSE, unit |-> TRUE, policy |-> TRUE]

EdgeAtRest == EdgeStart /\ request = Request(<<>>, 0, TRUE)
RouteAtRest == RoutingStart /\ change = [files |-> {}, base |-> "base"] /\ openPrs = <<>> /\ threshold = 2

\* One store, and a name that leads nowhere; a file every migration has run on.
MCInit ==
    /\ StoreInit /\ names = [n \in Names |-> IF n = "n1" THEN "f1" ELSE NoFile]
    /\ RowInit /\ MigInit
    /\ \/ focus \in {"store", "rows", "edge", "route", "proof"} /\ cols = AllColumns /\ bots = "team"
       \/ focus = "migrations"
    /\ IF focus = "edge" THEN EdgeInit ELSE EdgeAtRest
    /\ IF focus = "route" THEN RoutingInit ELSE RouteAtRest

MCNext ==
    /\ UNCHANGED focus
    /\ \/ focus = "store" /\ StoreNext /\ UNCHANGED <<rowVars, migVars, edgeVars, routingVars>>
       \/ focus = "rows" /\ RowNext /\ UNCHANGED <<storeVars, migVars, edgeVars, routingVars>>
       \/ focus = "migrations" /\ MigNext /\ UNCHANGED <<storeVars, rowVars, edgeVars, routingVars>>
       \/ focus = "edge" /\ EdgeNext /\ UNCHANGED <<storeVars, rowVars, migVars, routingVars>>
       \/ focus = "route" /\ OverlapNext /\ UNCHANGED <<storeVars, rowVars, migVars, edgeVars>>
       \/ focus = "proof" /\ ProofNext /\ UNCHANGED <<storeVars, rowVars, migVars, edgeVars>>

mcVars == <<storeVars, rowVars, migVars, edgeVars, routingVars, focus>>

MCSpec == MCInit /\ [][MCNext]_mcVars
=============================================================================
