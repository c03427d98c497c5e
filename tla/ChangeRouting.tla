--------------------------- MODULE ChangeRouting ---------------------------
(* What becomes of a proposed change: whether it is routed onto an open pull   *)
(* request it overlaps, and the proof it owes before it may merge.  Both are   *)
(* loops over lists that stop at the first obstacle; they are checked against  *)
(* definitions over sets.                                                      *)
EXTENDS Integers, Sequences, FiniteSets, SequencesExt, FiniteSetsExt

CONSTANTS
    Touched,            \* sets of files a change or a pull request may touch
    PrNumbers,            \* numbers of open pull requests
    Thresholds,         \* configured thresholds, in quarters
    MaxOpen,            \* bound on open pull requests
    ChangedPaths,       \* sequences of [path, sensitive]; a path is a sequence of characters
    Zones, OwnerRules, TestRules,   \* the maps, in order
    Lanes,              \* lanes the engine knows: name to whether it is required
    MaxEvidence         \* bound on evidence entries

ASSUME ChangeRoutingAssumption ==
    /\ PrNumbers \subseteq Nat /\ Thresholds \subseteq Int /\ MaxOpen \in Nat /\ MaxEvidence \in Nat
    /\ \A files \in Touched : IsFiniteSet(files)
    /\ \A paths \in ChangedPaths : Len(paths) \in Nat /\ DOMAIN paths = 1 .. Len(paths)

VARIABLES
    change, openPrs, threshold,     \* inputs of decide
    scored, best,                   \* scores looked at; index of the best so far, 0 for none
    decision,
    plan,                           \* the plan being built, or where planning stopped
    evidence, witness

routeVars == <<change, openPrs, threshold, scored, best, decision>>
proofVars == <<plan, evidence, witness>>
routingVars == <<routeVars, proofVars>>

----------------------------------------------------------------------------
(* Overlap.  Ratios are compared by cross-multiplication.                      *)
BaseNames == {"base", "other base"}

Undecided == [to |-> "undecided", pr |-> 0]
CreateNew == [to |-> "new", pr |-> 0]

Clamp(t) == Max({0, Min({t, 4})})

\* effective_threshold.
EffectiveThreshold == Clamp(threshold)

\* jaccard, as numerator and denominator; two empty sets do not overlap.
Jaccard(a, b) == IF a \cup b = {} THEN <<0, 1>> ELSE <<Cardinality(a \cap b), Cardinality(a \cup b)>>

Score(i) == Jaccard(change.files, openPrs[i].files)
Less(x, y) == x[1] * y[2] < y[1] * x[2]
MeetsThreshold(x) == 4 * x[1] >= EffectiveThreshold * x[2]

\* Mutant of Supersedes: among equals the one listed last.
SupersedesWhenListedLater(i, j) == ~Less(Score(i), Score(j))

\* The order of max_by: overlap, then the lower number.
Supersedes(i, j) ==
    \/ Less(Score(j), Score(i))
    \/ Score(i)[1] * Score(j)[2] = Score(j)[1] * Score(i)[2] /\ openPrs[i].number <= openPrs[j].number

\* decide_from_scores, one candidate at a time.
LookAt ==
    LET i == scored + 1 IN
    /\ decision = Undecided /\ i <= Len(openPrs)
    /\ scored' = i
    /\ best' = IF MeetsThreshold(Score(i)) /\ (best = 0 \/ Supersedes(i, best)) THEN i ELSE best
    /\ UNCHANGED <<change, openPrs, threshold, decision>>

Decide ==
    /\ decision = Undecided /\ scored = Len(openPrs)
    /\ decision' = IF best = 0 THEN CreateNew
                   ELSE [pr |-> openPrs[best].number,
                         to |-> IF openPrs[best].base # change.base \/ ~openPrs[best].proved THEN "refused"
                                ELSE "existing"]
    /\ UNCHANGED <<change, openPrs, threshold, scored, best>>

OverlapNext == (LookAt \/ Decide) /\ UNCHANGED proofVars

----------------------------------------------------------------------------
(* Proof planning *)

\* PathPattern::matches.
Matches(pattern, path) ==
    CASE pattern.kind = "all" -> TRUE
      [] pattern.kind = "tree" -> path = pattern.of \/ IsPrefix(Append(pattern.of, "/"), path)
      [] pattern.kind = "stem" -> IsPrefix(pattern.of, path)
      [] pattern.kind = "exact" -> path = pattern.of

Matching(rules, path) == {i \in DOMAIN rules : Matches(rules[i].pattern, path)}
Named(rules, path) == UNION {rules[i].names : i \in Matching(rules, path)}

NotPlanned == [at |-> "none"]
Blocked(why) == plan' = [plan EXCEPT !.at = "blocked", !.why = why]

BeginPlan(paths, agent) ==
    /\ plan = NotPlanned
    /\ plan' = [at |-> "paths", why |-> "", change |-> paths, agent |-> agent, next |-> 1, owners |-> {}, lanes |-> {}]
    /\ UNCHANGED <<evidence, witness>>

\* The first zone that matches decides whether an agent may edit the path.
Denied(path, agent) ==
    LET zones == Matching(Zones, path) IN agent /\ zones # {} /\ ~Zones[Min(zones)].allow

\* Mutant of LanesOf: a sensitive path owes nothing more.
LanesOfAnyPath(changed) == Named(TestRules, changed.path)

LanesOf(changed) == Named(TestRules, changed.path) \cup IF changed.sensitive THEN {"policy"} ELSE {}

PlanPath ==
    LET changed == plan.change[plan.next] IN
    /\ plan.at = "paths" /\ plan.next <= Len(plan.change)
    /\ IF Denied(changed.path, plan.agent) THEN Blocked("generated")
       ELSE IF Named(OwnerRules, changed.path) = {} THEN Blocked("ownerless")
       ELSE IF Named(TestRules, changed.path) = {} THEN Blocked("unmapped")
       ELSE plan' = [plan EXCEPT !.next = @ + 1, !.owners = @ \cup Named(OwnerRules, changed.path),
                                 !.lanes = @ \cup LanesOf(changed)]
    /\ UNCHANGED <<evidence, witness>>

ResolveLanes ==
    /\ plan.at = "paths" /\ plan.next > Len(plan.change)
    /\ IF plan.lanes \subseteq DOMAIN Lanes THEN plan' = [plan EXCEPT !.at = "planned"] ELSE Blocked("unmapped")
    /\ UNCHANGED <<evidence, witness>>

\* Evidence of runs, perhaps several of one lane.
RunLane(lane, success) ==
    /\ plan.at = "planned" /\ Len(evidence) < MaxEvidence
    /\ evidence' = Append(evidence, [lane |-> lane, success |-> success])
    /\ UNCHANGED <<plan, witness>>

\* Mutant of EvidenceOf: any entry of the lane will do.
AnyEvidenceOf(lane) == {e \in ToSet(evidence) : e.lane = lane /\ e.success}

\* Collected into a map by lane: a later entry replaces an earlier one.
EvidenceOf(lane) ==
    LET entries == {i \in DOMAIN evidence : evidence[i].lane = lane} IN
    {evidence[i] : i \in {i \in entries : \A j \in entries : j <= i}}

Verify ==
    LET required == {l \in plan.lanes : Lanes[l]} IN
    /\ plan.at = "planned" /\ witness = {}
    /\ \A l \in required : \E e \in EvidenceOf(l) : e.success
    /\ witness' = {[lanes |-> plan.lanes, owners |-> plan.owners, ran |-> evidence]}
    /\ UNCHANGED <<plan, evidence>>

ProofNext ==
    /\ \/ \E paths \in ChangedPaths, agent \in BOOLEAN : BeginPlan(paths, agent)
       \/ PlanPath \/ ResolveLanes \/ Verify
       \/ \E lane \in DOMAIN Lanes, success \in BOOLEAN : RunLane(lane, success)
    /\ UNCHANGED routeVars

----------------------------------------------------------------------------
OpenPr == [number : PrNumbers, files : Touched, base : BaseNames, proved : BOOLEAN]

Lists == {s \in UNION {[1 .. n -> OpenPr] : n \in 0 .. MaxOpen} : \A i, j \in DOMAIN s : s[i].number = s[j].number => i = j}

RoutingStart ==
    /\ scored = 0 /\ best = 0 /\ decision = Undecided
    /\ plan = NotPlanned /\ evidence = <<>> /\ witness = {}

RoutingInit ==
    /\ RoutingStart
    /\ change \in [files : Touched, base : {"base"}] /\ openPrs \in Lists /\ threshold \in Thresholds

RoutingSpec == RoutingInit /\ [][OverlapNext \/ ProofNext]_routingVars

----------------------------------------------------------------------------
(* In whatever order the open pull requests are listed: a change goes to one   *)
(* of its own base with a green proof, and only if no other overlaps it more,  *)
(* or as much with a lower number; where that one is unsafe it is refused, not *)
(* sent to the next; it is new exactly when none reaches the threshold         *)
(* (decide_from_scores).                                                       *)
RoutingIsSafe ==
    decision # Undecided =>
        LET near == {i \in DOMAIN openPrs : MeetsThreshold(Score(i))}
            nearest == {i \in near : \A j \in near : ~Less(Score(i), Score(j))}
            number == Min({openPrs[i].number : i \in nearest})
            chosen == CHOOSE i \in nearest : openPrs[i].number = number IN
        IF near = {} THEN decision = CreateNew
        ELSE /\ decision.pr = number
             /\ decision.to = IF openPrs[chosen].base = change.base /\ openPrs[chosen].proved THEN "existing" ELSE "refused"

(* A witness stands for a change all of whose paths have an owner, none of     *)
(* which an agent may not edit; it names every lane any of them owes, and      *)
(* every required one of those passed when it was last run (plan, verify).     *)
WitnessCoversChange ==
    \A w \in witness :
        \A i \in DOMAIN plan.change :
            LET c == plan.change[i] IN
            /\ ~Denied(c.path, plan.agent)
            /\ {} # Named(OwnerRules, c.path) /\ Named(OwnerRules, c.path) \subseteq w.owners
            /\ Named(TestRules, c.path) \subseteq w.lanes /\ (c.sensitive => "policy" \in w.lanes)
            /\ \A l \in w.lanes : Lanes[l] =>
                  \E j \in DOMAIN w.ran : /\ w.ran[j].lane = l /\ w.ran[j].success
                                          /\ \A k \in j + 1 .. Len(w.ran) : w.ran[k].lane # l

(* Neither a routed change nor a proved one gets past what it was held         *)
(* against.                                                                    *)
ChangesAreHeldToProof == RoutingIsSafe /\ WitnessCoversChange
=============================================================================
