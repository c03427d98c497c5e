------------------------- MODULE PullRequestsProofs -------------------------
(***************************************************************************)
(* Theorems about PullRequests, for every repository, reviewer, branch,    *)
(* commit and bound: type correctness, what a merge record says, that a    *)
(* merge is final, separation of duties, and that an approval counted at   *)
(* the exact head was given for the branch the pull request targets now.   *)
(***************************************************************************)
EXTENDS PullRequests, TLAPS

-----------------------------------------------------------------------------
(* Lemmas about the helpers *)

\* What an evaluation leaves alone: everything but the state and mergeability.
SameSubject(a, b) ==
    /\ a.author = b.author /\ a.draft = b.draft /\ a.fork = b.fork
    /\ a.headRef = b.headRef /\ a.head = b.head
    /\ a.baseRef = b.baseRef /\ a.base = b.base /\ a.ids = b.ids
    /\ a.commits = b.commits /\ a.paths = b.paths
    /\ a.merged = b.merged /\ a.mergeSha = b.mergeSha

\* apply_evaluation returns a record of the right type about the same subject.
LEMMA ApplyKeepsSubject ==
    ASSUME NEW pr \in PullRecords, NEW m \in BOOLEAN
    PROVE  /\ ApplyEvaluation(pr, m) \in PullRecords
           /\ SameSubject(ApplyEvaluation(pr, m), pr)
BY DEF ApplyEvaluation, PullRecords, PullStates, SameSubject

\* The evaluation every writing call ends with touches only the state and the
\* mergeability, whatever the gate answers.
LEMMA EvaluatedKeepsSubject ==
    ASSUME NEW pr \in PullRecords, NEW R, NEW S, NEW C
    PROVE  /\ Evaluated(pr, R, S, C) \in PullRecords
           /\ SameSubject(Evaluated(pr, R, S, C), pr)
BY ApplyKeepsSubject DEF Evaluated

\* The identity git computes is one a record may hold.
LEMMA DiffIdentityType ==
    ASSUME NEW b \in Bases, NEW h \in Heads
    PROVE  DiffIdentity(b, h) \in Identities
BY PullAssumptions DEF DiffIdentity, Identities

\* A refresh moves the head and what depends on it, nothing else.
LEMMA RefreshedKeeps ==
    ASSUME NEW pr \in PullRecords, NEW h \in Heads, NEW b \in Bases \cup {NoSha}
    PROVE  LET q == Refreshed(pr, h, b)
           IN  /\ q \in PullRecords
               /\ q.merged = pr.merged /\ q.mergeSha = pr.mergeSha
               /\ q.baseRef = pr.baseRef /\ q.base = pr.base
               /\ q.author = pr.author
<1>1. NoIds \in Identities
  BY DEF Identities
<1>2. RangeOf[h] \in [merge : BOOLEAN, unsigned : BOOLEAN]
  BY PullAssumptions
<1>3. b # NoSha => DiffIdentity(b, h) \in Identities
  BY DiffIdentityType
<1> QED
  BY <1>1, <1>2, <1>3 DEF Refreshed, PullRecords

\* An edit keeps the type and the identity of the pull request.
LEMMA EditedFlagsKeeps ==
    ASSUME NEW pr \in PullRecords, NEW d \in DraftEdits \cup {Keep},
           NEW s \in UpdateStates \cup {Keep}
    PROVE  LET q == EditedFlags(pr, d, s)
           IN  /\ q \in PullRecords
               /\ q.merged = pr.merged /\ q.mergeSha = pr.mergeSha
               /\ q.baseRef = pr.baseRef /\ q.base = pr.base
               /\ q.author = pr.author /\ q.head = pr.head
<1> DEFINE e == IF d = Keep THEN pr
                ELSE [pr EXCEPT !.draft = d, !.state = IF d THEN "Draft" ELSE "Open"]
           Kept(q) == /\ q \in PullRecords
                      /\ q.merged = pr.merged /\ q.mergeSha = pr.mergeSha
                      /\ q.baseRef = pr.baseRef /\ q.base = pr.base
                      /\ q.author = pr.author /\ q.head = pr.head
<1>1. d = Keep \/ d = TRUE \/ d = FALSE
  BY SentinelAssumptions
<1>2. Kept(e)
  <2>1. CASE d = Keep
    BY <2>1
  <2>2. CASE d # Keep /\ d = TRUE
    BY <2>2 DEF PullRecords, PullStates
  <2>3. CASE d # Keep /\ d = FALSE
    BY <2>3 DEF PullRecords, PullStates
  <2> QED
    BY <1>1, <2>1, <2>2, <2>3
<1>3. CASE s = Keep
  BY <1>2, <1>3 DEF EditedFlags
<1>4. CASE s # Keep
  <2>1. s \in PullStates
    BY <1>4, SentinelAssumptions
  <2>2. EditedFlags(pr, d, s) = [e EXCEPT !.state = s, !.draft = (s = "Draft")]
    BY <1>4 DEF EditedFlags
  <2>3. CASE s = "Draft"
    <3>1. EditedFlags(pr, d, s) = [e EXCEPT !.state = s, !.draft = TRUE]
      BY <2>2, <2>3
    <3> QED
      BY <1>2, <2>1, <3>1 DEF PullRecords
  <2>4. CASE s # "Draft"
    <3>1. EditedFlags(pr, d, s) = [e EXCEPT !.state = s, !.draft = FALSE]
      BY <2>2, <2>4
    <3> QED
      BY <1>2, <2>1, <3>1 DEF PullRecords
  <2> QED
    BY <2>3, <2>4
<1> QED
  BY <1>3, <1>4

\* Every blocker is one of the gate's kinds, about a context the rule requires.
LEMMA BlockersType ==
    ASSUME NEW pr, NEW rule \in RuleChoices \cup {NoRule}, NEW R, NEW S, NEW C,
           NEW owners, NEW requested
    PROVE  Blockers(pr, rule, R, S, C, owners, requested)
             \subseteq [kind : BlockerKinds, context : Contexts \cup {NoContext}]
<1> DEFINE T == [kind : BlockerKinds, context : Contexts \cup {NoContext}]
           eff == EffectiveFor(pr, R, ReachFor(rule))
<1>1. ASSUME NEW c, NEW k \in BlockerKinds PROVE If(c, k) \subseteq T
  BY DEF If, Blocker
<1>2. IntrinsicBlockers(pr, R, eff, S, C, requested) \subseteq T
  BY <1>1 DEF IntrinsicBlockers, BlockerKinds
<1>3. rule # NoRule => ContextBlockers(pr, rule, S, C) \subseteq T
  BY SentinelAssumptions DEF ContextBlockers, BlockerKinds
<1>4. rule # NoRule => RuleBlockers(pr, rule, R, eff, S, C, owners) \subseteq T
  BY <1>1, <1>3 DEF RuleBlockers, BlockerKinds
<1> QED
  BY <1>2, <1>4 DEF Blockers

-----------------------------------------------------------------------------
(* Type correctness, and what each call does to a pull request *)

\* The pull request keeps its merge record, its target and its author; a
\* merged one keeps its head too.
Unmoved(q) ==
    /\ q \in DOMAIN pulls'
    /\ pulls'[q].merged = pulls[q].merged
    /\ pulls'[q].mergeSha = pulls[q].mergeSha
    /\ pulls'[q].baseRef = pulls[q].baseRef
    /\ pulls'[q].base = pulls[q].base
    /\ pulls'[q].author = pulls[q].author
    /\ pulls[q].merged => pulls'[q].head = pulls[q].head

\* A pull table whose every record has the right type has the right type.
LEMMA PullTableType ==
    ASSUME NEW f, NEW D, D \subseteq Pulls, f = [q \in D |-> f[q]],
           \A q \in D : f[q] \in PullRecords
    PROVE  DOMAIN f \subseteq Pulls /\ f \in [DOMAIN f -> PullRecords]
OBVIOUS

\* An empty repository is well typed.
LEMMA TypeInit == Init => TypeOK
BY PullAssumptions, SentinelAssumptions DEF Init, TypeOK

\* create_pull_request adds a typed, unmerged record and moves no other.
LEMMA CreateType ==
    ASSUME TypeOK, NEW p \in Pulls, NEW open \in OpenChoices, NEW h \in Heads,
           NEW b \in Bases, NEW r \in Ranges, NEW f \in PathSets,
           CreatePullRequest(p, open, h, b, r, f)
    PROVE  /\ TypeOK'
           /\ \A q \in DOMAIN pulls : Unmoved(q)
           /\ DOMAIN pulls' = DOMAIN pulls \cup {p}
           /\ p \notin DOMAIN pulls
           /\ ~pulls'[p].merged /\ pulls'[p].mergeSha = NoMerge
<1> DEFINE pr == [author |-> open.author, draft |-> open.draft, fork |-> open.fork,
                  state |-> IF open.draft THEN "Draft" ELSE "Open",
                  headRef |-> open.headRef, head |-> h,
                  baseRef |-> open.baseRef, base |-> b,
                  ids |-> NoIds, commits |-> r, paths |-> f,
                  mergeable |-> FALSE, merged |-> FALSE, mergeSha |-> NoMerge,
                  issue |-> "Open"]
<1>1. pr \in PullRecords
  <2>1. open \in [author : Users, headRef : Branches, baseRef : Branches,
                  fork : BOOLEAN, draft : BOOLEAN]
    BY SentinelAssumptions
  <2>2. r \in [merge : BOOLEAN, unsigned : BOOLEAN] /\ f \in SUBSET Paths
    BY PullAssumptions
  <2>3. (IF open.draft THEN "Draft" ELSE "Open") \in PullStates
    BY DEF PullStates
  <2> QED
    BY <2>1, <2>2, <2>3 DEF PullRecords, Identities, IssueStates
<1>2. /\ Evaluated(pr, reviews[p], statuses, runs) \in PullRecords
      /\ ~Evaluated(pr, reviews[p], statuses, runs).merged
      /\ Evaluated(pr, reviews[p], statuses, runs).mergeSha = NoMerge
  BY <1>1, EvaluatedKeepsSubject DEF SameSubject
<1>3. pulls' = Put(pulls, p, Evaluated(pr, reviews[p], statuses, runs))
  BY DEF CreatePullRequest
<1>4. DOMAIN pulls' \subseteq Pulls /\ pulls' \in [DOMAIN pulls' -> PullRecords]
  BY <1>2, <1>3 DEF TypeOK, Put
<1>5. TypeOK'
  BY <1>4 DEF TypeOK, CreatePullRequest
<1>6. \A q \in DOMAIN pulls : Unmoved(q)
  BY <1>3 DEF Unmoved, Put, CreatePullRequest
<1> QED
  BY <1>2, <1>3, <1>5, <1>6 DEF CreatePullRequest, Put

\* update_pull_request keeps types and moves no merge record, head or base.
LEMMA UpdateType ==
    ASSUME TypeOK, NEW p \in Pulls, NEW d \in DraftEdits \cup {Keep},
           NEW s \in UpdateStates \cup {Keep}, NEW r \in Ranges \cup {Keep},
           NEW f \in PathSets \cup {Keep}, UpdatePullRequest(p, d, s, r, f)
    PROVE  TypeOK' /\ \A q \in DOMAIN pulls : Unmoved(q)
<1> DEFINE fl == EditedFlags(pulls[p], d, s)
           ed == [fl EXCEPT !.commits = IF r = Keep THEN @ ELSE r,
                            !.paths = IF f = Keep THEN @ ELSE f]
           ev == Evaluated(ed, reviews[p], statuses, runs)
<1>1. p \in DOMAIN pulls /\ pulls' = [pulls EXCEPT ![p] = ev]
  BY DEF UpdatePullRequest
<1>2. pulls[p] \in PullRecords
  BY <1>1 DEF TypeOK
<1>3. /\ fl \in PullRecords
      /\ fl.merged = pulls[p].merged /\ fl.mergeSha = pulls[p].mergeSha
      /\ fl.baseRef = pulls[p].baseRef /\ fl.base = pulls[p].base
      /\ fl.author = pulls[p].author /\ fl.head = pulls[p].head
  BY <1>2, EditedFlagsKeeps
<1> HIDE DEF fl
<1>4. /\ r # Keep => r \in [merge : BOOLEAN, unsigned : BOOLEAN]
      /\ f # Keep => f \in SUBSET Paths
  BY PullAssumptions
<1>5. /\ ed \in PullRecords
      /\ ed.merged = fl.merged /\ ed.mergeSha = fl.mergeSha
      /\ ed.baseRef = fl.baseRef /\ ed.base = fl.base
      /\ ed.author = fl.author /\ ed.head = fl.head
  BY <1>3, <1>4 DEF PullRecords
<1> HIDE DEF ed
<1>6. ev \in PullRecords /\ SameSubject(ev, ed)
  BY <1>5, EvaluatedKeepsSubject
<1> HIDE DEF ev
<1>7. DOMAIN pulls' \subseteq Pulls /\ pulls' \in [DOMAIN pulls' -> PullRecords]
  BY <1>1, <1>6 DEF TypeOK
<1>8. TypeOK'
  BY <1>7 DEF TypeOK, UpdatePullRequest
<1> QED
  BY <1>1, <1>3, <1>5, <1>6, <1>8 DEF TypeOK, SameSubject, Unmoved

\* A head refresh keeps types and leaves merged pull requests alone.
LEMMA RefreshType ==
    ASSUME TypeOK, NEW ref \in Branches, NEW h \in Heads, NEW b \in Bases \cup {NoSha},
           RefreshHeads(ref, h, b)
    PROVE  TypeOK' /\ \A q \in DOMAIN pulls : Unmoved(q)
<1> DEFINE Moved(q) == pulls[q].headRef = ref /\ IsOpen(pulls[q])
           ev(q) == Evaluated(Refreshed(pulls[q], h, b), reviews[q], statuses, runs)
<1>1. pulls' = [q \in DOMAIN pulls |-> IF Moved(q) THEN ev(q) ELSE pulls[q]]
  BY DEF RefreshHeads
<1>2. ASSUME NEW q \in DOMAIN pulls
      PROVE  /\ pulls'[q] \in PullRecords
             /\ Unmoved(q)
  <2>1. pulls[q] \in PullRecords
    BY DEF TypeOK
  <2>2. CASE ~Moved(q)
    BY <1>1, <2>1, <2>2 DEF Unmoved
  <2>3. CASE Moved(q)
    <3> DEFINE m == Refreshed(pulls[q], h, b)
    <3>1. /\ m \in PullRecords
          /\ m.merged = pulls[q].merged /\ m.mergeSha = pulls[q].mergeSha
          /\ m.baseRef = pulls[q].baseRef /\ m.base = pulls[q].base
          /\ m.author = pulls[q].author
      BY <2>1, RefreshedKeeps
    <3> HIDE DEF m
    <3>2. /\ Evaluated(m, reviews[q], statuses, runs) \in PullRecords
          /\ SameSubject(Evaluated(m, reviews[q], statuses, runs), m)
      BY <3>1, EvaluatedKeepsSubject
    <3>3. pulls'[q] = Evaluated(m, reviews[q], statuses, runs)
      BY <1>1, <2>3 DEF m
    <3>4. ~pulls[q].merged
      BY <2>3 DEF IsOpen
    <3> QED
      BY <1>1, <3>1, <3>2, <3>3, <3>4 DEF SameSubject, Unmoved
  <2> QED
    BY <2>2, <2>3
<1>3. DOMAIN pulls' \subseteq Pulls /\ pulls' \in [DOMAIN pulls' -> PullRecords]
  BY <1>1, <1>2 DEF TypeOK
<1>4. TypeOK'
  BY <1>3 DEF TypeOK, RefreshHeads
<1> QED
  BY <1>2, <1>4

\* The record of an open pull request whose target changes: retarget, which no
\* standing approval allows, and recorded base, which keeps the branch.
MovedBase(q) ==
    /\ q \in DOMAIN pulls'
    /\ ~pulls[q].merged /\ ~pulls'[q].merged
    /\ pulls'[q].mergeSha = pulls[q].mergeSha
    /\ pulls'[q].author = pulls[q].author
    /\ pulls'[q].baseRef = pulls[q].baseRef \/ ~StandingApproval(reviews[q])

\* retarget_pull_request moves the base of an unmerged pull request only.
LEMMA RetargetType ==
    ASSUME TypeOK, NEW p \in Pulls, NEW ref \in Branches, NEW b \in Bases,
           NEW r \in Ranges, NEW f \in PathSets, RetargetPullRequest(p, ref, b, r, f)
    PROVE  /\ TypeOK' /\ p \in DOMAIN pulls /\ MovedBase(p)
           /\ \A q \in DOMAIN pulls : q # p => Unmoved(q)
<1> DEFINE m == [pulls[p] EXCEPT !.baseRef = ref, !.base = b, !.commits = r,
                                 !.paths = f, !.ids = NoIds]
           ev == Evaluated(m, reviews[p], statuses, runs)
<1>1. /\ p \in DOMAIN pulls /\ IsOpen(pulls[p]) /\ ~StandingApproval(reviews[p])
      /\ pulls' = [pulls EXCEPT ![p] = ev]
  BY DEF RetargetPullRequest
<1>2. r \in [merge : BOOLEAN, unsigned : BOOLEAN] /\ f \in SUBSET Paths
  BY PullAssumptions
<1>3. /\ m \in PullRecords /\ m.merged = pulls[p].merged
      /\ m.mergeSha = pulls[p].mergeSha /\ m.author = pulls[p].author
  <2>1. pulls[p] \in PullRecords /\ NoIds \in Identities
    BY <1>1 DEF TypeOK, Identities
  <2> QED
    BY <1>2, <2>1 DEF PullRecords
<1> HIDE DEF m
<1>4. ev \in PullRecords /\ SameSubject(ev, m)
  BY <1>3, EvaluatedKeepsSubject
<1> HIDE DEF ev
<1>5. DOMAIN pulls' \subseteq Pulls /\ pulls' \in [DOMAIN pulls' -> PullRecords]
  BY <1>1, <1>4 DEF TypeOK
<1>6. TypeOK'
  BY <1>5 DEF TypeOK, RetargetPullRequest
<1>7. /\ DOMAIN pulls' = DOMAIN pulls /\ pulls'[p] = ev
      /\ \A q \in DOMAIN pulls : q # p => pulls'[q] = pulls[q]
  BY <1>1
<1>8. MovedBase(p)
  BY <1>1, <1>3, <1>4, <1>7 DEF SameSubject, MovedBase, IsOpen
<1> QED
  BY <1>1, <1>6, <1>7, <1>8 DEF Unmoved

\* record_pull_request_base moves the base of an unmerged pull request only.
LEMMA RecordBaseType ==
    ASSUME TypeOK, NEW p \in Pulls, NEW b \in Bases, RecordPullRequestBase(p, b)
    PROVE  /\ TypeOK' /\ p \in DOMAIN pulls /\ MovedBase(p)
           /\ \A q \in DOMAIN pulls : q # p => Unmoved(q)
<1> DEFINE m == [pulls[p] EXCEPT !.base = b, !.ids = NoIds]
           ev == Evaluated(m, reviews[p], statuses, runs)
<1>1. /\ p \in DOMAIN pulls /\ IsOpen(pulls[p])
      /\ pulls' = [pulls EXCEPT ![p] = ev]
  BY DEF RecordPullRequestBase
<1>2. /\ m \in PullRecords /\ m.merged = pulls[p].merged
      /\ m.mergeSha = pulls[p].mergeSha /\ m.author = pulls[p].author
      /\ m.baseRef = pulls[p].baseRef
  <2>1. pulls[p] \in PullRecords /\ NoIds \in Identities
    BY <1>1 DEF TypeOK, Identities
  <2> QED
    BY <2>1 DEF PullRecords
<1> HIDE DEF m
<1>3. ev \in PullRecords /\ SameSubject(ev, m)
  BY <1>2, EvaluatedKeepsSubject
<1> HIDE DEF ev
<1>4. DOMAIN pulls' \subseteq Pulls /\ pulls' \in [DOMAIN pulls' -> PullRecords]
  BY <1>1, <1>3 DEF TypeOK
<1>5. TypeOK'
  BY <1>4 DEF TypeOK, RecordPullRequestBase
<1>6. /\ DOMAIN pulls' = DOMAIN pulls /\ pulls'[p] = ev
      /\ \A q \in DOMAIN pulls : q # p => pulls'[q] = pulls[q]
  BY <1>1
<1>7. MovedBase(p)
  BY <1>1, <1>2, <1>3, <1>6 DEF SameSubject, MovedBase, IsOpen
<1> QED
  BY <1>1, <1>5, <1>6, <1>7 DEF Unmoved

\* update_issue touches the issue behind a pull request and nothing that is merged.
LEMMA IssueType ==
    ASSUME TypeOK, NEW p \in Pulls, NEW s \in IssueEdits, UpdateIssue(p, s)
    PROVE  /\ TypeOK'
           /\ \A q \in DOMAIN pulls : Unmoved(q)
           /\ DOMAIN pulls' = DOMAIN pulls
<1> DEFINE m == [pulls[p] EXCEPT !.issue = s]
<1>1. p \in DOMAIN pulls /\ pulls' = [pulls EXCEPT ![p] = m]
  BY DEF UpdateIssue
<1>2. pulls[p] \in PullRecords /\ s \in IssueStates
  BY <1>1, SentinelAssumptions DEF TypeOK
<1>3. m \in PullRecords /\ SameSubject(m, pulls[p])
  BY <1>2 DEF PullRecords, SameSubject
<1> HIDE DEF m
<1>4. DOMAIN pulls' \subseteq Pulls /\ pulls' \in [DOMAIN pulls' -> PullRecords]
  BY <1>1, <1>3 DEF TypeOK
<1>5. TypeOK'
  BY <1>4 DEF TypeOK, UpdateIssue
<1>6. /\ DOMAIN pulls' = DOMAIN pulls /\ pulls'[p] = m
      /\ \A q \in DOMAIN pulls : q # p => pulls'[q] = pulls[q]
  BY <1>1
<1> QED
  BY <1>3, <1>5, <1>6 DEF SameSubject, Unmoved

\* The end of every review call: the ledger grows by one row about this pull.
LEMMA AppendReviewType ==
    ASSUME TypeOK, NEW p \in DOMAIN pulls, NEW row \in ReviewRows, AppendReview(p, row)
    PROVE  /\ DOMAIN pulls' \subseteq Pulls /\ pulls' \in [DOMAIN pulls' -> PullRecords]
           /\ reviews' \in [Pulls -> Seq(ReviewRows)]
           /\ given' \in [Pulls -> Seq(Branches)]
           /\ \A q \in DOMAIN pulls : Unmoved(q)
           /\ DOMAIN pulls' = DOMAIN pulls
<1> DEFINE ev == Evaluated(pulls[p], Append(reviews[p], row), statuses, runs)
<1>1. /\ reviews' = [reviews EXCEPT ![p] = Append(reviews[p], row)]
      /\ given' = [given EXCEPT ![p] = Append(given[p], pulls[p].baseRef)]
      /\ pulls' = [pulls EXCEPT ![p] = ev]
  BY DEF AppendReview, TypeOK
<1>2. p \in Pulls /\ pulls[p] \in PullRecords /\ pulls[p].baseRef \in Branches
  BY DEF TypeOK, PullRecords
<1>3. ev \in PullRecords /\ SameSubject(ev, pulls[p])
  BY <1>2, EvaluatedKeepsSubject
<1> HIDE DEF ev
<1>4. DOMAIN pulls' \subseteq Pulls /\ pulls' \in [DOMAIN pulls' -> PullRecords]
  BY <1>1, <1>3 DEF TypeOK
<1>5. reviews' \in [Pulls -> Seq(ReviewRows)]
  BY <1>1, <1>2 DEF TypeOK
<1>6. given' \in [Pulls -> Seq(Branches)]
  BY <1>1, <1>2 DEF TypeOK
<1>7. /\ DOMAIN pulls' = DOMAIN pulls /\ pulls'[p] = ev
      /\ \A q \in DOMAIN pulls : q # p => pulls'[q] = pulls[q]
  BY <1>1
<1>8. Unmoved(p)
  BY <1>3, <1>7 DEF SameSubject, Unmoved
<1> QED
  BY <1>4, <1>5, <1>6, <1>7, <1>8 DEF Unmoved

\* create_review appends a typed row.
LEMMA ReviewType ==
    ASSUME TypeOK, NEW p \in Pulls, NEW u \in Reviewers, NEW s \in ReviewEvents,
           CreateReview(p, u, s)
    PROVE  /\ TypeOK'
           /\ \A q \in DOMAIN pulls : Unmoved(q)
           /\ DOMAIN pulls' = DOMAIN pulls
<1>1. p \in DOMAIN pulls /\ AppendReview(p, Row(p, u, s, 0, FALSE))
  BY DEF CreateReview
<1>2. Row(p, u, s, 0, FALSE) \in ReviewRows
  BY <1>1, SentinelAssumptions DEF TypeOK, Row, ReviewRows, PullRecords
<1> QED
  BY <1>1, <1>2, AppendReviewType DEF TypeOK, CreateReview

\* A reviewer's own dismissal appends a typed row.
LEMMA DismissOwnType ==
    ASSUME TypeOK, NEW p \in Pulls, NEW u \in Reviewers, NEW t \in 1..MaxReviews,
           DismissOwnReview(p, u, t)
    PROVE  /\ TypeOK'
           /\ \A q \in DOMAIN pulls : Unmoved(q)
           /\ DOMAIN pulls' = DOMAIN pulls
<1>1. /\ p \in DOMAIN pulls /\ AppendReview(p, Row(p, u, "Dismissed", t, FALSE))
      /\ t \in DOMAIN reviews[p]
  BY DEF DismissOwnReview
<1>2. Row(p, u, "Dismissed", t, FALSE) \in ReviewRows
  BY <1>1, SentinelAssumptions DEF TypeOK, Row, ReviewRows, PullRecords, ReviewStates
<1> QED
  BY <1>1, <1>2, AppendReviewType DEF TypeOK, DismissOwnReview

\* An administrator's dismissal appends a typed row and its receipt.
LEMMA DismissOtherType ==
    ASSUME TypeOK, NEW p \in Pulls, NEW u \in Reviewers, NEW t \in 1..MaxReviews,
           DismissOtherReview(p, u, t)
    PROVE  /\ TypeOK'
           /\ \A q \in DOMAIN pulls : Unmoved(q)
           /\ DOMAIN pulls' = DOMAIN pulls
<1>1. /\ p \in DOMAIN pulls /\ AppendReview(p, Row(p, u, "Dismissed", t, TRUE))
      /\ t \in DOMAIN reviews[p]
  BY DEF DismissOtherReview
<1>2. Row(p, u, "Dismissed", t, TRUE) \in ReviewRows
  BY <1>1, SentinelAssumptions DEF TypeOK, Row, ReviewRows, PullRecords, ReviewStates
<1>3. audit' \subseteq Receipts
  BY SentinelAssumptions DEF TypeOK, DismissOtherReview, BestEffort, Receipt, Receipts
<1> QED
  BY <1>1, <1>2, <1>3, AppendReviewType DEF TypeOK, DismissOtherReview

\* A dismissal whose row is not written leaves its receipt only.
LEMMA DismissFailsType ==
    ASSUME TypeOK, NEW p \in Pulls, NEW u \in Reviewers, NEW t \in 1..MaxReviews,
           DismissOtherReviewFails(p, u, t)
    PROVE  TypeOK'
<1>1. audit' \subseteq Receipts
  BY SentinelAssumptions DEF TypeOK, DismissOtherReviewFails, Receipt, Receipts
<1> QED
  BY <1>1 DEF TypeOK, DismissOtherReviewFails

\* refresh_pull_mergeability_for_sha keeps every pull request's subject.
LEMMA RefreshForShaType ==
    ASSUME TypeOK, NEW sha, NEW S, NEW C, pulls' = RefreshForSha(sha, S, C)
    PROVE  /\ DOMAIN pulls' \subseteq Pulls /\ pulls' \in [DOMAIN pulls' -> PullRecords]
           /\ \A q \in DOMAIN pulls : Unmoved(q)
           /\ DOMAIN pulls' = DOMAIN pulls
<1>1. ASSUME NEW q \in DOMAIN pulls
      PROVE  pulls'[q] \in PullRecords /\ Unmoved(q)
  <2>1. pulls[q] \in PullRecords
    BY DEF TypeOK
  <2>2. /\ Evaluated(pulls[q], reviews[q], S, C) \in PullRecords
        /\ SameSubject(Evaluated(pulls[q], reviews[q], S, C), pulls[q])
    BY <2>1, EvaluatedKeepsSubject
  <2> QED
    BY <2>1, <2>2 DEF RefreshForSha, SameSubject, Unmoved
<1> QED
  BY <1>1 DEF RefreshForSha, TypeOK

\* create_commit_status appends a typed row and re-evaluates its head.
LEMMA StatusType ==
    ASSUME TypeOK, NEW h \in Heads, NEW row \in StatusRows, CreateCommitStatus(h, row)
    PROVE  /\ TypeOK'
           /\ \A q \in DOMAIN pulls : Unmoved(q)
           /\ DOMAIN pulls' = DOMAIN pulls
<1>1. statuses' \in [Heads -> Seq(StatusRows)]
  BY DEF TypeOK, CreateCommitStatus
<1>2. pulls' = RefreshForSha(h, [statuses EXCEPT ![h] = Append(@, row)], runs)
  BY DEF CreateCommitStatus
<1> QED
  BY <1>1, <1>2, RefreshForShaType DEF TypeOK, CreateCommitStatus

\* create_check_run appends a typed row and re-evaluates its head.
LEMMA RunType ==
    ASSUME TypeOK, NEW row \in RunRows, CreateCheckRun(row)
    PROVE  /\ TypeOK'
           /\ \A q \in DOMAIN pulls : Unmoved(q)
           /\ DOMAIN pulls' = DOMAIN pulls
<1>1. runs' \in Seq(RunRows)
  BY DEF TypeOK, CreateCheckRun
<1>2. pulls' = RefreshForSha(row.head, statuses, Append(runs, row))
  BY DEF CreateCheckRun
<1> QED
  BY <1>1, <1>2, RefreshForShaType DEF TypeOK, CreateCheckRun

\* Rule, CODEOWNERS and grant changes touch no pull request.
LEMMA PolicyType ==
    ASSUME TypeOK, PolicySteps
    PROVE  TypeOK' /\ UNCHANGED <<pulls, reviews, given, audit, edge>>
<1>1. ASSUME NEW b \in Branches, NEW rule \in RuleChoices, SetBranchProtection(b, rule)
      PROVE  TypeOK' /\ UNCHANGED <<pulls, reviews, given, audit, edge>>
  BY <1>1 DEF TypeOK, SetBranchProtection
<1>2. ASSUME NEW b \in Branches, DeleteBranchProtection(b)
      PROVE  TypeOK' /\ UNCHANGED <<pulls, reviews, given, audit, edge>>
  BY <1>2 DEF TypeOK, DeleteBranchProtection
<1>3. ASSUME NEW o \in OwnerMaps, SetCodeowners(o)
      PROVE  TypeOK' /\ UNCHANGED <<pulls, reviews, given, audit, edge>>
  BY <1>3, SentinelAssumptions DEF TypeOK, SetCodeowners
<1>4. ASSUME NEW u \in Grantable, ChangeAdministrator(u)
      PROVE  TypeOK' /\ UNCHANGED <<pulls, reviews, given, audit, edge>>
  BY <1>4, SentinelAssumptions DEF TypeOK, ChangeAdministrator
<1> QED
  BY <1>1, <1>2, <1>3, <1>4 DEF PolicySteps

-----------------------------------------------------------------------------
(* The two-phase merge *)

\* What a caller in flight holds: the head it disclosed is the one it asked
\* for, if it asked for one, and the one its permit is about.
FlightsBound ==
    \A e \in Edges : edge[e] # Idle =>
        /\ edge[e].requested # NoSha => edge[e].requested = edge[e].head
        /\ edge[e].permit # NoPermit => /\ edge[e].permit.head = edge[e].head
                                        /\ edge[e].requested = edge[e].head

\* No rejection counts for the head of p.
NoRejection(p) ==
    Rejections(reviews[p], EffectiveFor(pulls[p], reviews[p],
                                        ReachFor(rules[pulls[p].baseRef]))) = {}

\* What a finalize makes of the pull request its flight f is about.
MergedBy(f) ==
    /\ f \in Flights
    /\ f.pull \in DOMAIN pulls
    /\ ~pulls[f.pull].merged
    /\ pulls[f.pull].baseRef = f.baseRef /\ pulls[f.pull].base = f.base
    /\ f.requested # NoSha => f.requested = f.head /\ f.head = pulls[f.pull].head
    /\ NoRejection(f.pull)
    /\ pulls' = [pulls EXCEPT ![f.pull] = MergedRecord(pulls[f.pull], f)]

\* A disclosed flight always names a pull request of the table.
FlightsOnPulls == \A e \in Edges : edge[e] # Idle => edge[e].pull \in DOMAIN pulls

\* A gate that passes was asked for the current head, or for none.
LEMMA PassingGateIsForHead ==
    ASSUME NEW p, NEW requested, GateNow(p, requested) = {}, requested # NoSha
    PROVE  requested = pulls[p].head
BY DEF GateNow, Gate, Blockers, IntrinsicBlockers, If

\* A counting rejection is a blocker, whoever asks and for whatever head.
LEMMA RejectionBlocks ==
    ASSUME NEW p, NEW requested, ~NoRejection(p)
    PROVE  Blocker("ChangesRequested") \in GateNow(p, requested)
BY DEF NoRejection, GateNow, Gate, Blockers, IntrinsicBlockers, If

\* evaluate_merge_readiness binds a flight to the record it saw.
LEMMA ReadinessType ==
    ASSUME TypeOK, FlightsBound, FlightsOnPulls, NEW e \in Edges, NEW p \in Pulls,
           NEW r \in Heads \cup {NoSha}, EvaluateMergeReadiness(e, p, r)
    PROVE  TypeOK' /\ FlightsBound' /\ FlightsOnPulls'
<1> DEFINE f == Flight(p, r, NoPermit)
<1>1. p \in DOMAIN pulls /\ edge' = [edge EXCEPT ![e] = f] /\ GateNow(p, r) = {}
  BY DEF EvaluateMergeReadiness
<1>2. pulls[p] \in PullRecords
  BY <1>1 DEF TypeOK
<1>3. /\ f \in Flights /\ f.pull = p /\ f.permit = NoPermit
      /\ f.requested = r /\ f.head = pulls[p].head
  BY <1>2 DEF Flight, Flights, PullRecords
<1>4. r # NoSha => r = pulls[p].head
  BY <1>1, PassingGateIsForHead
<1> HIDE DEF f
<1>5. edge' \in [Edges -> Flights \cup {Idle}]
  BY <1>1, <1>3 DEF TypeOK
<1>6. TypeOK'
  BY <1>5 DEF TypeOK, EvaluateMergeReadiness
<1>7. edge'[e] = f /\ \A x \in Edges : x # e => edge'[x] = edge[x]
  BY <1>1 DEF TypeOK
<1>8. FlightsBound'
  BY <1>3, <1>4, <1>7 DEF FlightsBound
<1>9. FlightsOnPulls'
  BY <1>1, <1>3, <1>7 DEF FlightsOnPulls, EvaluateMergeReadiness
<1> QED
  BY <1>6, <1>8, <1>9

\* The evidence of a permit is a set of row positions.
LEMMA EvidenceType ==
    ASSUME NEW pr, NEW S \in Seq(StatusRows), NEW B
    PROVE  Evidence(pr, S, B) \subseteq Nat
BY DEF Evidence, CurrentStatus, Answering

\* prepare_merge_override issues a typed permit bound to the record it saw.
LEMMA PrepareType ==
    ASSUME TypeOK, FlightsBound, FlightsOnPulls, NEW e \in Edges, NEW p \in Pulls,
           NEW u \in Users, PrepareMergeOverride(e, p, u)
    PROVE  TypeOK' /\ FlightsBound' /\ FlightsOnPulls'
<1> DEFINE pr == pulls[p]
           B == GateNow(p, pr.head)
           t == [actor |-> u, rule |-> rules[pr.baseRef], rev |-> ruleRev[pr.baseRef],
                 base |-> pr.base, head |-> pr.head, blockers |-> B,
                 evidence |-> Evidence(pr, statuses[pr.head], B), expired |-> FALSE]
           f == Flight(p, pr.head, t)
<1>1. /\ p \in DOMAIN pulls
      /\ OverrideAllowed(pr, rules[pr.baseRef], reviews[p], admins, u)
      /\ edge' = [edge EXCEPT ![e] = f]
      /\ audit' = audit \cup {Receipt("merge_override", "requested", p, u)}
  BY DEF PrepareMergeOverride
<1>2. pr \in PullRecords
  BY <1>1 DEF TypeOK
<1>3. pr.baseRef \in Branches /\ pr.head \in Heads /\ pr.base \in Bases
  BY <1>2 DEF PullRecords
<1>4. rules[pr.baseRef] \in RuleChoices /\ ruleRev[pr.baseRef] \in Nat
  BY <1>1, <1>3 DEF TypeOK, OverrideAllowed
<1>5. B \subseteq [kind : BlockerKinds, context : Contexts \cup {NoContext}]
  BY <1>4, BlockersType DEF GateNow, Gate
<1>6. Evidence(pr, statuses[pr.head], B) \subseteq Nat
  BY <1>3, EvidenceType DEF TypeOK
<1>7. t \in Permits /\ t.head = pr.head
  BY <1>3, <1>4, <1>5, <1>6 DEF Permits
<1> HIDE DEF t
<1>8. /\ f \in Flights /\ f.pull = p /\ f.permit = t
      /\ f.requested = pr.head /\ f.head = pr.head
  BY <1>3, <1>7 DEF Flight, Flights
<1> HIDE DEF f
<1>9. edge' \in [Edges -> Flights \cup {Idle}]
  BY <1>1, <1>8 DEF TypeOK
<1>10. audit' \subseteq Receipts
  BY <1>1 DEF TypeOK, Receipt, Receipts
<1>11. TypeOK'
  BY <1>9, <1>10 DEF TypeOK, PrepareMergeOverride
<1>12. edge'[e] = f /\ \A x \in Edges : x # e => edge'[x] = edge[x]
  BY <1>1 DEF TypeOK
<1>13. FlightsBound'
  BY <1>7, <1>8, <1>12 DEF FlightsBound
<1>14. FlightsOnPulls'
  BY <1>1, <1>8, <1>12 DEF FlightsOnPulls, PrepareMergeOverride
<1> QED
  BY <1>11, <1>13, <1>14

\* git merges what the flight is bound to.
LEMMA GitMergeType ==
    ASSUME TypeOK, FlightsBound, FlightsOnPulls, NEW e \in Edges, GitMerge(e)
    PROVE  TypeOK' /\ FlightsBound' /\ FlightsOnPulls'
<1> DEFINE f == [edge[e] EXCEPT !.git = TRUE]
<1>1. edge[e] # Idle /\ edge' = [edge EXCEPT ![e] = f]
  BY DEF GitMerge
<1>2. edge[e] \in Flights
  BY <1>1 DEF TypeOK
<1>3. /\ f \in Flights /\ f.pull = edge[e].pull /\ f.permit = edge[e].permit
      /\ f.requested = edge[e].requested /\ f.head = edge[e].head
  BY <1>2 DEF Flights
<1> HIDE DEF f
<1>4. edge' \in [Edges -> Flights \cup {Idle}]
  BY <1>1, <1>3 DEF TypeOK
<1>5. TypeOK'
  BY <1>4 DEF TypeOK, GitMerge
<1>6. edge'[e] = f /\ \A x \in Edges : x # e => edge'[x] = edge[x]
  BY <1>1 DEF TypeOK
<1>7. FlightsBound'
  BY <1>1, <1>3, <1>6 DEF FlightsBound
<1>8. FlightsOnPulls'
  BY <1>1, <1>3, <1>6 DEF FlightsOnPulls, GitMerge
<1> QED
  BY <1>5, <1>7, <1>8

\* A permit that expires changes nothing else.
LEMMA ExpireType ==
    ASSUME TypeOK, FlightsBound, FlightsOnPulls, NEW e \in Edges, ExpirePermit(e)
    PROVE  TypeOK' /\ FlightsBound' /\ FlightsOnPulls'
<1> DEFINE t == [edge[e].permit EXCEPT !.expired = TRUE]
           f == [edge[e] EXCEPT !.permit = t]
<1>1. /\ edge[e] # Idle /\ edge[e].permit # NoPermit
      /\ edge' = [edge EXCEPT ![e] = f]
  BY DEF ExpirePermit
<1>2. edge[e] \in Flights /\ edge[e].permit \in Permits
  BY <1>1 DEF TypeOK, Flights
<1>3. t \in Permits /\ t.head = edge[e].permit.head
  BY <1>2 DEF Permits
<1> HIDE DEF t
<1>4. /\ f \in Flights /\ f.pull = edge[e].pull /\ f.permit = t
      /\ f.requested = edge[e].requested /\ f.head = edge[e].head
  BY <1>2, <1>3 DEF Flights
<1> HIDE DEF f
<1>5. edge' \in [Edges -> Flights \cup {Idle}]
  BY <1>1, <1>4 DEF TypeOK
<1>6. TypeOK'
  BY <1>5 DEF TypeOK, ExpirePermit
<1>7. edge'[e] = f /\ \A x \in Edges : x # e => edge'[x] = edge[x]
  BY <1>1 DEF TypeOK
<1>8. FlightsBound'
  BY <1>1, <1>3, <1>4, <1>7 DEF FlightsBound
<1>9. FlightsOnPulls'
  BY <1>1, <1>4, <1>7 DEF FlightsOnPulls, ExpirePermit
<1> QED
  BY <1>6, <1>8, <1>9

\* The flight of one edge ends; the others are as they were.
LEMMA FlightEnds ==
    ASSUME TypeOK, FlightsBound, FlightsOnPulls, NEW e \in Edges,
           edge' = [edge EXCEPT ![e] = Idle], DOMAIN pulls \subseteq DOMAIN pulls'
    PROVE  edge' \in [Edges -> Flights \cup {Idle}] /\ FlightsBound' /\ FlightsOnPulls'
<1>1. edge'[e] = Idle /\ \A x \in Edges : x # e => edge'[x] = edge[x]
  BY DEF TypeOK
<1>2. edge' \in [Edges -> Flights \cup {Idle}]
  BY DEF TypeOK
<1>3. FlightsBound'
  BY <1>1 DEF FlightsBound
<1>4. FlightsOnPulls'
  BY <1>1 DEF FlightsOnPulls
<1> QED
  BY <1>2, <1>3, <1>4

\* A merged record has the right type and keeps the pull request's subject.
LEMMA MergedByType ==
    ASSUME TypeOK, NEW f, MergedBy(f)
    PROVE  /\ DOMAIN pulls' = DOMAIN pulls
           /\ pulls' \in [DOMAIN pulls -> PullRecords]
           /\ \A q \in DOMAIN pulls : q # f.pull => pulls'[q] = pulls[q]
           /\ pulls'[f.pull] = MergedRecord(pulls[f.pull], f)
           /\ pulls'[f.pull].merged
           /\ pulls'[f.pull].mergeSha = MergeCommit(f)
           /\ MergeCommit(f) \in MergeCommits
           /\ pulls'[f.pull].head = pulls[f.pull].head
           /\ pulls'[f.pull].baseRef = pulls[f.pull].baseRef
           /\ pulls'[f.pull].base = pulls[f.pull].base
           /\ pulls'[f.pull].author = pulls[f.pull].author
<1>1. MergeCommit(f) \in MergeCommits
  BY DEF MergedBy, Flights, MergeCommit, MergeCommits
<1>2. pulls[f.pull] \in PullRecords
  BY DEF MergedBy, TypeOK
<1> DEFINE m == MergedRecord(pulls[f.pull], f)
<1>3. /\ m \in PullRecords /\ m.merged /\ m.mergeSha = MergeCommit(f)
      /\ m.head = pulls[f.pull].head /\ m.baseRef = pulls[f.pull].baseRef
      /\ m.base = pulls[f.pull].base /\ m.author = pulls[f.pull].author
  BY <1>1, <1>2 DEF MergedRecord, PullRecords, PullStates, IssueStates
<1> HIDE DEF m
<1>4. /\ f.pull \in DOMAIN pulls
      /\ pulls' = [pulls EXCEPT ![f.pull] = m]
  BY DEF MergedBy, m
<1>5. /\ DOMAIN pulls' = DOMAIN pulls /\ pulls'[f.pull] = m
      /\ \A q \in DOMAIN pulls : q # f.pull => pulls'[q] = pulls[q]
  BY <1>4
<1>6. pulls' \in [DOMAIN pulls -> PullRecords]
  BY <1>3, <1>4 DEF TypeOK
<1> QED
  BY <1>1, <1>3, <1>5, <1>6 DEF m

\* finalize_merge records the merge of its own flight.
LEMMA FinalizeType ==
    ASSUME TypeOK, FlightsBound, FlightsOnPulls, NEW e \in Edges, FinalizeMerge(e)
    PROVE  TypeOK' /\ FlightsBound' /\ FlightsOnPulls' /\ MergedBy(edge[e])
<1>1. edge[e] \in Flights /\ edge[e].pull \in DOMAIN pulls
  BY DEF FinalizeMerge, TypeOK, FlightsOnPulls
<1>2. edge[e].requested # NoSha =>
        edge[e].requested = edge[e].head /\ edge[e].head = pulls[edge[e].pull].head
  BY PassingGateIsForHead DEF FinalizeMerge, FlightsBound
<1>3. NoRejection(edge[e].pull)
  BY RejectionBlocks DEF FinalizeMerge
<1>4. MergedBy(edge[e])
  BY <1>1, <1>2, <1>3 DEF MergedBy, FinalizeMerge, SameBase
<1>5. DOMAIN pulls' = DOMAIN pulls /\ pulls' \in [DOMAIN pulls -> PullRecords]
  BY <1>4, MergedByType
<1>6. edge' = [edge EXCEPT ![e] = Idle]
  BY DEF FinalizeMerge
<1>7. edge' \in [Edges -> Flights \cup {Idle}] /\ FlightsBound' /\ FlightsOnPulls'
  BY <1>5, <1>6, FlightEnds
<1> QED
  BY <1>5, <1>7, <1>4 DEF TypeOK, FinalizeMerge

\* finalize_merge_with_override records the merge of its own flight.
LEMMA FinalizeOverrideType ==
    ASSUME TypeOK, FlightsBound, FlightsOnPulls, NEW e \in Edges,
           FinalizeMergeWithOverride(e)
    PROVE  TypeOK' /\ FlightsBound' /\ FlightsOnPulls' /\ MergedBy(edge[e])
<1>1. edge[e] \in Flights /\ edge[e].pull \in DOMAIN pulls /\ edge[e].permit # NoPermit
  BY DEF FinalizeMergeWithOverride, TypeOK, FlightsOnPulls
<1>2. edge[e].requested = edge[e].head /\ edge[e].head = pulls[edge[e].pull].head
  BY <1>1 DEF FinalizeMergeWithOverride, FlightsBound, PermitHolds, TypeOK
<1>3. NoRejection(edge[e].pull)
  <2>1. \A b \in GateNow(edge[e].pull, edge[e].permit.head) : b.kind = "FailedStatusCheck"
    BY DEF FinalizeMergeWithOverride, PermitHolds, OverridableOnly, OverridableRow
  <2>2. Blocker("ChangesRequested").kind # "FailedStatusCheck"
    BY DEF Blocker
  <2> QED
    BY <2>1, <2>2, RejectionBlocks
<1>4. MergedBy(edge[e])
  BY <1>1, <1>2, <1>3 DEF MergedBy, FinalizeMergeWithOverride, SameBase
<1>5. DOMAIN pulls' = DOMAIN pulls /\ pulls' \in [DOMAIN pulls -> PullRecords]
  BY <1>4, MergedByType
<1>6. edge' = [edge EXCEPT ![e] = Idle]
  BY DEF FinalizeMergeWithOverride
<1>7. edge' \in [Edges -> Flights \cup {Idle}] /\ FlightsBound' /\ FlightsOnPulls'
  BY <1>5, <1>6, FlightEnds
<1>8. edge[e].permit \in Permits /\ edge[e].pull \in Pulls
  BY <1>1 DEF Flights
<1>9. audit' \subseteq Receipts
  BY <1>8 DEF TypeOK, FinalizeMergeWithOverride, Receipt, Receipts, Permits
<1> QED
  BY <1>5, <1>7, <1>9, <1>4 DEF TypeOK, FinalizeMergeWithOverride

\* A refused finalize only ends its flight.
LEMMA EndsType ==
    ASSUME TypeOK, FlightsBound, FlightsOnPulls, NEW e \in Edges, FinalizeEnds(e)
    PROVE  TypeOK' /\ FlightsBound' /\ FlightsOnPulls'
BY FlightEnds DEF TypeOK, FinalizeEnds

-----------------------------------------------------------------------------
(* One step of the whole specification *)

\* What a step does to the pull requests that exist before it.
Calm(q) == Unmoved(q) \/ MovedBase(q)
Finalizes(e) == FinalizeMerge(e) \/ FinalizeMergeWithOverride(e)
Effect(q) == \/ Calm(q)
             \/ \E e \in Edges : /\ edge[e].pull = q /\ MergedBy(edge[e])
                                 /\ Finalizes(e)

\* What a step makes of the pull requests that appear in it.
NewUnmerged == \A q \in DOMAIN pulls' \ DOMAIN pulls :
                  ~pulls'[q].merged /\ pulls'[q].mergeSha = NoMerge

FlightsInv == TypeOK /\ FlightsBound /\ FlightsOnPulls

\* No step but those of the two-phase merge touches a flight, and no step
\* removes a pull request.
LEMMA FlightsKept ==
    ASSUME FlightsBound, FlightsOnPulls, UNCHANGED edge,
           DOMAIN pulls \subseteq DOMAIN pulls'
    PROVE  FlightsBound' /\ FlightsOnPulls'
BY DEF FlightsBound, FlightsOnPulls

\* What creating, editing, retargeting and re-basing do to pull requests and flights.
LEMMA EditEffects ==
    ASSUME FlightsInv, EditSteps
    PROVE  FlightsInv' /\ (\A q \in DOMAIN pulls : Calm(q)) /\ NewUnmerged
<1> USE DEF FlightsInv
<1>1. PICK p \in Pulls :
        \/ \E open \in OpenChoices, h \in Heads, b \in Bases, r \in Ranges,
              f \in PathSets : CreatePullRequest(p, open, h, b, r, f)
        \/ \E d \in DraftEdits \cup {Keep}, s \in UpdateStates \cup {Keep},
              r \in Ranges \cup {Keep}, f \in PathSets \cup {Keep} :
                UpdatePullRequest(p, d, s, r, f)
        \/ \E ref \in Branches, b \in Bases, r \in Ranges, f \in PathSets :
                RetargetPullRequest(p, ref, b, r, f)
        \/ \E b \in Bases : RecordPullRequestBase(p, b)
        \/ \E s \in IssueEdits : UpdateIssue(p, s)
  BY DEF EditSteps
<1>2. ASSUME NEW open \in OpenChoices, NEW h \in Heads, NEW b \in Bases,
             NEW r \in Ranges, NEW f \in PathSets,
             CreatePullRequest(p, open, h, b, r, f)
      PROVE  FlightsInv' /\ (\A q \in DOMAIN pulls : Calm(q)) /\ NewUnmerged
  <2>1. /\ TypeOK' /\ \A q \in DOMAIN pulls : Unmoved(q)
        /\ DOMAIN pulls' = DOMAIN pulls \cup {p}
        /\ ~pulls'[p].merged /\ pulls'[p].mergeSha = NoMerge
    BY <1>2, CreateType
  <2>2. UNCHANGED edge
    BY <1>2 DEF CreatePullRequest
  <2> QED
    BY <2>1, <2>2, FlightsKept DEF Calm, NewUnmerged
<1>3. ASSUME NEW d \in DraftEdits \cup {Keep}, NEW s \in UpdateStates \cup {Keep},
             NEW r \in Ranges \cup {Keep}, NEW f \in PathSets \cup {Keep},
             UpdatePullRequest(p, d, s, r, f)
      PROVE  FlightsInv' /\ (\A q \in DOMAIN pulls : Calm(q)) /\ NewUnmerged
  <2>1. TypeOK' /\ \A q \in DOMAIN pulls : Unmoved(q)
    BY <1>3, UpdateType
  <2>2. UNCHANGED edge /\ DOMAIN pulls' = DOMAIN pulls
    BY <1>3 DEF UpdatePullRequest
  <2> QED
    BY <2>1, <2>2, FlightsKept DEF Calm, NewUnmerged
<1>4. ASSUME NEW ref \in Branches, NEW b \in Bases, NEW r \in Ranges,
             NEW f \in PathSets, RetargetPullRequest(p, ref, b, r, f)
      PROVE  FlightsInv' /\ (\A q \in DOMAIN pulls : Calm(q)) /\ NewUnmerged
  <2>1. TypeOK' /\ MovedBase(p) /\ \A q \in DOMAIN pulls : q # p => Unmoved(q)
    BY <1>4, RetargetType
  <2>2. UNCHANGED edge /\ DOMAIN pulls' = DOMAIN pulls
    BY <1>4 DEF RetargetPullRequest
  <2> QED
    BY <2>1, <2>2, FlightsKept DEF Calm, NewUnmerged
<1>5. ASSUME NEW b \in Bases, RecordPullRequestBase(p, b)
      PROVE  FlightsInv' /\ (\A q \in DOMAIN pulls : Calm(q)) /\ NewUnmerged
  <2>1. TypeOK' /\ MovedBase(p) /\ \A q \in DOMAIN pulls : q # p => Unmoved(q)
    BY <1>5, RecordBaseType
  <2>2. UNCHANGED edge /\ DOMAIN pulls' = DOMAIN pulls
    BY <1>5 DEF RecordPullRequestBase
  <2> QED
    BY <2>1, <2>2, FlightsKept DEF Calm, NewUnmerged
<1>6. ASSUME NEW s \in IssueEdits, UpdateIssue(p, s)
      PROVE  FlightsInv' /\ (\A q \in DOMAIN pulls : Calm(q)) /\ NewUnmerged
  <2>1. /\ TypeOK' /\ DOMAIN pulls' = DOMAIN pulls
        /\ \A q \in DOMAIN pulls : Unmoved(q)
    BY <1>6, IssueType
  <2>2. UNCHANGED edge
    BY <1>6 DEF UpdateIssue
  <2> QED
    BY <2>1, <2>2, FlightsKept DEF Calm, NewUnmerged
<1> QED
  BY <1>1, <1>2, <1>3, <1>4, <1>5, <1>6

\* What a head refresh does to them.
LEMMA RefreshEffects ==
    ASSUME FlightsInv, RefreshSteps
    PROVE  FlightsInv' /\ (\A q \in DOMAIN pulls : Calm(q)) /\ NewUnmerged
<1>1. PICK ref \in Branches, h \in Heads, b \in Bases \cup {NoSha} : RefreshHeads(ref, h, b)
  BY DEF RefreshSteps
<1>2. TypeOK' /\ \A q \in DOMAIN pulls : Unmoved(q)
  BY <1>1, RefreshType DEF FlightsInv
<1>3. UNCHANGED edge /\ DOMAIN pulls' = DOMAIN pulls
  BY <1>1 DEF RefreshHeads
<1> QED
  BY <1>2, <1>3, FlightsKept DEF FlightsInv, Calm, NewUnmerged

\* What a review or a dismissal does to them.
LEMMA ReviewEffects ==
    ASSUME FlightsInv, ReviewSteps
    PROVE  FlightsInv' /\ (\A q \in DOMAIN pulls : Calm(q)) /\ NewUnmerged
<1> USE DEF FlightsInv
<1>1. PICK p \in Pulls, u \in Reviewers :
        \/ \E s \in ReviewEvents : CreateReview(p, u, s)
        \/ \E t \in 1..MaxReviews : \/ DismissOwnReview(p, u, t)
                                    \/ DismissOtherReview(p, u, t)
                                    \/ DismissOtherReviewFails(p, u, t)
  BY DEF ReviewSteps
<1>2. UNCHANGED edge
  BY <1>1 DEF CreateReview, DismissOwnReview, DismissOtherReview, DismissOtherReviewFails
<1>3. ASSUME NEW t \in 1..MaxReviews, DismissOtherReviewFails(p, u, t)
      PROVE  /\ TypeOK' /\ DOMAIN pulls' = DOMAIN pulls
             /\ \A q \in DOMAIN pulls : Unmoved(q)
  BY <1>3, DismissFailsType DEF DismissOtherReviewFails, Unmoved
<1>4. /\ TypeOK' /\ DOMAIN pulls' = DOMAIN pulls
      /\ \A q \in DOMAIN pulls : Unmoved(q)
  BY <1>1, <1>3, ReviewType, DismissOwnType, DismissOtherType
<1> QED
  BY <1>2, <1>4, FlightsKept DEF Calm, NewUnmerged

\* What a status or a check run does to them.
LEMMA ResultEffects ==
    ASSUME FlightsInv, ResultSteps
    PROVE  FlightsInv' /\ (\A q \in DOMAIN pulls : Calm(q)) /\ NewUnmerged
<1> USE DEF FlightsInv
<1>1. UNCHANGED edge
  BY DEF ResultSteps, CreateCommitStatus, CreateCheckRun
<1>2. /\ TypeOK' /\ DOMAIN pulls' = DOMAIN pulls
      /\ \A q \in DOMAIN pulls : Unmoved(q)
  BY StatusType, RunType DEF ResultSteps
<1> QED
  BY <1>1, <1>2, FlightsKept DEF Calm, NewUnmerged

\* What the calls of the two-phase merge do to them.
LEMMA MergeEffects ==
    ASSUME FlightsInv, MergeSteps
    PROVE  FlightsInv' /\ (\A q \in DOMAIN pulls : Effect(q)) /\ NewUnmerged
<1> USE DEF FlightsInv
<1>1. PICK e \in Edges :
        \/ \E p \in Pulls, r \in Heads \cup {NoSha} : EvaluateMergeReadiness(e, p, r)
        \/ \E p \in Pulls, u \in Users : PrepareMergeOverride(e, p, u)
        \/ GitMerge(e)
        \/ ExpirePermit(e)
        \/ FinalizeMerge(e)
        \/ FinalizeMergeWithOverride(e)
        \/ FinalizeEnds(e)
  BY DEF MergeSteps
<1>2. CASE FinalizeMerge(e) \/ FinalizeMergeWithOverride(e)
  <2>1. FlightsInv' /\ MergedBy(edge[e])
    BY <1>2, FinalizeType, FinalizeOverrideType
  <2>2. /\ DOMAIN pulls' = DOMAIN pulls
        /\ \A q \in DOMAIN pulls : q # edge[e].pull => pulls'[q] = pulls[q]
    BY <2>1, MergedByType
  <2> QED
    BY <1>2, <2>1, <2>2 DEF Effect, Calm, Finalizes, NewUnmerged, Unmoved
<1>3. CASE ~(FinalizeMerge(e) \/ FinalizeMergeWithOverride(e))
  <2>1. UNCHANGED pulls
    BY <1>1, <1>3 DEF EvaluateMergeReadiness, PrepareMergeOverride, GitMerge,
                      ExpirePermit, FinalizeEnds
  <2>2. FlightsInv'
    BY <1>1, <1>3, ReadinessType, PrepareType, GitMergeType, ExpireType, EndsType
  <2> QED
    BY <2>1, <2>2 DEF Effect, Calm, Finalizes, NewUnmerged, Unmoved
<1> QED
  BY <1>2, <1>3

\* Every step leaves a pull request unmoved, moves an open one's base, or merges it
\* as a flight bound it.
LEMMA StepEffects ==
    ASSUME FlightsInv, [Next]_vars
    PROVE  FlightsInv' /\ (\A q \in DOMAIN pulls : Effect(q)) /\ NewUnmerged
<1>1. CASE UNCHANGED vars
  BY <1>1 DEF vars, FlightsInv, TypeOK, FlightsBound, FlightsOnPulls, Calm,
              Effect, Unmoved, NewUnmerged
<1>2. CASE PolicySteps
  <2>1. TypeOK' /\ UNCHANGED <<pulls, edge>>
    BY <1>2, PolicyType DEF FlightsInv
  <2> QED
    BY <2>1, FlightsKept DEF FlightsInv, Effect, Calm, Unmoved, NewUnmerged
<1> QED
  BY <1>1, <1>2, EditEffects, RefreshEffects, ReviewEffects, ResultEffects,
     MergeEffects DEF Next, Effect

\* Every reachable state has the right type: pull records, ledgers, rules,
\* receipts and flights hold what the engine's types allow, for any instance.
THEOREM TypeCorrect == Spec => []TypeOK
<1>1. Init => FlightsInv
  BY TypeInit DEF Init, FlightsInv, FlightsBound, FlightsOnPulls
<1>2. FlightsInv /\ [Next]_vars => FlightsInv'
  BY StepEffects
<1> QED
  BY <1>1, <1>2, PTL DEF Spec, FlightsInv

\* finalize_merge and finalize_merge_with_override record only the merge that
\* git performed, into the branch and base the pull request targets.
THEOREM RecordedMergesAreReal == Spec => []MergeRecordsWhatGitMerged
<1> DEFINE I == FlightsInv /\ MergeRecordsWhatGitMerged
<1>1. Init => I
  BY TypeInit DEF Init, FlightsInv, FlightsBound, FlightsOnPulls,
                  MergeRecordsWhatGitMerged
<1>2. I /\ [Next]_vars => I'
  <2> SUFFICES ASSUME I, [Next]_vars PROVE I'
    OBVIOUS
  <2>1. FlightsInv' /\ (\A q \in DOMAIN pulls : Effect(q)) /\ NewUnmerged
    BY StepEffects
  <2> DEFINE Sound(pr) ==
        /\ pr.merged <=> pr.mergeSha # NoMerge
        /\ pr.merged => /\ pr.mergeSha.baseRef = pr.baseRef
                        /\ pr.mergeSha.base = pr.base
                        /\ pr.mergeSha.requested # NoSha => pr.mergeSha.head = pr.head
  <2>2. ASSUME NEW q \in DOMAIN pulls' PROVE Sound(pulls'[q])
    <3>1. CASE q \notin DOMAIN pulls
      BY <2>1, <3>1 DEF NewUnmerged
    <3>2. CASE q \in DOMAIN pulls /\ Unmoved(q)
      BY <3>2 DEF Unmoved, MergeRecordsWhatGitMerged
    <3>3. CASE q \in DOMAIN pulls /\ MovedBase(q)
      BY <3>3 DEF MovedBase, MergeRecordsWhatGitMerged
    <3>4. ASSUME NEW e \in Edges, edge[e].pull = q, MergedBy(edge[e])
          PROVE  Sound(pulls'[q])
      <4>1. /\ pulls'[q].merged /\ pulls'[q].mergeSha = MergeCommit(edge[e])
            /\ MergeCommit(edge[e]) \in MergeCommits
            /\ pulls'[q].head = pulls[q].head
            /\ pulls'[q].baseRef = pulls[q].baseRef /\ pulls'[q].base = pulls[q].base
        BY <3>4, MergedByType DEF FlightsInv
      <4>2. pulls'[q].mergeSha # NoMerge
        BY <4>1, SentinelAssumptions
      <4> QED
        BY <3>4, <4>1, <4>2 DEF MergedBy, MergeCommit
    <3> QED
      BY <2>1, <3>1, <3>2, <3>3, <3>4 DEF Effect, Calm
  <2> QED
    BY <2>1, <2>2 DEF MergeRecordsWhatGitMerged
<1> QED
  BY <1>1, <1>2, PTL DEF Spec

\* Nothing that happens after a merge undoes it or changes what it records.
THEOREM MergesAreFinal == Spec => MergedIsFinal
<1> DEFINE Final == \A p \in DOMAIN pulls : pulls[p].merged =>
                      /\ pulls'[p].merged
                      /\ pulls'[p].mergeSha = pulls[p].mergeSha
                      /\ pulls'[p].head = pulls[p].head
                      /\ pulls'[p].baseRef = pulls[p].baseRef
                      /\ pulls'[p].base = pulls[p].base
<1>1. Init => FlightsInv
  BY TypeInit DEF Init, FlightsInv, FlightsBound, FlightsOnPulls
<1>2. FlightsInv /\ [Next]_vars => FlightsInv'
  BY StepEffects
<1>3. FlightsInv /\ [Next]_vars => [Final]_vars
  BY StepEffects DEF Effect, Calm, Unmoved, MovedBase, MergedBy
<1> QED
  BY <1>1, <1>2, <1>3, PTL DEF Spec, MergedIsFinal

\* Edits write no receipt and no review.
LEMMA EditsKeepTrail ==
    ASSUME EditSteps
    PROVE  UNCHANGED <<audit, reviews, given>>
<1>1. PICK p \in Pulls :
        \/ \E open \in OpenChoices, h \in Heads, b \in Bases, r \in Ranges,
              f \in PathSets : CreatePullRequest(p, open, h, b, r, f)
        \/ \E d \in DraftEdits \cup {Keep}, s \in UpdateStates \cup {Keep},
              r \in Ranges \cup {Keep}, f \in PathSets \cup {Keep} :
                UpdatePullRequest(p, d, s, r, f)
        \/ \E ref \in Branches, b \in Bases, r \in Ranges, f \in PathSets :
                RetargetPullRequest(p, ref, b, r, f)
        \/ \E b \in Bases : RecordPullRequestBase(p, b)
        \/ \E s \in IssueEdits : UpdateIssue(p, s)
  BY DEF EditSteps
<1>2. ASSUME NEW open, NEW h, NEW b, NEW r, NEW f, CreatePullRequest(p, open, h, b, r, f)
      PROVE  UNCHANGED <<audit, reviews, given>>
  BY <1>2 DEF CreatePullRequest
<1>3. ASSUME NEW d, NEW s, NEW r, NEW f, UpdatePullRequest(p, d, s, r, f)
      PROVE  UNCHANGED <<audit, reviews, given>>
  BY <1>3 DEF UpdatePullRequest
<1>4. ASSUME NEW ref, NEW b, NEW r, NEW f, RetargetPullRequest(p, ref, b, r, f)
      PROVE  UNCHANGED <<audit, reviews, given>>
  BY <1>4 DEF RetargetPullRequest
<1>5. ASSUME NEW b, RecordPullRequestBase(p, b)
      PROVE  UNCHANGED <<audit, reviews, given>>
  BY <1>5 DEF RecordPullRequestBase
<1>6. ASSUME NEW s, UpdateIssue(p, s)
      PROVE  UNCHANGED <<audit, reviews, given>>
  BY <1>6 DEF UpdateIssue
<1> QED
  BY <1>1, <1>2, <1>3, <1>4, <1>5, <1>6

\* The only "completed" override receipts a step adds are those of the merge
\* that it records.
LEMMA OverrideReceiptsStep ==
    ASSUME FlightsInv, [Next]_vars, NEW r \in audit' \ audit,
           r.action = "merge_override", r.phase = "completed"
    PROVE  \E e \in Edges : edge[e].pull = r.pull /\ MergedBy(edge[e])
<1>1. ASSUME NEW e \in Edges, FinalizeMergeWithOverride(e)
      PROVE  edge[e].pull = r.pull /\ MergedBy(edge[e])
  <2>1. r = Receipt("merge_override", "completed", edge[e].pull, edge[e].permit.actor)
    BY <1>1 DEF FinalizeMergeWithOverride
  <2>2. r.pull = edge[e].pull
    BY <2>1 DEF Receipt
  <2> QED
    BY <1>1, <2>2, FinalizeOverrideType DEF FlightsInv
<1>2. ASSUME NEW e \in Edges, NEW p \in Pulls, NEW u \in Users,
             PrepareMergeOverride(e, p, u)
      PROVE  FALSE
  BY <1>2 DEF PrepareMergeOverride, Receipt
<1>3. CASE MergeSteps
  <2>1. ASSUME NEW e \in Edges,
               GitMerge(e) \/ ExpirePermit(e) \/ FinalizeMerge(e) \/ FinalizeEnds(e)
        PROVE  FALSE
    BY <2>1 DEF GitMerge, ExpirePermit, FinalizeMerge, FinalizeEnds
  <2>2. ASSUME NEW e \in Edges, NEW p \in Pulls, NEW h \in Heads \cup {NoSha},
               EvaluateMergeReadiness(e, p, h)
        PROVE  FALSE
    BY <2>2 DEF EvaluateMergeReadiness
  <2> QED
    BY <1>1, <1>2, <1>3, <2>1, <2>2 DEF MergeSteps
<1>4. ASSUME NEW p \in Pulls, NEW u \in Reviewers, NEW t \in 1..MaxReviews,
             DismissOtherReview(p, u, t) \/ DismissOtherReviewFails(p, u, t)
      PROVE  FALSE
  <2>1. audit' \subseteq audit \cup {Receipt("review_dismissal", "requested", p, u),
                                     Receipt("review_dismissal", "completed", p, u)}
    BY <1>4 DEF DismissOtherReview, DismissOtherReviewFails, BestEffort
  <2> QED
    BY <2>1 DEF Receipt
<1>5. CASE ReviewSteps
  BY <1>4, <1>5 DEF ReviewSteps, CreateReview, DismissOwnReview
<1>6. CASE RefreshSteps \/ ResultSteps
  BY <1>6 DEF RefreshSteps, RefreshHeads, ResultSteps, CreateCommitStatus, CreateCheckRun
<1>7. CASE EditSteps
  BY <1>7, EditsKeepTrail
<1>8. CASE PolicySteps
  BY <1>8, PolicyType DEF FlightsInv
<1>9. CASE UNCHANGED vars
  BY <1>9 DEF vars
<1> QED
  BY <1>3, <1>5, <1>6, <1>7, <1>8, <1>9 DEF Next

\* A completed override receipt never outlives a merge that did not happen.
THEOREM OverrideReceiptsAreTrue == Spec => []OverrideReceiptMeansMerged
<1> DEFINE I == FlightsInv /\ OverrideReceiptMeansMerged
<1>1. Init => I
  BY TypeInit DEF Init, FlightsInv, FlightsBound, FlightsOnPulls,
                  OverrideReceiptMeansMerged
<1>2. I /\ [Next]_vars => I'
  <2> SUFFICES ASSUME I, [Next]_vars PROVE I'
    OBVIOUS
  <2>1. FlightsInv' /\ \A q \in DOMAIN pulls : Effect(q)
    BY StepEffects
  <2>2. ASSUME NEW e \in Edges, MergedBy(edge[e])
        PROVE  edge[e].pull \in DOMAIN pulls' /\ pulls'[edge[e].pull].merged
    BY <2>2, MergedByType DEF FlightsInv, MergedBy
  <2>3. \A q \in DOMAIN pulls : pulls[q].merged => q \in DOMAIN pulls' /\ pulls'[q].merged
    BY <2>1, <2>2 DEF Effect, Calm, Unmoved, MovedBase
  <2>4. ASSUME NEW r \in audit', r.action = "merge_override", r.phase = "completed"
        PROVE  r.pull \in DOMAIN pulls' /\ pulls'[r.pull].merged
    <3>1. CASE r \in audit
      BY <2>3, <2>4, <3>1 DEF OverrideReceiptMeansMerged
    <3>2. CASE r \notin audit
      BY <2>2, <2>4, <3>2, OverrideReceiptsStep
    <3> QED
      BY <3>1, <3>2
  <2> QED
    BY <2>1, <2>4 DEF OverrideReceiptMeansMerged
<1> QED
  BY <1>1, <1>2, PTL DEF Spec
=============================================================================
