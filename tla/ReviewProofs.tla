---------------------------- MODULE ReviewProofs ----------------------------
(***************************************************************************)
(* Theorems about the review ledger and the gate of PullRequests, for      *)
(* every instance: separation of duties, dismissals that never bring a     *)
(* verdict back, approvals that count only for the branch they were given  *)
(* for, merges that rest on proof for their base or on an audited          *)
(* decision, and closed pull requests that stay closed; and about what     *)
(* becomes of a change before it is one, in ChangeRouting.                 *)
(***************************************************************************)
EXTENDS PullRequestsProofs, ReviewLoop, ChangeRouting, FiniteSetTheorems, WellFoundedInduction

-----------------------------------------------------------------------------
(* What appending one row does to a ledger *)

\* Dismissals name earlier verdicts only (0: none).
WellFormed(R) ==
    \A d \in DOMAIN R :
        /\ R[d].target < d
        /\ R[d].target # 0 => R[R[d].target].state \in Verdicts

\* The fields of a row.
LEMMA RowTypes ==
    ASSUME NEW R \in Seq(ReviewRows), NEW d \in DOMAIN R
    PROVE  R[d].author \in Users /\ R[d].head \in Heads /\ R[d].target \in Nat
<1>1. R[d] \in ReviewRows
  OBVIOUS
<1> QED
  BY <1>1 DEF ReviewRows

\* No row's author or head is the "none" of the source.
LEMMA NoSentinelRows == NoUser \notin Users /\ NoHead \notin Heads
BY PullAssumptions

\* The rows of a ledger after one more.
LEMMA AppendRows ==
    ASSUME NEW R \in Seq(ReviewRows), NEW row \in ReviewRows
    PROVE  LET Q == Append(R, row)
           IN  /\ Q \in Seq(ReviewRows)
               /\ Len(Q) = Len(R) + 1
               /\ DOMAIN R = 1..Len(R)
               /\ DOMAIN Q = 1..(Len(R) + 1)
               /\ \A i \in DOMAIN R : Q[i] = R[i]
               /\ Q[Len(R) + 1] = row
OBVIOUS

\* A row that names an earlier verdict, or none, keeps a ledger well formed.
LEMMA AppendWellFormed ==
    ASSUME NEW R \in Seq(ReviewRows), NEW row \in ReviewRows, WellFormed(R),
           row.target \in 0..Len(R), row.target # 0 => R[row.target].state \in Verdicts
    PROVE  WellFormed(Append(R, row))
<1> DEFINE Q == Append(R, row)
<1>1. /\ DOMAIN R = 1..Len(R) /\ DOMAIN Q = 1..(Len(R) + 1) /\ Len(R) \in Nat
      /\ \A i \in DOMAIN R : Q[i] = R[i]
      /\ Q[Len(R) + 1] = row
  BY AppendRows
<1>2. \A d \in DOMAIN R : R[d].target \in Nat
  BY RowTypes
<1> HIDE DEF Q
<1>3. \A d \in DOMAIN R : R[d].target # 0 => R[d].target \in DOMAIN R
  BY <1>1, <1>2 DEF WellFormed
<1>4. WellFormed(Q)
  BY <1>1, <1>3 DEF WellFormed
<1> QED
  BY <1>4 DEF Q

\* A withdrawal is for good.
LEMMA WithdrawnGrows ==
    ASSUME NEW R \in Seq(ReviewRows), NEW row \in ReviewRows
    PROVE  WithdrawnVerdicts(R) \subseteq WithdrawnVerdicts(Append(R, row))
BY AppendRows DEF WithdrawnVerdicts

\* So is having withdrawn somebody else's verdict.
LEMMA AdminsGrow ==
    ASSUME NEW R \in Seq(ReviewRows), NEW row \in ReviewRows, WellFormed(R)
    PROVE  /\ DismissingAdmins(R) \subseteq DismissingAdmins(Append(R, row))
           /\ DismissingAdmins(Append(R, row)) \subseteq
                 DismissingAdmins(R) \cup
                   (IF row.state = "Dismissed" /\ row.admin THEN {row.author} ELSE {})
<1> DEFINE Q == Append(R, row)
           n == Len(R) + 1
<1>1. /\ DOMAIN R = 1..Len(R) /\ DOMAIN Q = 1..n /\ Len(R) \in Nat
      /\ \A i \in DOMAIN R : Q[i] = R[i]
      /\ Q[n] = row
  BY AppendRows
<1>2. \A d \in DOMAIN R : R[d].target \in Nat /\ R[d].target < d
  BY RowTypes DEF WellFormed
<1> HIDE DEF Q
<1>3. \A d \in DOMAIN R : IsCrossAuthorDismissal(R, d) <=> IsCrossAuthorDismissal(Q, d)
  <2> SUFFICES ASSUME NEW d \in DOMAIN R
               PROVE  IsCrossAuthorDismissal(R, d) <=> IsCrossAuthorDismissal(Q, d)
    OBVIOUS
  <2>1. R[d].target \in DOMAIN R <=> R[d].target \in DOMAIN Q
    BY <1>1, <1>2
  <2>2. Q[d] = R[d]
    BY <1>1
  <2>3. R[d].target \in DOMAIN R => Q[R[d].target] = R[R[d].target]
    BY <1>1
  <2> QED
    BY <2>1, <2>2, <2>3 DEF IsCrossAuthorDismissal
<1>4. DismissingAdmins(R) \subseteq DismissingAdmins(Q)
  BY <1>1, <1>3 DEF DismissingAdmins
<1>5. ASSUME NEW a \in DismissingAdmins(Q), a \notin DismissingAdmins(R)
      PROVE  row.state = "Dismissed" /\ row.admin /\ a = row.author
  <2>1. PICK d \in DOMAIN Q : IsCrossAuthorDismissal(Q, d) /\ a = Q[d].author
    BY DEF DismissingAdmins
  <2>2. d \notin DOMAIN R
    BY <1>1, <1>3, <1>5, <2>1 DEF DismissingAdmins
  <2>3. d = n
    BY <1>1, <2>1, <2>2
  <2> QED
    BY <1>1, <2>1, <2>3 DEF IsCrossAuthorDismissal
<1> QED
  BY <1>4, <1>5 DEF Q

\* An approval that counts after a row was appended counted before: no row
\* brings back an approval, at any head, identity or reach.
LEMMA ApprovalsNeverReturn ==
    ASSUME NEW R \in Seq(ReviewRows), NEW row \in ReviewRows, WellFormed(R),
           NEW head, NEW ids, NEW reach, NEW author, NEW i \in DOMAIN R,
           R[i].state = "Approved",
           i \in Effective(Append(R, row), head, ids, reach, author)
    PROVE  i \in Effective(R, head, ids, reach, author)
<1> DEFINE Q == Append(R, row)
<1>1. /\ DOMAIN R \subseteq DOMAIN Q
      /\ \A k \in DOMAIN R : Q[k] = R[k]
  BY AppendRows
<1>2. \A k : k \notin WithdrawnVerdicts(Q) => k \notin WithdrawnVerdicts(R)
  BY WithdrawnGrows
<1>3. \A a : a \notin DismissingAdmins(Q) => a \notin DismissingAdmins(R)
  BY AdminsGrow
<1> HIDE DEF Q
<1>4. /\ Speaks(Q, i, head, ids, reach)
      /\ i \notin WithdrawnVerdicts(Q)
      /\ ~Ignored(Q, i, author)
      /\ \A j \in DOMAIN Q : /\ j > i
                             /\ Q[j].author = Q[i].author
                             /\ Speaks(Q, j, head, ids, reach)
                             => ~Ends(Q, j, i, author)
  BY DEF Effective, Q
<1>5. R[i].author # author /\ R[i].author \notin DismissingAdmins(Q)
  BY <1>1, <1>4 DEF Ignored
<1>6. ASSUME NEW j \in DOMAIN R, j > i, R[j].author = R[i].author,
             Speaks(R, j, head, ids, reach)
      PROVE  ~Ends(R, j, i, author)
  <2>1. ~Ends(Q, j, i, author)
    BY <1>1, <1>4, <1>6 DEF Speaks
  <2>2. ~Ignored(Q, j, author)
    BY <1>1, <1>5, <1>6 DEF Ignored
  <2> QED
    BY <1>1, <1>2, <2>1, <2>2 DEF Ends
<1>7. Speaks(R, i, head, ids, reach)
  BY <1>1, <1>4 DEF Speaks
<1>8. ~Ignored(R, i, author)
  BY <1>3, <1>5 DEF Ignored
<1> QED
  BY <1>2, <1>4, <1>6, <1>7, <1>8 DEF Effective, Verdicts

\* A dismissal brings no verdict back, provided an administrator who dismisses
\* somebody else's holds no approval: ignoring their approvals from now on must
\* not uncover what those had replaced.
LEMMA DismissalShrinks ==
    ASSUME NEW R \in Seq(ReviewRows), NEW row \in ReviewRows, WellFormed(R),
           row.state = "Dismissed",
           row.admin => \A k \in DOMAIN R :
                          R[k].state = "Approved" /\ R[k].author = row.author
                            => k \in WithdrawnVerdicts(R),
           NEW head, NEW ids, NEW reach, NEW author
    PROVE  Effective(Append(R, row), head, ids, reach, author)
             \subseteq Effective(R, head, ids, reach, author)
<1> DEFINE Q == Append(R, row)
<1>1. /\ DOMAIN R = 1..Len(R) /\ DOMAIN Q = 1..(Len(R) + 1) /\ Len(R) \in Nat
      /\ \A k \in DOMAIN R : Q[k] = R[k]
      /\ Q[Len(R) + 1] = row
  BY AppendRows
<1>2. WithdrawnVerdicts(R) \subseteq WithdrawnVerdicts(Q)
  BY WithdrawnGrows
<1>3. /\ DismissingAdmins(R) \subseteq DismissingAdmins(Q)
      /\ DismissingAdmins(Q) \subseteq DismissingAdmins(R) \cup
           (IF row.state = "Dismissed" /\ row.admin THEN {row.author} ELSE {})
  BY AdminsGrow
<1> HIDE DEF Q
<1> SUFFICES ASSUME NEW i \in Effective(Q, head, ids, reach, author)
             PROVE  i \in Effective(R, head, ids, reach, author)
  BY DEF Q
<1>4. /\ i \in DOMAIN Q /\ Q[i].state \in Verdicts
      /\ Speaks(Q, i, head, ids, reach)
      /\ i \notin WithdrawnVerdicts(Q) /\ ~Ignored(Q, i, author)
      /\ \A j \in DOMAIN Q : /\ j > i
                             /\ Q[j].author = Q[i].author
                             /\ Speaks(Q, j, head, ids, reach)
                             => ~Ends(Q, j, i, author)
  BY DEF Effective
<1>5. i \in DOMAIN R
  BY <1>1, <1>4 DEF Verdicts
<1>6. Speaks(R, i, head, ids, reach) /\ ~Ignored(R, i, author)
  BY <1>1, <1>3, <1>4, <1>5 DEF Speaks, Ignored
<1>7. ASSUME NEW j \in DOMAIN R, j > i, R[j].author = R[i].author,
             Speaks(R, j, head, ids, reach)
      PROVE  ~Ends(R, j, i, author)
  <2>1. ~Ends(Q, j, i, author) /\ Q[j] = R[j]
    BY <1>1, <1>4, <1>5, <1>7 DEF Speaks
  <2>2. j \notin WithdrawnVerdicts(R)
    BY <1>2, <2>1 DEF Ends
  <2>3. Ignored(Q, j, author) => Ignored(R, j, author)
    BY <1>3, <2>1, <2>2 DEF Ignored
  <2> QED
    BY <1>1, <1>5, <2>1, <2>2, <2>3 DEF Ends
<1> QED
  BY <1>1, <1>2, <1>4, <1>5, <1>6, <1>7 DEF Effective

\* A reviewer's last verdict for a head, when it is a rejection that no row
\* names, is effective: nothing else ends a rejection.
LEMMA LastRejectionCounts ==
    ASSUME NEW R \in Seq(ReviewRows), WellFormed(R), NEW head, NEW ids, NEW reach,
           NEW author, NEW i \in DOMAIN R, R[i].state = "ChangesRequested",
           Speaks(R, i, head, ids, reach),
           \A j \in DOMAIN R : /\ R[j].author = R[i].author
                               /\ R[j].state \in Verdicts
                               /\ Speaks(R, j, head, ids, reach)
                               => j <= i,
           \A d \in DOMAIN R : R[d].target # i
    PROVE  i \in Rejections(R, Effective(R, head, ids, reach, author))
<1>1. i \notin WithdrawnVerdicts(R)
  BY DEF WithdrawnVerdicts
<1>2. ~Ignored(R, i, author)
  BY DEF Ignored
<1>3. ASSUME NEW j \in DOMAIN R, j > i, R[j].author = R[i].author,
             Speaks(R, j, head, ids, reach)
      PROVE  ~Ends(R, j, i, author)
  <2>1. R[j].state \notin Verdicts
    BY <1>3
  <2>2. j \notin WithdrawnVerdicts(R)
    BY <1>3, <2>1 DEF WithdrawnVerdicts, WellFormed
  <2> QED
    BY <2>1, <2>2 DEF Ends
<1> QED
  BY <1>1, <1>2, <1>3 DEF Rejections, Effective, Verdicts

\* standing_approval looks at every head an approval could count at.
LEMMA NoneStanding ==
    ASSUME NEW R \in Seq(ReviewRows), ~StandingApproval(R), NEW h
    PROVE  Approvals(R, EffectiveForHead(R, h)) = {}
<1> SUFFICES ASSUME NEW i \in Approvals(R, EffectiveForHead(R, h)) PROVE FALSE
  OBVIOUS
<1>1. i \in DOMAIN R /\ R[i].state = "Approved" /\ R[i].head = h
  BY DEF Approvals, EffectiveForHead, Effective, Speaks
<1>2. R[i].head # NoHead
  BY <1>1, RowTypes, NoSentinelRows
<1> QED
  BY <1>1, <1>2 DEF StandingApproval

\* What counts at the exact head for the gate counts there for
\* standing_approval, which knows no pull request author.
LEMMA ExactHeadApprovals ==
    ASSUME NEW R \in Seq(ReviewRows), NEW pr
    PROVE  Approvals(R, EffectiveFor(pr, R, "ExactHead"))
             \subseteq Approvals(R, EffectiveForHead(R, pr.head))
<1> SUFFICES ASSUME NEW i \in Approvals(R, EffectiveFor(pr, R, "ExactHead"))
             PROVE  i \in EffectiveForHead(R, pr.head)
  BY DEF Approvals
<1>1. /\ i \in DOMAIN R /\ R[i].state = "Approved"
      /\ Speaks(R, i, pr.head, pr.ids, "ExactHead")
      /\ i \notin WithdrawnVerdicts(R) /\ ~Ignored(R, i, pr.author)
      /\ \A j \in DOMAIN R : /\ j > i
                             /\ R[j].author = R[i].author
                             /\ Speaks(R, j, pr.head, pr.ids, "ExactHead")
                             => ~Ends(R, j, i, pr.author)
  BY DEF Approvals, EffectiveFor, Effective
<1>2. R[i].author # pr.author /\ R[i].author \notin DismissingAdmins(R)
  BY <1>1 DEF Ignored
<1>3. R[i].author # NoUser
  BY <1>1, RowTypes, NoSentinelRows
<1>4. ~Ignored(R, i, NoUser) /\ Speaks(R, i, pr.head, NoIds, "ExactHead")
  BY <1>1, <1>2, <1>3 DEF Ignored, Speaks
<1>5. ASSUME NEW j \in DOMAIN R, j > i, R[j].author = R[i].author,
             Speaks(R, j, pr.head, NoIds, "ExactHead")
      PROVE  ~Ends(R, j, i, NoUser)
  <2>1. ~Ends(R, j, i, pr.author)
    BY <1>1, <1>5 DEF Speaks
  <2>2. ~Ignored(R, j, pr.author)
    BY <1>2, <1>5 DEF Ignored
  <2> QED
    BY <2>1, <2>2 DEF Ends
<1> QED
  BY <1>1, <1>4, <1>5 DEF EffectiveForHead, Effective, Verdicts

-----------------------------------------------------------------------------
(* What a step does to the ledgers *)

\* The ledger of p gained `row` in this step, written for p's base branch.
\* An approval is not by somebody who withdrew another's verdict; a withdrawal
\* of another's verdict is by somebody with no approval left here, and its
\* receipt is stored.
Gains(p, row) ==
    LET R == reviews[p]
    IN  /\ p \in DOMAIN pulls
        /\ reviews' = [reviews EXCEPT ![p] = Append(R, row)]
        /\ given' = [given EXCEPT ![p] = Append(given[p], pulls[p].baseRef)]
        /\ row.target \in 0..Len(R)
        /\ row.target # 0 => R[row.target].state \in Verdicts
        /\ row.state = "Approved" => /\ row.author \notin DismissingAdmins(R)
                                     /\ row.target = 0
        /\ row.admin => /\ row.state = "Dismissed"
                        /\ \A i \in DOMAIN R :
                              R[i].state = "Approved" /\ R[i].author = row.author
                                => i \in WithdrawnVerdicts(R)
                        /\ Receipt("review_dismissal", "requested", p, row.author)
                              \in audit'

\* A review step appends at most one row, to one ledger, as record_review allows.
LEMMA ReviewsGain ==
    ASSUME TypeOK, ReviewSteps
    PROVE  \/ UNCHANGED <<reviews, given>>
           \/ \E p \in Pulls, row \in ReviewRows : Gains(p, row)
<1>1. PICK p \in Pulls, u \in Reviewers :
        \/ \E s \in ReviewEvents : CreateReview(p, u, s)
        \/ \E t \in 1..MaxReviews : \/ DismissOwnReview(p, u, t)
                                    \/ DismissOtherReview(p, u, t)
                                    \/ DismissOtherReviewFails(p, u, t)
  BY DEF ReviewSteps
<1>2. reviews[p] \in Seq(ReviewRows) /\ Len(reviews[p]) \in Nat
      /\ DOMAIN reviews[p] = 1..Len(reviews[p])
  BY DEF TypeOK
<1>3. ASSUME NEW s \in ReviewEvents, CreateReview(p, u, s)
      PROVE  \E row \in ReviewRows : Gains(p, row)
  <2> DEFINE row == Row(p, u, s, 0, FALSE)
  <2>1. p \in DOMAIN pulls /\ AppendReview(p, row)
    BY <1>3 DEF CreateReview
  <2>2. /\ row \in ReviewRows /\ row.target = 0 /\ ~row.admin
        /\ row.author = u /\ row.state = s
    BY <2>1, SentinelAssumptions DEF TypeOK, Row, ReviewRows, PullRecords
  <2>3. row.state = "Approved" => row.author \notin DismissingAdmins(reviews[p])
    BY <1>3, <2>2 DEF CreateReview
  <2> HIDE DEF row
  <2>4. Gains(p, row)
    BY <1>2, <2>1, <2>2, <2>3 DEF Gains, AppendReview, TypeOK
  <2> QED
    BY <2>2, <2>4
<1>4. ASSUME NEW t \in 1..MaxReviews, DismissOwnReview(p, u, t)
      PROVE  \E row \in ReviewRows : Gains(p, row)
  <2> DEFINE row == Row(p, u, "Dismissed", t, FALSE)
  <2>1. /\ p \in DOMAIN pulls /\ AppendReview(p, row)
        /\ t \in DOMAIN reviews[p]
    BY <1>4 DEF DismissOwnReview
  <2>2. reviews[p][t].state \in Verdicts
    BY <1>4 DEF DismissOwnReview
  <2>3. /\ row \in ReviewRows /\ row.target = t /\ ~row.admin
        /\ row.state = "Dismissed"
    BY <2>1, SentinelAssumptions DEF TypeOK, Row, ReviewRows, PullRecords, ReviewStates
  <2> HIDE DEF row
  <2>4. Gains(p, row)
    BY <1>2, <2>1, <2>2, <2>3 DEF Gains, AppendReview, TypeOK
  <2> QED
    BY <2>3, <2>4
<1>5. ASSUME NEW t \in 1..MaxReviews, DismissOtherReview(p, u, t)
      PROVE  \E row \in ReviewRows : Gains(p, row)
  <2> DEFINE row == Row(p, u, "Dismissed", t, TRUE)
  <2>1. /\ p \in DOMAIN pulls /\ AppendReview(p, row)
        /\ t \in DOMAIN reviews[p]
    BY <1>5 DEF DismissOtherReview
  <2>2. /\ row \in ReviewRows /\ row.target = t /\ row.admin
        /\ row.state = "Dismissed" /\ row.author = u
    BY <2>1, SentinelAssumptions DEF TypeOK, Row, ReviewRows, PullRecords, ReviewStates
  <2>3. \A i \in DOMAIN reviews[p] :
          reviews[p][i].state = "Approved" /\ reviews[p][i].author = row.author
            => i \in WithdrawnVerdicts(reviews[p])
    BY <1>5, <2>2 DEF DismissOtherReview, DismissalAllowed, MayDismissOthers
  <2>4. reviews[p][t].state \in Verdicts
    BY <1>5 DEF DismissOtherReview, DismissalAllowed
  <2>5. Receipt("review_dismissal", "requested", p, row.author) \in audit'
    BY <1>5, <2>2 DEF DismissOtherReview, BestEffort
  <2> HIDE DEF row
  <2>6. Gains(p, row)
    BY <1>2, <2>1, <2>2, <2>3, <2>4, <2>5 DEF Gains, AppendReview, TypeOK
  <2> QED
    BY <2>2, <2>6
<1>6. ASSUME NEW t \in 1..MaxReviews, DismissOtherReviewFails(p, u, t)
      PROVE  UNCHANGED <<reviews, given>>
  BY <1>6 DEF DismissOtherReviewFails
<1> QED
  BY <1>1, <1>3, <1>4, <1>5, <1>6

\* Only review calls write ledgers; receipts are never removed.
LEMMA LedgersStep ==
    ASSUME TypeOK, [Next]_vars
    PROVE  /\ \/ UNCHANGED <<reviews, given>>
              \/ ReviewSteps /\ \E p \in Pulls, row \in ReviewRows : Gains(p, row)
           /\ audit \subseteq audit'
<1>1. CASE ReviewSteps
  <2>1. audit \subseteq audit'
    <3>1. ASSUME NEW p, NEW u, NEW t, DismissOtherReview(p, u, t)
          PROVE  audit \subseteq audit'
      BY <3>1 DEF DismissOtherReview, BestEffort
    <3>2. ASSUME NEW p, NEW u, NEW t, DismissOtherReviewFails(p, u, t)
          PROVE  audit \subseteq audit'
      BY <3>2 DEF DismissOtherReviewFails
    <3>3. ASSUME NEW p, NEW u, NEW t, DismissOwnReview(p, u, t)
          PROVE  audit \subseteq audit'
      BY <3>3 DEF DismissOwnReview
    <3>4. ASSUME NEW p, NEW u, NEW s, CreateReview(p, u, s)
          PROVE  audit \subseteq audit'
      BY <3>4 DEF CreateReview
    <3> QED
      BY <1>1, <3>1, <3>2, <3>3, <3>4 DEF ReviewSteps
  <2> QED
    BY <1>1, <2>1, ReviewsGain
<1>2. CASE MergeSteps
  BY <1>2 DEF MergeSteps, EvaluateMergeReadiness, PrepareMergeOverride, GitMerge,
              ExpirePermit, FinalizeMerge, FinalizeMergeWithOverride, FinalizeEnds
<1>3. CASE EditSteps \/ RefreshSteps
  BY <1>3, EditsKeepTrail DEF RefreshSteps, RefreshHeads
<1>4. CASE ResultSteps \/ PolicySteps
  BY <1>4 DEF ResultSteps, CreateCommitStatus, CreateCheckRun, PolicySteps,
              SetBranchProtection, DeleteBranchProtection, SetCodeowners,
              ChangeAdministrator
<1>5. CASE UNCHANGED vars
  BY <1>5 DEF vars
<1> QED
  BY <1>1, <1>2, <1>3, <1>4, <1>5 DEF Next

-----------------------------------------------------------------------------
(* Invariants of the ledgers *)

\* Every row has the branch it was written for beside it, dismissals name
\* earlier rows, and a pull request that does not exist has no reviews.
LedgerShape ==
    \A p \in Pulls : /\ WellFormed(reviews[p])
                     /\ Len(given[p]) = Len(reviews[p])
                     /\ p \notin DOMAIN pulls => reviews[p] = << >>

\* Whatever head the pull request returns to, an approval that would count
\* there exactly was given for the branch it targets now.
ApprovalsForBase ==
    \A p \in DOMAIN pulls : \A h \in Heads :
        \A i \in Approvals(reviews[p], EffectiveForHead(reviews[p], h)) :
            given[p][i] = pulls[p].baseRef

LedgerInv == FlightsInv /\ LedgerShape /\ DutiesSeparated /\ DismissalReceipted
               /\ ApprovalsForBase

\* Empty ledgers satisfy the invariant.
LEMMA LedgerInit == Init => LedgerInv
<1> SUFFICES ASSUME Init PROVE LedgerInv
  OBVIOUS
<1>1. FlightsInv
  BY TypeInit DEF Init, FlightsInv, FlightsBound, FlightsOnPulls
<1>2. \A p \in Pulls : reviews[p] = << >> /\ given[p] = << >>
  BY DEF Init
<1>3. LedgerShape
  BY <1>2 DEF LedgerShape, WellFormed
<1>4. DutiesSeparated /\ DismissalReceipted
  BY <1>2 DEF DutiesSeparated, DismissalReceipted
<1>5. ApprovalsForBase
  BY DEF Init, ApprovalsForBase
<1> QED
  BY <1>1, <1>3, <1>4, <1>5 DEF LedgerInv

\* Ledgers stay well formed, with one recorded base per row.
LEMMA ShapeStep ==
    ASSUME LedgerInv, [Next]_vars
    PROVE  LedgerShape'
<1>1. TypeOK /\ FlightsInv /\ LedgerShape
  BY DEF LedgerInv, FlightsInv
<1>2. \A q \in DOMAIN pulls : q \in DOMAIN pulls'
  BY <1>1, StepEffects, MergedByType DEF Effect, Calm, Unmoved, MovedBase
<1>3. CASE UNCHANGED <<reviews, given>>
  BY <1>1, <1>2, <1>3 DEF LedgerShape
<1>4. ASSUME NEW p \in Pulls, NEW row \in ReviewRows, Gains(p, row)
      PROVE  LedgerShape'
  <2>1. reviews[p] \in Seq(ReviewRows) /\ given[p] \in Seq(Branches)
    BY <1>1 DEF TypeOK
  <2>2. /\ reviews'[p] = Append(reviews[p], row)
        /\ given'[p] = Append(given[p], pulls[p].baseRef)
        /\ \A q \in Pulls : q # p => reviews'[q] = reviews[q] /\ given'[q] = given[q]
    BY <1>1, <1>4 DEF Gains, TypeOK
  <2>3. WellFormed(reviews'[p])
    BY <1>1, <1>4, <2>1, <2>2, AppendWellFormed DEF Gains, LedgerShape
  <2>4. Len(given'[p]) = Len(reviews'[p])
    BY <1>1, <2>1, <2>2 DEF LedgerShape
  <2>5. p \in DOMAIN pulls'
    BY <1>2, <1>4 DEF Gains
  <2> QED
    BY <1>1, <1>2, <2>2, <2>3, <2>4, <2>5 DEF LedgerShape
<1> QED
  BY <1>1, <1>3, <1>4, LedgersStep

\* record_review's checks keep duties separated and dismissals receipted.
LEMMA DutiesStep ==
    ASSUME LedgerInv, [Next]_vars
    PROVE  DutiesSeparated' /\ DismissalReceipted'
<1>1. TypeOK /\ LedgerShape /\ DutiesSeparated /\ DismissalReceipted
  BY DEF LedgerInv, FlightsInv
<1>2. audit \subseteq audit'
  BY <1>1, LedgersStep
<1>3. CASE UNCHANGED <<reviews, given>>
  BY <1>1, <1>2, <1>3 DEF DutiesSeparated, DismissalReceipted
<1>4. ASSUME NEW p \in Pulls, NEW row \in ReviewRows, Gains(p, row)
      PROVE  DutiesSeparated' /\ DismissalReceipted'
  <2> DEFINE R == reviews[p]
             Q == Append(R, row)
  <2>1. R \in Seq(ReviewRows) /\ WellFormed(R)
    BY <1>1 DEF TypeOK, LedgerShape
  <2>2. /\ reviews'[p] = Q
        /\ \A q \in Pulls : q # p => reviews'[q] = reviews[q]
    BY <1>1, <1>4 DEF Gains, TypeOK
  <2>3. /\ DOMAIN R = 1..Len(R) /\ DOMAIN Q = 1..(Len(R) + 1) /\ Len(R) \in Nat
        /\ \A i \in DOMAIN R : Q[i] = R[i]
        /\ Q[Len(R) + 1] = row
    BY <2>1, AppendRows
  <2>4. WithdrawnVerdicts(R) \subseteq WithdrawnVerdicts(Q)
    BY <2>1, WithdrawnGrows
  <2>5. DismissingAdmins(Q) \subseteq DismissingAdmins(R) \cup
          (IF row.state = "Dismissed" /\ row.admin THEN {row.author} ELSE {})
    BY <2>1, AdminsGrow
  <2> HIDE DEF Q
  <2>6. ASSUME NEW i \in DOMAIN Q, Q[i].state = "Approved",
               Q[i].author \in DismissingAdmins(Q)
        PROVE  i \in WithdrawnVerdicts(Q)
    <3>1. CASE i \in DOMAIN R /\ R[i].author \in DismissingAdmins(R)
      BY <1>1, <2>3, <2>4, <2>6, <3>1 DEF DutiesSeparated
    <3>2. CASE i \in DOMAIN R /\ R[i].author \notin DismissingAdmins(R)
      <4>1. row.admin /\ R[i].author = row.author
        BY <2>3, <2>5, <2>6, <3>2
      <4> QED
        BY <1>4, <2>3, <2>4, <2>6, <3>2, <4>1 DEF Gains
    <3>3. CASE i \notin DOMAIN R
      <4>1. i = Len(R) + 1 /\ row.state = "Approved"
        BY <2>3, <2>6, <3>3
      <4>2. row.author \notin DismissingAdmins(R)
        BY <1>4, <4>1 DEF Gains
      <4> QED
        BY <2>3, <2>5, <2>6, <4>1, <4>2
    <3> QED
      BY <3>1, <3>2, <3>3
  <2>7. DutiesSeparated'
    BY <1>1, <2>2, <2>6 DEF DutiesSeparated
  <2>8. ASSUME NEW d \in DOMAIN Q, IsCrossAuthorDismissal(Q, d)
        PROVE  Receipt("review_dismissal", "requested", p, Q[d].author) \in audit'
    <3>1. CASE d \in DOMAIN R
      <4>1. R[d].target < d /\ R[d].target \in Nat
        BY <2>1, <3>1, RowTypes DEF WellFormed
      <4>2. IsCrossAuthorDismissal(R, d)
        BY <2>3, <2>8, <3>1, <4>1 DEF IsCrossAuthorDismissal
      <4> QED
        BY <1>1, <1>2, <2>3, <3>1, <4>2 DEF DismissalReceipted
    <3>2. CASE d \notin DOMAIN R
      <4>1. d = Len(R) + 1 /\ Q[d] = row
        BY <2>3, <3>2
      <4> QED
        BY <1>4, <2>8, <4>1 DEF IsCrossAuthorDismissal, Gains
    <3> QED
      BY <3>1, <3>2
  <2>9. DismissalReceipted'
    BY <1>1, <1>2, <2>2, <2>8 DEF DismissalReceipted
  <2> QED
    BY <2>7, <2>9
<1> QED
  BY <1>1, <1>3, <1>4, LedgersStep

\* A step that leaves a pull request's ledger alone keeps ApprovalsForBase for
\* it: its branch stays, or no approval stands at any head.
LEMMA BaseStep ==
    ASSUME LedgerInv, [Next]_vars, NEW p \in DOMAIN pulls',
           reviews'[p] = reviews[p], given'[p] = given[p], NEW h \in Heads,
           NEW i \in Approvals(reviews[p], EffectiveForHead(reviews[p], h))
    PROVE  given[p][i] = pulls'[p].baseRef
<1>1. /\ TypeOK /\ LedgerShape /\ ApprovalsForBase /\ TypeOK'
      /\ \A q \in DOMAIN pulls : Effect(q)
  BY StepEffects DEF LedgerInv, FlightsInv
<1>2. p \in Pulls /\ reviews[p] \in Seq(ReviewRows)
  BY <1>1 DEF TypeOK
<1>3. CASE p \notin DOMAIN pulls
  BY <1>1, <1>2, <1>3 DEF LedgerShape, Approvals, EffectiveForHead, Effective
<1>4. CASE p \in DOMAIN pulls /\ pulls'[p].baseRef = pulls[p].baseRef
  BY <1>1, <1>4 DEF ApprovalsForBase
<1>5. CASE p \in DOMAIN pulls /\ ~StandingApproval(reviews[p])
  BY <1>2, <1>5, NoneStanding
<1>6. p \in DOMAIN pulls => \/ pulls'[p].baseRef = pulls[p].baseRef
                           \/ ~StandingApproval(reviews[p])
  BY <1>1, MergedByType DEF Effect, Calm, Unmoved, MovedBase
<1> QED
  BY <1>3, <1>4, <1>5, <1>6

\* No step makes an approval count, at any head, for a base it was not given for.
LEMMA ApprovalsStep ==
    ASSUME LedgerInv, [Next]_vars
    PROVE  ApprovalsForBase'
<1>1. TypeOK /\ LedgerShape /\ ApprovalsForBase /\ TypeOK' /\ FlightsInv
  BY StepEffects DEF LedgerInv, FlightsInv
<1>2. CASE UNCHANGED <<reviews, given>>
  BY <1>2, BaseStep DEF ApprovalsForBase
<1>3. ASSUME NEW p \in Pulls, NEW row \in ReviewRows, Gains(p, row), ReviewSteps
      PROVE  ApprovalsForBase'
  <2> DEFINE R == reviews[p]
             Q == Append(R, row)
  <2>1. R \in Seq(ReviewRows) /\ WellFormed(R) /\ given[p] \in Seq(Branches)
        /\ Len(given[p]) = Len(R) /\ p \in DOMAIN pulls
    BY <1>1, <1>3 DEF TypeOK, LedgerShape, Gains
  <2>2. /\ reviews'[p] = Q
        /\ given'[p] = Append(given[p], pulls[p].baseRef)
        /\ \A q \in Pulls : q # p => reviews'[q] = reviews[q] /\ given'[q] = given[q]
    BY <1>1, <1>3 DEF Gains, TypeOK
  <2>3. pulls'[p].baseRef = pulls[p].baseRef
    <3>1. \A q \in DOMAIN pulls : Unmoved(q)
      <4>1. ASSUME NEW a \in Pulls, NEW u \in Reviewers, NEW t \in 1..MaxReviews,
                   DismissOtherReviewFails(a, u, t)
            PROVE  \A q \in DOMAIN pulls : Unmoved(q)
        BY <4>1 DEF DismissOtherReviewFails, Unmoved
      <4> QED
        BY <1>1, <1>3, <4>1, ReviewType, DismissOwnType, DismissOtherType DEF ReviewSteps
    <3> QED
      BY <2>1, <3>1 DEF Unmoved
  <2>4. /\ DOMAIN R = 1..Len(R) /\ DOMAIN Q = 1..(Len(R) + 1) /\ Len(R) \in Nat
        /\ \A i \in DOMAIN R : Q[i] = R[i]
    BY <2>1, AppendRows
  <2>5. ASSUME NEW h \in Heads, NEW i \in Approvals(Q, EffectiveForHead(Q, h))
        PROVE  given'[p][i] = pulls'[p].baseRef
    <3>1. i \in DOMAIN Q /\ Q[i].state = "Approved"
          /\ i \in Effective(Q, h, NoIds, "ExactHead", NoUser)
      BY DEF Approvals, EffectiveForHead, Effective
    <3>2. CASE i \in DOMAIN R
      <4>1. R[i].state = "Approved"
        BY <2>4, <3>1, <3>2
      <4>2. i \in Effective(R, h, NoIds, "ExactHead", NoUser)
        BY <2>1, <3>1, <3>2, <4>1, ApprovalsNeverReturn
      <4>3. given[p][i] = pulls[p].baseRef
        BY <1>1, <2>1, <4>1, <4>2 DEF ApprovalsForBase, Approvals, EffectiveForHead
      <4>4. given'[p][i] = given[p][i]
        BY <2>1, <2>2, <2>4, <3>2
      <4> QED
        BY <2>3, <4>3, <4>4
    <3>3. CASE i \notin DOMAIN R
      <4>1. i = Len(R) + 1
        BY <2>4, <3>1, <3>3
      <4> QED
        BY <2>1, <2>2, <2>3, <4>1
    <3> QED
      BY <3>2, <3>3
  <2>6. ASSUME NEW q \in DOMAIN pulls', q # p, NEW h \in Heads,
               NEW i \in Approvals(reviews[q], EffectiveForHead(reviews[q], h))
        PROVE  given[q][i] = pulls'[q].baseRef
    <3>1. q \in Pulls /\ reviews'[q] = reviews[q] /\ given'[q] = given[q]
      BY <1>1, <2>2, <2>6 DEF TypeOK
    <3> QED
      BY <2>6, <3>1, BaseStep
  <2> SUFFICES ASSUME NEW q \in DOMAIN pulls', NEW h \in Heads,
                      NEW i \in Approvals(reviews'[q], EffectiveForHead(reviews'[q], h))
               PROVE  given'[q][i] = pulls'[q].baseRef
    BY DEF ApprovalsForBase
  <2>7. CASE q = p
    BY <2>2, <2>5, <2>7
  <2>8. CASE q # p
    <3>1. q \in Pulls /\ reviews'[q] = reviews[q] /\ given'[q] = given[q]
      BY <1>1, <2>2, <2>8 DEF TypeOK
    <3> QED
      BY <2>6, <2>8, <3>1
  <2> QED
    BY <2>7, <2>8
<1> QED
  BY <1>1, <1>2, <1>3, LedgersStep

\* LedgerInv is inductive.
LEMMA LedgerStep == LedgerInv /\ [Next]_vars => LedgerInv'
<1> SUFFICES ASSUME LedgerInv, [Next]_vars PROVE LedgerInv'
  OBVIOUS
<1>1. FlightsInv'
  BY StepEffects DEF LedgerInv
<1> QED
  BY <1>1, ShapeStep, DutiesStep, ApprovalsStep DEF LedgerInv

-----------------------------------------------------------------------------
(* Theorems *)

\* Nobody both withdraws another reviewer's verdict on a pull request and holds
\* an approval there: the checks of record_review and of
\* authorize_cross_author_dismissal, made at different times, suffice together.
THEOREM DutiesAreSeparated == Spec => []DutiesSeparated
BY LedgerInit, LedgerStep, PTL DEF Spec, LedgerInv

\* Every administrator's dismissal rests on a receipt stored before its row.
THEOREM DismissalsAreReceipted == Spec => []DismissalReceipted
BY LedgerInit, LedgerStep, PTL DEF Spec, LedgerInv

\* An approval counted at the exact head was given for the branch the pull
\* request targets now, through any pushes, rewinds, dismissals and retargets.
THEOREM ExactApprovalsAreForThisBase == Spec => []ExactApprovalsJudgedThisBase
<1>1. LedgerInv => ExactApprovalsJudgedThisBase
  <2> SUFFICES ASSUME LedgerInv, NEW p \in DOMAIN pulls,
                      NEW i \in Approvals(reviews[p],
                               EffectiveFor(pulls[p], reviews[p], "ExactHead"))
               PROVE  given[p][i] = pulls[p].baseRef
    BY DEF ExactApprovalsJudgedThisBase
  <2>1. reviews[p] \in Seq(ReviewRows) /\ pulls[p].head \in Heads
    BY DEF LedgerInv, FlightsInv, TypeOK, PullRecords
  <2>2. i \in Approvals(reviews[p], EffectiveForHead(reviews[p], pulls[p].head))
    BY <2>1, ExactHeadApprovals
  <2> QED
    BY <2>1, <2>2 DEF LedgerInv, ApprovalsForBase
<1> QED
  BY <1>1, LedgerInit, LedgerStep, PTL DEF Spec

\* A dismissal, by the author or by an administrator, only ever removes
\* verdicts: at no head, identity or reach does an older one come back.
THEOREM DismissalsNeverRecover == Spec => DismissalNeverRecovers
<1> DEFINE Shrinks ==
      \A p \in DOMAIN pulls :
          LET R == reviews[p]
              Q == reviews'[p]
          IN  Len(Q) > Len(R) /\ Q[Len(Q)].state = "Dismissed" =>
                \A h \in Heads, ids \in Identities, reach \in Reaches :
                    Effective(Q, h, ids, reach, pulls[p].author)
                        \subseteq Effective(R, h, ids, reach, pulls[p].author)
<1>1. LedgerInv /\ [Next]_vars => Shrinks
  <2> SUFFICES ASSUME LedgerInv, [Next]_vars, NEW q \in DOMAIN pulls,
                      Len(reviews'[q]) > Len(reviews[q]),
                      reviews'[q][Len(reviews'[q])].state = "Dismissed",
                      NEW h \in Heads, NEW ids \in Identities, NEW reach \in Reaches
               PROVE  Effective(reviews'[q], h, ids, reach, pulls[q].author)
                        \subseteq Effective(reviews[q], h, ids, reach, pulls[q].author)
    OBVIOUS
  <2>1. TypeOK /\ LedgerShape /\ q \in Pulls
    BY DEF LedgerInv, FlightsInv, TypeOK
  <2>2. reviews[q] \in Seq(ReviewRows) /\ Len(reviews[q]) \in Nat /\ WellFormed(reviews[q])
    BY <2>1 DEF TypeOK, LedgerShape
  <2>3. reviews' # reviews
    BY <2>2
  <2>4. PICK p \in Pulls, row \in ReviewRows : Gains(p, row)
    BY <2>1, <2>3, LedgersStep
  <2>5. q = p /\ reviews'[q] = Append(reviews[q], row)
    BY <2>1, <2>2, <2>4 DEF Gains, TypeOK
  <2>6. row.state = "Dismissed"
    BY <2>2, <2>5, AppendRows
  <2> QED
    BY <2>2, <2>4, <2>5, <2>6, DismissalShrinks DEF Gains
<1> QED
  BY <1>1, LedgerInit, LedgerStep, PTL DEF Spec, DismissalNeverRecovers

\* Neither the ordinary gate nor an override merges over a reviewer's last
\* verdict for the head when that is a rejection nobody dismissed.
THEOREM HoldsAreHonoured == Spec => NoMergeOverHold
<1> DEFINE Held ==
      \A p \in Pulls : Merging(p) =>
          \A u \in Users : \A i \in SpokenVerdicts(p, u) :
              /\ \A j \in SpokenVerdicts(p, u) : j <= i
              /\ reviews[p][i].state = "ChangesRequested"
              => \E d \in DOMAIN reviews[p] : reviews[p][d].target = i
<1>1. LedgerInv /\ [Next]_vars => Held
  <2> SUFFICES ASSUME LedgerInv, [Next]_vars, NEW p \in Pulls, Merging(p),
                      NEW u \in Users, NEW i \in SpokenVerdicts(p, u),
                      \A j \in SpokenVerdicts(p, u) : j <= i,
                      reviews[p][i].state = "ChangesRequested",
                      \A d \in DOMAIN reviews[p] : reviews[p][d].target # i
               PROVE  FALSE
    OBVIOUS
  <2>1. FlightsInv /\ TypeOK /\ p \in DOMAIN pulls /\ WellFormed(reviews[p])
    BY DEF LedgerInv, FlightsInv, LedgerShape, Merging
  <2>2. NoRejection(p)
    BY <2>1, StepEffects DEF Effect, Calm, Unmoved, MovedBase, MergedBy, Merging
  <2>3. reviews[p] \in Seq(ReviewRows)
    BY <2>1 DEF TypeOK
  <2> DEFINE reach == ReachFor(rules[pulls[p].baseRef])
  <2> HIDE DEF reach
  <2>4. i \in Rejections(reviews[p], Effective(reviews[p], pulls[p].head, pulls[p].ids,
                                              reach, pulls[p].author))
    BY <2>1, <2>3, LastRejectionCounts DEF SpokenVerdicts, reach
  <2> QED
    BY <2>2, <2>4 DEF NoRejection, EffectiveFor, reach
<1> QED
  BY <1>1, LedgerInit, LedgerStep, PTL DEF Spec, NoMergeOverHold

-----------------------------------------------------------------------------
(* Which steps merge, close and reopen *)

\* The only steps that merge a pull request are the two finalize calls, for a
\* flight that is about it.
LEMMA MergingStep ==
    ASSUME FlightsInv, [Next]_vars, NEW p \in Pulls, Merging(p)
    PROVE  \E e \in Edges : edge[e].pull = p /\ Finalizes(e)
BY StepEffects DEF Effect, Calm, Unmoved, MovedBase, Merging

\* An evaluation leaves a closed pull request closed.
LEMMA EvaluationKeepsClosed ==
    ASSUME NEW pr \in PullRecords, pr.state = "Closed", NEW R, NEW S, NEW C
    PROVE  Evaluated(pr, R, S, C).state = "Closed"
BY DEF Evaluated, ApplyEvaluation, PullRecords

\* A table whose records are evaluated afresh, or are as they were, has its
\* closed pull requests closed.
LEMMA ShaKeepsClosed ==
    ASSUME TypeOK, NEW h, NEW S, NEW C, pulls' = RefreshForSha(h, S, C),
           NEW p \in DOMAIN pulls, pulls[p].state = "Closed"
    PROVE  pulls'[p].state = "Closed"
BY EvaluationKeepsClosed DEF RefreshForSha, TypeOK

\* Among the calls that change a pull request's data, only an edit reopens it.
LEMMA EditsReopen ==
    ASSUME TypeOK, EditSteps, NEW p \in DOMAIN pulls, pulls[p].state = "Closed",
           pulls'[p].state # "Closed"
    PROVE  \E d \in DraftEdits \cup {Keep}, s \in UpdateStates \cup {Keep} :
              \E r \in Ranges \cup {Keep}, f \in PathSets \cup {Keep} :
                 UpdatePullRequest(p, d, s, r, f)
<1>1. PICK q \in Pulls :
        \/ \E open \in OpenChoices, h \in Heads, b \in Bases, r \in Ranges,
              f \in PathSets : CreatePullRequest(q, open, h, b, r, f)
        \/ \E d \in DraftEdits \cup {Keep}, s \in UpdateStates \cup {Keep},
              r \in Ranges \cup {Keep}, f \in PathSets \cup {Keep} :
                UpdatePullRequest(q, d, s, r, f)
        \/ \E ref \in Branches, b \in Bases, r \in Ranges, f \in PathSets :
                RetargetPullRequest(q, ref, b, r, f)
        \/ \E b \in Bases : RecordPullRequestBase(q, b)
        \/ \E s \in IssueEdits : UpdateIssue(q, s)
  BY DEF EditSteps
<1>2. pulls[p] \in PullRecords
  BY DEF TypeOK
<1>3. ASSUME NEW open, NEW h, NEW b, NEW r, NEW f, CreatePullRequest(q, open, h, b, r, f)
      PROVE  FALSE
  BY <1>3 DEF CreatePullRequest, Put
<1>4. ASSUME NEW d, NEW s, NEW r, NEW f, UpdatePullRequest(q, d, s, r, f)
      PROVE  q = p
  BY <1>4 DEF UpdatePullRequest
<1>5. ASSUME NEW ref, NEW b, NEW r, NEW f, RetargetPullRequest(q, ref, b, r, f)
      PROVE  FALSE
  BY <1>5 DEF RetargetPullRequest, IsOpen
<1>6. ASSUME NEW b, RecordPullRequestBase(q, b)
      PROVE  FALSE
  BY <1>6 DEF RecordPullRequestBase, IsOpen
<1>7. ASSUME NEW s, UpdateIssue(q, s)
      PROVE  FALSE
  BY <1>2, <1>7 DEF UpdateIssue, PullRecords
<1> QED
  BY <1>1, <1>3, <1>4, <1>5, <1>6, <1>7

\* No other step reopens a closed pull request.
LEMMA OthersKeepClosed ==
    ASSUME FlightsInv, [Next]_vars, ~EditSteps, NEW p \in DOMAIN pulls,
           pulls[p].state = "Closed"
    PROVE  pulls'[p].state = "Closed"
<1>1. TypeOK /\ pulls[p] \in PullRecords
  BY DEF FlightsInv, TypeOK
<1>2. CASE RefreshSteps
  <2>1. PICK ref \in Branches, h \in Heads, b \in Bases \cup {NoSha} : RefreshHeads(ref, h, b)
    BY <1>2 DEF RefreshSteps
  <2> QED
    BY <2>1 DEF RefreshHeads, IsOpen
<1>3. CASE ReviewSteps
  <2>1. ASSUME NEW q \in DOMAIN pulls, NEW row, AppendReview(q, row)
        PROVE  pulls'[p].state = "Closed"
    BY <1>1, <2>1, EvaluationKeepsClosed DEF AppendReview
  <2>2. ASSUME NEW q, NEW u, NEW s, CreateReview(q, u, s)
        PROVE  pulls'[p].state = "Closed"
    BY <2>1, <2>2 DEF CreateReview
  <2>3. ASSUME NEW q, NEW u, NEW t, DismissOwnReview(q, u, t)
        PROVE  pulls'[p].state = "Closed"
    BY <2>1, <2>3 DEF DismissOwnReview
  <2>4. ASSUME NEW q, NEW u, NEW t, DismissOtherReview(q, u, t)
        PROVE  pulls'[p].state = "Closed"
    BY <2>1, <2>4 DEF DismissOtherReview
  <2>5. ASSUME NEW q, NEW u, NEW t, DismissOtherReviewFails(q, u, t)
        PROVE  pulls'[p].state = "Closed"
    BY <2>5 DEF DismissOtherReviewFails
  <2> QED
    BY <1>3, <2>2, <2>3, <2>4, <2>5 DEF ReviewSteps
<1>4. CASE ResultSteps
  <2>1. ASSUME NEW h, NEW row, CreateCommitStatus(h, row)
        PROVE  pulls'[p].state = "Closed"
    BY <1>1, <2>1, ShaKeepsClosed DEF CreateCommitStatus
  <2>2. ASSUME NEW row, CreateCheckRun(row)
        PROVE  pulls'[p].state = "Closed"
    BY <1>1, <2>2, ShaKeepsClosed DEF CreateCheckRun
  <2> QED
    BY <1>4, <2>1, <2>2 DEF ResultSteps
<1>5. CASE PolicySteps
  BY <1>1, <1>5, PolicyType
<1>6. CASE MergeSteps
  <2>1. ASSUME NEW e, Finalizes(e)
        PROVE  pulls'[p].state = "Closed"
    BY <2>1 DEF Finalizes, FinalizeMerge, FinalizeMergeWithOverride, SameBase
  <2>2. PICK e \in Edges :
          \/ \E q \in Pulls, r \in Heads \cup {NoSha} : EvaluateMergeReadiness(e, q, r)
          \/ \E q \in Pulls, u \in Users : PrepareMergeOverride(e, q, u)
          \/ GitMerge(e)
          \/ ExpirePermit(e)
          \/ Finalizes(e)
          \/ FinalizeEnds(e)
    BY <1>6 DEF MergeSteps, Finalizes
  <2> QED
    BY <2>1, <2>2 DEF EvaluateMergeReadiness, PrepareMergeOverride, GitMerge,
                      ExpirePermit, FinalizeEnds
<1>7. CASE UNCHANGED vars
  BY <1>7 DEF vars
<1> QED
  BY <1>2, <1>3, <1>4, <1>5, <1>6, <1>7 DEF Next

\* A closed pull request opens again by an explicit edit only, whatever pushes,
\* reviews, results, retargets and merges are tried in the meantime.
THEOREM ClosedStaysClosed == Spec => ClosedUntilEdited
<1> DEFINE Reopened ==
      \A p \in DOMAIN pulls :
          pulls[p].state = "Closed" /\ pulls'[p].state # "Closed" =>
              \E d \in DraftEdits \cup {Keep}, s \in UpdateStates \cup {Keep} :
                 \E r \in Ranges \cup {Keep}, f \in PathSets \cup {Keep} :
                    UpdatePullRequest(p, d, s, r, f)
<1>1. Init => FlightsInv
  BY TypeInit DEF Init, FlightsInv, FlightsBound, FlightsOnPulls
<1>2. FlightsInv /\ [Next]_vars => FlightsInv'
  BY StepEffects
<1>3. FlightsInv /\ [Next]_vars => Reopened
  BY EditsReopen, OthersKeepClosed DEF FlightsInv
<1> QED
  BY <1>1, <1>2, <1>3, PTL DEF Spec, ClosedUntilEdited

-----------------------------------------------------------------------------
(* The audited bypass *)

\* A permit in a caller's hands has its "requested" receipt in the trail.
PermitsReceipted ==
    \A e \in Edges : edge[e] # Idle /\ edge[e].permit # NoPermit =>
        Receipt("merge_override", "requested", edge[e].pull, edge[e].permit.actor) \in audit

BypassInv == FlightsInv /\ PermitsReceipted

\* Only the calls of the two-phase merge touch a caller's flight.
LEMMA OnlyMergesFly ==
    ASSUME TypeOK, [Next]_vars, ~MergeSteps
    PROVE  UNCHANGED edge
<1>1. CASE EditSteps
  <2>1. ASSUME NEW p, NEW open, NEW h, NEW b, NEW r, NEW f, CreatePullRequest(p, open, h, b, r, f)
        PROVE  UNCHANGED edge
    BY <2>1 DEF CreatePullRequest
  <2>2. ASSUME NEW p, NEW d, NEW s, NEW r, NEW f, UpdatePullRequest(p, d, s, r, f)
        PROVE  UNCHANGED edge
    BY <2>2 DEF UpdatePullRequest
  <2>3. ASSUME NEW p, NEW ref, NEW b, NEW r, NEW f, RetargetPullRequest(p, ref, b, r, f)
        PROVE  UNCHANGED edge
    BY <2>3 DEF RetargetPullRequest
  <2>4. ASSUME NEW p, NEW b, RecordPullRequestBase(p, b)
        PROVE  UNCHANGED edge
    BY <2>4 DEF RecordPullRequestBase
  <2>5. ASSUME NEW p, NEW s, UpdateIssue(p, s)
        PROVE  UNCHANGED edge
    BY <2>5 DEF UpdateIssue
  <2> QED
    BY <1>1, <2>1, <2>2, <2>3, <2>4, <2>5 DEF EditSteps
<1>2. CASE RefreshSteps \/ ResultSteps
  BY <1>2 DEF RefreshSteps, RefreshHeads, ResultSteps, CreateCommitStatus, CreateCheckRun
<1>3. CASE ReviewSteps
  BY <1>3 DEF ReviewSteps, CreateReview, DismissOwnReview, DismissOtherReview,
              DismissOtherReviewFails
<1>4. CASE PolicySteps
  BY <1>4, PolicyType
<1>5. CASE UNCHANGED vars
  BY <1>5 DEF vars
<1> QED
  BY <1>1, <1>2, <1>3, <1>4, <1>5 DEF Next

\* No permit is handed out, or survives, without its receipt.
LEMMA BypassStep == BypassInv /\ [Next]_vars => BypassInv'
<1> SUFFICES ASSUME BypassInv, [Next]_vars PROVE BypassInv'
  OBVIOUS
<1>1. FlightsInv /\ TypeOK /\ FlightsInv' /\ audit \subseteq audit'
  BY StepEffects, LedgersStep DEF BypassInv, FlightsInv
<1>2. CASE ~MergeSteps
  <2>1. UNCHANGED edge
    BY <1>1, <1>2, OnlyMergesFly
  <2> QED
    BY <1>1, <2>1 DEF BypassInv, PermitsReceipted
<1>3. ASSUME NEW e \in Edges, NEW f \in Flights \cup {Idle}, edge' = [edge EXCEPT ![e] = f],
             f # Idle /\ f.permit # NoPermit =>
               Receipt("merge_override", "requested", f.pull, f.permit.actor) \in audit'
      PROVE  PermitsReceipted'
  <2>1. edge'[e] = f /\ \A x \in Edges : x # e => edge'[x] = edge[x]
    BY <1>1, <1>3 DEF TypeOK
  <2> QED
    BY <1>1, <1>3, <2>1 DEF BypassInv, PermitsReceipted
<1>4. ASSUME NEW e \in Edges, NEW p \in Pulls, NEW r \in Heads \cup {NoSha},
             EvaluateMergeReadiness(e, p, r)
      PROVE  PermitsReceipted'
  <2> DEFINE f == Flight(p, r, NoPermit)
  <2>1. edge' = [edge EXCEPT ![e] = f] /\ f.permit = NoPermit
    BY <1>4 DEF EvaluateMergeReadiness, Flight
  <2>2. edge'[e] = f
    BY <1>1, <2>1 DEF TypeOK
  <2>3. f \in Flights \cup {Idle}
    BY <1>1, <2>2 DEF FlightsInv, TypeOK
  <2> HIDE DEF f
  <2> QED
    BY <1>3, <2>1, <2>3
<1>5. ASSUME NEW e \in Edges, NEW p \in Pulls, NEW u \in Users, PrepareMergeOverride(e, p, u)
      PROVE  PermitsReceipted'
  <2>1. PICK t : t.actor = u /\ edge' = [edge EXCEPT ![e] = Flight(p, pulls[p].head, t)]
    <3> DEFINE t == [actor |-> u, rule |-> rules[pulls[p].baseRef],
                     rev |-> ruleRev[pulls[p].baseRef],
                     base |-> pulls[p].base, head |-> pulls[p].head,
                     blockers |-> GateNow(p, pulls[p].head),
                     evidence |-> Evidence(pulls[p], statuses[pulls[p].head],
                                           GateNow(p, pulls[p].head)),
                     expired |-> FALSE]
    <3>1. t.actor = u /\ edge' = [edge EXCEPT ![e] = Flight(p, pulls[p].head, t)]
      BY <1>5 DEF PrepareMergeOverride
    <3> QED
      BY <3>1
  <2>2. PICK f : f = Flight(p, pulls[p].head, t)
    OBVIOUS
  <2>3. edge' = [edge EXCEPT ![e] = f] /\ f.permit = t /\ f.pull = p
    BY <2>1, <2>2 DEF Flight
  <2>4. f \in Flights \cup {Idle}
    BY <1>1, <2>3 DEF FlightsInv, TypeOK
  <2>5. Receipt("merge_override", "requested", p, u) \in audit'
    BY <1>5 DEF PrepareMergeOverride
  <2> QED
    BY <1>3, <2>1, <2>3, <2>4, <2>5
<1>6. ASSUME NEW e \in Edges, GitMerge(e)
      PROVE  PermitsReceipted'
  <2>1. PICK f : f = [edge[e] EXCEPT !.git = TRUE]
    OBVIOUS
  <2>2. edge[e] \in Flights /\ edge[e] # Idle /\ edge' = [edge EXCEPT ![e] = f]
    BY <1>1, <1>6, <2>1 DEF GitMerge, TypeOK
  <2>3. f \in Flights /\ f.permit = edge[e].permit /\ f.pull = edge[e].pull
    BY <2>1, <2>2 DEF Flights
  <2> QED
    BY <1>1, <1>3, <2>2, <2>3 DEF BypassInv, PermitsReceipted
<1>7. ASSUME NEW e \in Edges, ExpirePermit(e)
      PROVE  PermitsReceipted'
  <2>1. PICK t : t = [edge[e].permit EXCEPT !.expired = TRUE]
    OBVIOUS
  <2>2. PICK f : f = [edge[e] EXCEPT !.permit = t]
    OBVIOUS
  <2>3. edge[e] \in Flights /\ edge[e] # Idle /\ edge[e].permit \in Permits
    BY <1>1, <1>7 DEF ExpirePermit, TypeOK, Flights
  <2>4. edge' = [edge EXCEPT ![e] = f]
    BY <1>7, <2>1, <2>2 DEF ExpirePermit
  <2>5. t \in Permits /\ t.actor = edge[e].permit.actor
    BY <2>1, <2>3 DEF Permits
  <2>6. f \in Flights /\ f.permit = t /\ f.pull = edge[e].pull
    BY <2>2, <2>3, <2>5 DEF Flights
  <2>7. edge[e].permit # NoPermit
    BY <1>7 DEF ExpirePermit
  <2> QED
    BY <1>1, <1>3, <2>3, <2>4, <2>5, <2>6, <2>7 DEF BypassInv, PermitsReceipted
<1>8. ASSUME NEW e \in Edges, Finalizes(e) \/ FinalizeEnds(e)
      PROVE  PermitsReceipted'
  <2>1. edge' = [edge EXCEPT ![e] = Idle]
    BY <1>8 DEF Finalizes, FinalizeMerge, FinalizeMergeWithOverride, FinalizeEnds
  <2> QED
    BY <1>3, <2>1
<1>9. CASE MergeSteps
  <2>1. PICK e \in Edges :
          \/ \E q \in Pulls, r \in Heads \cup {NoSha} : EvaluateMergeReadiness(e, q, r)
          \/ \E q \in Pulls, u \in Users : PrepareMergeOverride(e, q, u)
          \/ GitMerge(e)
          \/ ExpirePermit(e)
          \/ Finalizes(e)
          \/ FinalizeEnds(e)
    BY <1>9 DEF MergeSteps, Finalizes
  <2>2. PermitsReceipted'
    BY <1>4, <1>5, <1>6, <1>7, <1>8, <2>1
  <2> QED
    BY <1>1, <2>2 DEF BypassInv
<1> QED
  BY <1>2, <1>9

\* No blocker appears because nobody asked for a particular head.
LEMMA GateIgnoringHead ==
    ASSUME NEW p, NEW requested
    PROVE  GateNow(p, NoSha) \subseteq GateNow(p, requested)
BY DEF GateNow, Gate, Blockers, IntrinsicBlockers, If

\* reduce_reviews keeps one row per reviewer.
LEMMA OneRowEach ==
    ASSUME NEW R \in Seq(ReviewRows), NEW h, NEW ids, NEW reach, NEW author,
           NEW i \in Effective(R, h, ids, reach, author),
           NEW j \in Effective(R, h, ids, reach, author),
           R[i].author = R[j].author
    PROVE  i = j
<1>1. i \in Nat /\ j \in Nat
  BY DEF Effective
<1>2. ASSUME NEW a \in Effective(R, h, ids, reach, author),
             NEW b \in Effective(R, h, ids, reach, author),
             R[a].author = R[b].author, b > a
      PROVE  FALSE
  <2>1. Ends(R, b, a, author)
    BY <1>2 DEF Ends, Effective
  <2> QED
    BY <1>2, <2>1 DEF Effective
<1> QED
  BY <1>1, <1>2

\* The approvals an override by u may rest on.
ByOthers(R, eff, u) == { i \in Approvals(R, eff) : R[i].author # u }

\* Counting approvals by others and counting other approvers is the same.
LEMMA ApproversAreCounted ==
    ASSUME NEW R \in Seq(ReviewRows), NEW pr, NEW reach, NEW u,
           NEW eff, eff = EffectiveFor(pr, R, reach)
    PROVE  Cardinality(Approvers(R, eff) \ {u})
             = Cardinality(ByOthers(R, eff, u))
<1> DEFINE I == ByOthers(R, eff, u)
           A == Approvers(R, eff) \ {u}
           g == [i \in I |-> R[i].author]
<1>1. I \subseteq 1..Len(R) /\ Len(R) \in Nat
  BY DEF ByOthers, Approvals, EffectiveFor, Effective
<1>2. IsFiniteSet(I)
  <2> HIDE DEF I
  <2>1. IsFiniteSet(1..Len(R)) /\ I \in SUBSET (1..Len(R))
    BY <1>1, FS_Interval
  <2> QED
    BY <2>1, FS_Subset
<1>3. \A i, j \in I : g[i] = g[j] => i = j
  BY OneRowEach DEF ByOthers, Approvals, EffectiveFor
<1>4. g \in [I -> A]
  BY DEF ByOthers, Approvers
<1>5. \A a \in A : \E i \in I : g[i] = a
  BY DEF ByOthers, Approvers
<1>6. g \in Bijection(I, A)
  BY <1>3, <1>4, <1>5 DEF Bijection, Injection, Surjection, IsInjective
<1>7. ExistsBijection(I, A)
  BY <1>6 DEF ExistsBijection
<1> HIDE DEF I, A
<1>8. Cardinality(A) = Cardinality(I)
  BY <1>2, <1>7, FS_Bijection
<1> QED
  BY <1>8 DEF I, A

\* A merge that the ordinary gate refuses is the completion of an audited
\* decision by an administrator who neither wrote the change nor posted the
\* results it sets aside, and with enough approvals by others.
THEOREM BypassesAreAudited == Spec => OnlyAuditedBypass
<1> DEFINE Decided(p) ==
      \E u \in admins :
         /\ Receipt("merge_override", "requested", p, u) \in audit
         /\ Receipt("merge_override", "completed", p, u) \in audit'
         /\ u # pulls[p].author
         /\ Cardinality(Approvers(reviews[p],
                 EffectiveFor(pulls[p], reviews[p],
                              ReachFor(rules[pulls[p].baseRef]))) \ {u})
              >= rules[pulls[p].baseRef].approvals
         /\ \A b \in GateNow(p, NoSha) :
               /\ b.kind = "FailedStatusCheck"
               /\ \E i \in DOMAIN statuses[pulls[p].head] :
                     LET row == statuses[pulls[p].head][i]
                     IN  row.context = b.context /\ row.creator # u
                           /\ row.state \in {"failure", "error"}
<1>1. Init => BypassInv
  BY TypeInit DEF Init, BypassInv, FlightsInv, FlightsBound, FlightsOnPulls, PermitsReceipted
<1>2. BypassInv /\ [Next]_vars =>
        \A p \in Pulls : Merging(p) /\ GateNow(p, NoSha) # {} => Decided(p)
  <2> SUFFICES ASSUME BypassInv, [Next]_vars, NEW p \in Pulls, Merging(p),
                      GateNow(p, NoSha) # {}
               PROVE  Decided(p)
    OBVIOUS
  <2>1. PICK e \in Edges : edge[e].pull = p /\ Finalizes(e)
    BY MergingStep DEF BypassInv
  <2>2. ~FinalizeMerge(e)
    BY <2>1, GateIgnoringHead DEF FinalizeMerge
  <2>3. FinalizeMergeWithOverride(e)
    BY <2>1, <2>2 DEF Finalizes
  <2> DEFINE u == edge[e].permit.actor
             S == statuses[pulls[p].head]
             rule == rules[pulls[p].baseRef]
             now == GateNow(p, edge[e].permit.head)
  <2>4. /\ OverrideAllowed(pulls[p], rule, reviews[p], admins, u)
        /\ OverridableOnly(pulls[p], rule, S, runs, u, now)
    BY <2>1, <2>3 DEF FinalizeMergeWithOverride, PermitHolds
  <2>5. /\ Receipt("merge_override", "requested", p, u) \in audit
        /\ Receipt("merge_override", "completed", p, u) \in audit'
    BY <2>1, <2>3 DEF FinalizeMergeWithOverride, BypassInv, PermitsReceipted
  <2>6. u \in admins /\ u # pulls[p].author
    BY <2>4 DEF OverrideAllowed
  <2>7. reviews[p] \in Seq(ReviewRows)
    BY DEF BypassInv, FlightsInv, TypeOK
  <2> DEFINE eff == EffectiveFor(pulls[p], reviews[p], ReachFor(rule))
  <2>8. Cardinality(Approvers(reviews[p], eff) \ {u}) >= rule.approvals
    <3>1. Cardinality(ByOthers(reviews[p], eff, u)) >= rule.approvals
      BY <2>4 DEF OverrideAllowed, ByOthers
    <3>2. Cardinality(Approvers(reviews[p], eff) \ {u})
            = Cardinality(ByOthers(reviews[p], eff, u))
      BY <2>7, ApproversAreCounted
    <3> QED
      BY <3>1, <3>2
  <2>9. ASSUME NEW b \in GateNow(p, NoSha)
        PROVE  /\ b.kind = "FailedStatusCheck"
               /\ \E i \in DOMAIN S : S[i].context = b.context /\ S[i].creator # u
                                        /\ S[i].state \in {"failure", "error"}
    <3>1. OverridableRow(pulls[p], rule, S, runs, u, b)
      BY <2>4, <2>9, GateIgnoringHead DEF OverridableOnly
    <3> QED
      BY <3>1 DEF OverridableRow, CurrentStatus, Answering
  <2> QED
    BY <2>5, <2>6, <2>8, <2>9
<1> QED
  BY <1>1, <1>2, BypassStep, PTL DEF Spec, OnlyAuditedBypass

-----------------------------------------------------------------------------
(* The newest answer *)

\* Every inhabited set of natural numbers has a least one.
LEMMA LeastNumber ==
    ASSUME NEW T, T \subseteq Nat, T # {}
    PROVE  \E x \in T : \A y \in T : x <= y
<1> DEFINE Smaller == { ss \in Nat \X Nat : ss[1] < ss[2] }
<1>1. IsWellFoundedOn(Smaller, Nat)
  BY NatLessThanWellFounded, Zenon DEF OpToRel
<1>2. PICK x \in T : \A y \in T : ~ (<<y, x>> \in Smaller)
  BY <1>1, WFMin
<1>3. ASSUME NEW y \in T, y < x
      PROVE  FALSE
  <2>1. PICK pair : pair = <<y, x>>
    OBVIOUS
  <2>2. pair \in Nat \X Nat /\ pair[1] < pair[2]
    BY <1>3, <2>1
  <2> QED
    BY <1>2, <2>1, <2>2
<1> QED
  BY <1>3

\* i is the newest of B by time, the last of equally old ones.
Newest(time, B, i) ==
    i \in B /\ \A j \in B : time[j] < time[i] \/ (time[j] = time[i] /\ j <= i)

\* Among some of finitely many rows there is a newest.
LEMMA NewestExists ==
    ASSUME NEW n \in Nat, NEW time \in [1..n -> Nat], NEW B \in SUBSET (1..n), B # {}
    PROVE  \E i \in B : Newest(time, B, i)
<1> DEFINE Without(A) == A # {} /\ \A i \in A : ~Newest(time, A, i)
           Bad == { m \in Nat : \E A \in SUBSET (1..n) : A \subseteq 1..m /\ Without(A) }
<1> SUFFICES ASSUME \A i \in B : ~Newest(time, B, i) PROVE FALSE
  OBVIOUS
<1>1. n \in Bad
  OBVIOUS
<1>2. PICK m \in Bad : \A k \in Bad : m <= k
  <2> HIDE DEF Bad
  <2>1. Bad \subseteq Nat
    BY DEF Bad
  <2> QED
    BY <1>1, <2>1, LeastNumber
<1>3. PICK A \in SUBSET (1..n) : A \subseteq 1..m /\ Without(A)
  OBVIOUS
<1>4. m \in Nat /\ m # 0
  <2>1. PICK a \in A : a \in 1..m
    BY <1>3
  <2> QED
    BY <2>1
<1>5. ASSUME NEW C \in SUBSET (1..n), C \subseteq 1..(m - 1)
      PROVE  ~Without(C)
  <2> SUFFICES ASSUME Without(C) PROVE FALSE
    OBVIOUS
  <2>1. m - 1 \in Nat
    BY <1>4
  <2> HIDE DEF Without
  <2>2. m - 1 \in Bad
    BY <1>5, <2>1
  <2> HIDE DEF Bad
  <2> QED
    BY <1>2, <1>4, <2>2
<1> HIDE DEF Bad
<1>6. m \in A
  <2>1. m \notin A => A \subseteq 1..(m - 1)
    BY <1>3, <1>4
  <2> QED
    BY <1>3, <1>5, <2>1
<1> DEFINE C == A \ {m}
<1>7. C \in SUBSET (1..n) /\ C \subseteq 1..(m - 1)
  BY <1>3, <1>4
<1>8. CASE C = {}
  <2>1. Newest(time, A, m)
    BY <1>4, <1>6, <1>8 DEF Newest
  <2> QED
    BY <1>3, <1>6, <2>1
<1>9. CASE C # {}
  <2>1. PICK i \in C : Newest(time, C, i)
    BY <1>5, <1>7, <1>9
  <2>2. i \in A /\ i < m /\ time[i] \in Nat /\ time[m] \in Nat
    BY <1>3, <1>4, <1>6, <1>7
  <2>3. \A j \in A : j # m => j \in C /\ time[j] \in Nat /\ j \in Nat /\ j < m
    BY <1>3, <1>4, <1>7
  <2>4. time[m] >= time[i] => Newest(time, A, m)
    BY <1>4, <1>6, <2>1, <2>2, <2>3 DEF Newest
  <2>5. time[m] < time[i] => Newest(time, A, i)
    BY <1>4, <1>6, <2>1, <2>2, <2>3 DEF Newest
  <2> QED
    BY <1>3, <1>6, <2>2, <2>4, <2>5
<1> QED
  BY <1>8, <1>9

\* The rows of a list of statuses have natural times and a state of the four.
LEMMA StatusTypes ==
    ASSUME NEW S \in Seq(StatusRows)
    PROVE  /\ Len(S) \in Nat /\ DOMAIN S = 1..Len(S)
           /\ \A i \in DOMAIN S : S[i].at \in Nat /\ S[i].state \in StatusStates
<1>1. \A i \in DOMAIN S : S[i] \in StatusRows
  OBVIOUS
<1> QED
  BY <1>1, SentinelAssumptions

\* current_status_for_base: one row, as soon as any row answers.
LEMMA OneCurrentRow ==
    ASSUME NEW S \in Seq(StatusRows), NEW c, NEW base, Answering(S, c, base) # {}
    PROVE  \E i \in Answering(S, c, base) : CurrentStatus(S, c, base) = {i}
<1> DEFINE A == Answering(S, c, base)
           time == [i \in 1..Len(S) |-> S[i].at]
<1>1. A \in SUBSET (1..Len(S)) /\ time \in [1..Len(S) -> Nat] /\ Len(S) \in Nat
  BY StatusTypes DEF Answering
<1>2. PICK i \in A : Newest(time, A, i)
  <2> HIDE DEF A, time
  <2> QED
    BY <1>1, NewestExists DEF A
<1>3. \A j \in A : time[j] = S[j].at /\ S[j].at \in Nat /\ j \in Nat
  BY <1>1, StatusTypes
<1> HIDE DEF A, time
<1>4. i \in CurrentStatus(S, c, base)
  BY <1>2, <1>3 DEF Newest, CurrentStatus, A
<1>5. \A j \in CurrentStatus(S, c, base) : j = i
  <2> SUFFICES ASSUME NEW j \in CurrentStatus(S, c, base) PROVE j = i
    OBVIOUS
  <2>1. j \in A /\ (S[i].at < S[j].at \/ (S[i].at = S[j].at /\ i <= j))
    BY <1>2 DEF CurrentStatus, A
  <2>2. S[j].at < S[i].at \/ (S[j].at = S[i].at /\ j <= i)
    BY <1>2, <1>3, <2>1 DEF Newest
  <2> QED
    BY <1>2, <1>3, <2>1, <2>2
<1> QED
  BY <1>2, <1>4, <1>5 DEF A

\* CheckRun::newest exists as soon as the head has a run of the context.
LEMMA LastRun ==
    ASSUME NEW C \in Seq(RunRows), NEW head, NEW c, RunsOf(C, head, c) # {}
    PROVE  \E i \in RunsOf(C, head, c) : \A j \in RunsOf(C, head, c) : j <= i
<1> DEFINE A == RunsOf(C, head, c)
           time == [i \in 1..Len(C) |-> 0]
<1>1. A \in SUBSET (1..Len(C)) /\ time \in [1..Len(C) -> Nat] /\ Len(C) \in Nat
  BY DEF RunsOf
<1>2. PICK i \in A : Newest(time, A, i)
  <2> HIDE DEF A, time
  <2> QED
    BY <1>1, NewestExists DEF A
<1>3. \A j \in A : time[j] = 0
  BY <1>1
<1> HIDE DEF A, time
<1>4. \A j \in A : j <= i
  BY <1>2, <1>3 DEF Newest
<1> QED
  BY <1>2, <1>4 DEF A

-----------------------------------------------------------------------------
(* What the gate takes for an answer *)

\* Row i is the one the gate reads for a context; no row is; a check run stands in.
IsCurrent(S, c, base, i) == CurrentStatus(S, c, base) = {i}
Unanswered(S, c, base) == Answering(S, c, base) = {}
RunStandsIn(S, C, c, head) ==
    /\ \A i \in DOMAIN S : S[i].context # c
    /\ \E i \in RunsOf(C, head, c) :
          /\ \A j \in RunsOf(C, head, c) : j <= i
          /\ C[i].status = "Completed" /\ C[i].conclusion = "success"

\* A context some status answers is satisfied when its current row succeeded.
LEMMA AnsweredContext ==
    ASSUME NEW S, NEW C, NEW c, NEW head, NEW base, NEW i,
           IsCurrent(S, c, base, i)
    PROVE  RequiredContextState(c, S, C, head, base) = "Satisfied" <=> S[i].state = "success"
BY DEF RequiredContextState, IsCurrent

\* A context no status answers is satisfied when none is pinned to another base
\* and the last check run of the head completed with success.
LEMMA UnansweredContext ==
    ASSUME NEW S, NEW C \in Seq(RunRows), NEW c, NEW head, NEW base,
           Unanswered(S, c, base)
    PROVE  RequiredContextState(c, S, C, head, base) = "Satisfied" <=> RunStandsIn(S, C, c, head)
<1> DEFINE own == RunsOf(C, head, c)
           last == CHOOSE i \in own : \A j \in own : j <= i
<1>1. CurrentStatus(S, c, base) = {}
  BY DEF CurrentStatus, Unanswered
<1>2. (\A i \in DOMAIN S : S[i].context = c => S[i].base # AnyBase)
  BY DEF Answering, Unanswered
<1>3. own # {} => last \in own /\ \A j \in own : j <= last
  <2> SUFFICES ASSUME own # {} PROVE last \in own /\ \A j \in own : j <= last
    OBVIOUS
  <2>1. \E i \in own : \A j \in own : j <= i
    BY LastRun
  <2> HIDE DEF own
  <2> QED
    BY <2>1
<1>4. own \subseteq Nat
  BY DEF RunsOf
<1>5. \A i \in own : (\A j \in own : j <= i) => i = last
  BY <1>3, <1>4
<1>6. RequiredContextState(c, S, C, head, base) = "Satisfied" <=>
        /\ \A i \in DOMAIN S : S[i].context # c
        /\ own # {}
        /\ C[last].status = "Completed" /\ C[last].conclusion = "success"
  <2> HIDE DEF own, last
  <2>1. RequiredContextState(c, S, C, head, base) =
          IF \E i \in DOMAIN S : S[i].context = c /\ S[i].base # AnyBase
            THEN "Missing"
          ELSE IF own = {} THEN "Missing"
          ELSE IF C[last].status = "Completed" /\ C[last].conclusion = "success"
            THEN "Satisfied"
          ELSE "Failed"
    BY <1>1 DEF RequiredContextState, own, last
  <2> QED
    BY <1>2, <2>1
<1> HIDE DEF own, last
<1> QED
  BY <1>3, <1>5, <1>6 DEF own, RunStandsIn

\* Rollup shows success for some rows, all of which succeeded.
LEMMA RollupSuccess ==
    ASSUME NEW states \in SUBSET StatusStates
    PROVE  Rollup(states) = "success" <=> states # {} /\ \A x \in states : x = "success"
BY DEF Rollup, StatusStates

\* The contexts some status answers for a merge into `base`.
AnsweredContexts(S, base) ==
    { S[i].context : i \in { k \in DOMAIN S : S[k].base \in {AnyBase, base} } }

\* combined_status_for_base agrees with the gate, context by context.
LEMMA PageAgrees ==
    ASSUME NEW S \in Seq(StatusRows), NEW C, NEW head, NEW base
    PROVE  CombinedStatusForBase(S, base) = "success" <=>
             /\ AnsweredContexts(S, base) # {}
             /\ \A c \in AnsweredContexts(S, base) :
                   RequiredContextState(c, S, C, head, base) = "Satisfied"
<1> DEFINE answered == AnsweredContexts(S, base)
           Rows == UNION { CurrentStatus(S, S[k].context, base) : k \in DOMAIN S }
           states == { S[i].state : i \in Rows }
<1>1. Rows \subseteq DOMAIN S
  BY DEF CurrentStatus, Answering
<1>2. states \in SUBSET StatusStates
  BY <1>1, StatusTypes
<1>3. CombinedStatusForBase(S, base) = Rollup(states)
  BY DEF CombinedStatusForBase
<1>4. ASSUME NEW c \in answered
      PROVE  \E i \in Rows : IsCurrent(S, c, base, i)
  <2>1. PICK k \in DOMAIN S : S[k].context = c /\ k \in Answering(S, c, base)
    BY DEF AnsweredContexts, Answering
  <2>2. PICK i \in Answering(S, c, base) : CurrentStatus(S, c, base) = {i}
    BY <2>1, OneCurrentRow
  <2> QED
    BY <2>1, <2>2 DEF IsCurrent
<1>5. ASSUME NEW i \in Rows
      PROVE  \E c \in answered : i \in CurrentStatus(S, c, base)
  <2>1. PICK k \in DOMAIN S : i \in CurrentStatus(S, S[k].context, base)
    OBVIOUS
  <2>2. i \in DOMAIN S /\ S[i].context = S[k].context /\ S[i].base \in {AnyBase, base}
    BY <2>1 DEF CurrentStatus, Answering
  <2> QED
    BY <2>1, <2>2 DEF AnsweredContexts
<1> HIDE DEF answered, Rows
<1>6. states # {} <=> answered # {}
  BY <1>4, <1>5
<1>7. (\A x \in states : x = "success") <=>
        \A c \in answered : RequiredContextState(c, S, C, head, base) = "Satisfied"
  <2>1. (\A x \in states : x = "success") <=> \A i \in Rows : S[i].state = "success"
    OBVIOUS
  <2>2. ASSUME \A i \in Rows : S[i].state = "success", NEW c \in answered
        PROVE  RequiredContextState(c, S, C, head, base) = "Satisfied"
    BY <1>4, <2>2, AnsweredContext
  <2>3. ASSUME \A c \in answered : RequiredContextState(c, S, C, head, base) = "Satisfied",
               NEW i \in Rows
        PROVE  S[i].state = "success"
    <3>1. PICK c \in answered : i \in CurrentStatus(S, c, base)
      BY <1>5
    <3>2. IsCurrent(S, c, base, i)
      BY <1>4, <3>1 DEF IsCurrent
    <3>3. RequiredContextState(c, S, C, head, base) = "Satisfied"
      BY <2>3
    <3> QED
      BY <3>2, <3>3, AnsweredContext
  <2> QED
    BY <2>1, <2>2, <2>3
<1> HIDE DEF states
<1> QED
  BY <1>2, <1>3, <1>6, <1>7, RollupSuccess DEF answered

\* Where no status states a base the page without bases shows the same.
LEMMA PagesAgree ==
    ASSUME NEW S \in Seq(StatusRows), NEW base, \A i \in DOMAIN S : S[i].base = AnyBase
    PROVE  CombinedStatus(S) = CombinedStatusForBase(S, base)
<1> DEFINE newer(j, i) == /\ S[j].context = S[i].context
                          /\ S[j].at > S[i].at \/ (S[j].at = S[i].at /\ j > i)
           Tops == { k \in DOMAIN S : \A j \in DOMAIN S : ~newer(j, k) }
           Rows == UNION { CurrentStatus(S, S[k].context, base) : k \in DOMAIN S }
<1>1. \A c : Answering(S, c, base) = { i \in DOMAIN S : S[i].context = c }
  BY DEF Answering
<1>2. \A i \in DOMAIN S : i \in Nat /\ S[i].at \in Nat
  BY StatusTypes
<1>3. \A i, j \in DOMAIN S : S[j].context = S[i].context =>
         (~newer(j, i) <=> S[j].at < S[i].at \/ (S[j].at = S[i].at /\ j <= i))
  BY <1>2
<1>4. ASSUME NEW k \in DOMAIN S
      PROVE  k \in Tops <=> k \in CurrentStatus(S, S[k].context, base)
  BY <1>1, <1>3 DEF CurrentStatus
<1>5. ASSUME NEW i \in Rows
      PROVE  i \in DOMAIN S /\ i \in CurrentStatus(S, S[i].context, base)
  <2>1. PICK k \in DOMAIN S : i \in CurrentStatus(S, S[k].context, base)
    OBVIOUS
  <2>2. i \in DOMAIN S /\ S[i].context = S[k].context
    BY <2>1 DEF CurrentStatus, Answering
  <2> QED
    BY <2>1, <2>2
<1>6. Tops = Rows
  <2>1. Tops \subseteq Rows
    BY <1>4
  <2>2. Rows \subseteq Tops
    BY <1>4, <1>5
  <2> QED
    BY <2>1, <2>2
<1>7. CombinedStatus(S) = Rollup({ S[i].state : i \in Tops })
  BY DEF CombinedStatus
<1>8. CombinedStatusForBase(S, base) = Rollup({ S[i].state : i \in Rows })
  BY DEF CombinedStatusForBase
<1> HIDE DEF Tops, Rows
<1> QED
  BY <1>6, <1>7, <1>8

\* Under a suite that succeeded, a context that has runs and no status is satisfied.
LEMMA SuiteAgrees ==
    ASSUME NEW S, NEW C \in Seq(RunRows), NEW head, NEW base,
           CheckSuite(C, head).conclusion = "success",
           NEW i \in DOMAIN C, C[i].head = head,
           \A k \in DOMAIN S : S[k].context # C[i].context
    PROVE  RequiredContextState(C[i].context, S, C, head, base) = "Satisfied"
<1> DEFINE own == { C[k] : k \in { j \in DOMAIN C : C[j].head = head } }
           done == \A r \in own : r.status = "Completed"
<1>1. (IF ~done THEN "none"
       ELSE IF \A r \in own : r.conclusion = "success" THEN "success" ELSE "failure")
         = "success"
  BY DEF CheckSuite
<1>2. \A r \in own : r.status = "Completed" /\ r.conclusion = "success"
  BY <1>1
<1>3. \A k \in DOMAIN C : C[k].head = head =>
         C[k].status = "Completed" /\ C[k].conclusion = "success"
  BY <1>2
<1>4. PICK c : c = C[i].context
  OBVIOUS
<1>5. i \in RunsOf(C, head, c) /\ \A k \in DOMAIN S : S[k].context # c
  BY <1>4 DEF RunsOf
<1>6. Unanswered(S, c, base)
  BY <1>5 DEF Unanswered, Answering
<1>7. PICK l \in RunsOf(C, head, c) : \A j \in RunsOf(C, head, c) : j <= l
  BY <1>5, LastRun
<1>8. C[l].status = "Completed" /\ C[l].conclusion = "success"
  BY <1>3, <1>7 DEF RunsOf
<1>9. RunStandsIn(S, C, c, head)
  BY <1>5, <1>7, <1>8 DEF RunStandsIn
<1>10. RequiredContextState(c, S, C, head, base) = "Satisfied"
  BY <1>6, <1>9, UnansweredContext
<1> QED
  BY <1>4, <1>10

\* A merge without a completed override receipt went through the gate, and what
\* the gate took for proof answers for the base it went into, with nothing
\* newer against it; the pages that show statuses say the same.
THEOREM ProofsAnswerThisBase == Spec => ProofAnswersThisBase
<1> DEFINE Proven(p) ==
      LET pr   == pulls[p]
          S    == statuses[pr.head]
          rule == rules[pr.baseRef]
      IN  rule # NoRule =>
            /\ ShownAgreesWithGate(S, pr.head, pr.baseRef)
            /\ \A c \in rule.checks :
              \/ \E i \in Answering(S, c, pr.baseRef) :
                    /\ S[i].state = "success"
                    /\ \A j \in Answering(S, c, pr.baseRef) : S[j].at <= S[i].at
              \/ /\ \A i \in DOMAIN S : S[i].context # c
                 /\ \E i \in RunsOf(runs, pr.head, c) :
                       runs[i].conclusion = "success"
           Plain(p) == Merging(p) /\ \A u \in Users :
                         Receipt("merge_override", "completed", p, u) \notin audit'
<1>1. Init => FlightsInv
  BY TypeInit DEF Init, FlightsInv, FlightsBound, FlightsOnPulls
<1>2. FlightsInv /\ [Next]_vars => FlightsInv'
  BY StepEffects
<1>3. FlightsInv /\ [Next]_vars => \A p \in Pulls : Plain(p) => Proven(p)
  <2> SUFFICES ASSUME FlightsInv, [Next]_vars, NEW p \in Pulls, Plain(p),
                      rules[pulls[p].baseRef] # NoRule
               PROVE  Proven(p)
    OBVIOUS
  <2>1. PICK e \in Edges : edge[e].pull = p /\ Finalizes(e)
    BY MergingStep
  <2>2. ~FinalizeMergeWithOverride(e)
    <3> SUFFICES ASSUME FinalizeMergeWithOverride(e) PROVE FALSE
      OBVIOUS
    <3>1. edge[e].permit.actor \in Users
      BY DEF FinalizeMergeWithOverride, FlightsInv, TypeOK, Flights, Permits
    <3>2. Receipt("merge_override", "completed", p, edge[e].permit.actor) \in audit'
      BY <2>1 DEF FinalizeMergeWithOverride
    <3> QED
      BY <3>1, <3>2
  <2>3. GateNow(p, edge[e].requested) = {}
    BY <2>1, <2>2 DEF Finalizes, FinalizeMerge
  <2>4. PICK S, head, base, rule : /\ S = statuses[pulls[p].head] /\ head = pulls[p].head
                                   /\ base = pulls[p].baseRef
                                   /\ rule = rules[pulls[p].baseRef]
    OBVIOUS
  <2>5. S \in Seq(StatusRows) /\ runs \in Seq(RunRows)
    BY <2>4 DEF FlightsInv, TypeOK, PullRecords, Merging
  <2>6. \A c \in rule.checks : RequiredContextState(c, S, runs, head, base) = "Satisfied"
    <3>1. ContextBlockers(pulls[p], rule, S, runs) = {}
      BY <2>3, <2>4 DEF GateNow, Gate, Blockers, RuleBlockers
    <3> QED
      BY <2>4, <3>1 DEF ContextBlockers
  <2>7. ShownAgreesWithGate(S, head, base)
    <3>1. PICK C : C = runs
      OBVIOUS
    <3>2. ASSUME CheckSuite(C, head).conclusion = "success", NEW i \in DOMAIN C,
                 C[i].head = head, \A k \in DOMAIN S : S[k].context # C[i].context
          PROVE  RequiredContextState(C[i].context, S, C, head, base) = "Satisfied"
      BY <2>5, <3>1, <3>2, SuiteAgrees
    <3>3. (\A i \in DOMAIN S : S[i].base = AnyBase) =>
            CombinedStatus(S) = CombinedStatusForBase(S, base)
      BY <2>5, PagesAgree
    <3>4. CombinedStatusForBase(S, base) = "success" <=>
            /\ AnsweredContexts(S, base) # {}
            /\ \A c \in AnsweredContexts(S, base) :
                  RequiredContextState(c, S, C, head, base) = "Satisfied"
      BY <2>5, PageAgrees
    <3> QED
      BY <3>1, <3>2, <3>3, <3>4 DEF ShownAgreesWithGate, AnsweredContexts
  <2>8. ASSUME NEW c \in rule.checks
        PROVE  \/ \E i \in Answering(S, c, base) :
                     /\ S[i].state = "success"
                     /\ \A j \in Answering(S, c, base) : S[j].at <= S[i].at
               \/ /\ \A i \in DOMAIN S : S[i].context # c
                  /\ \E i \in RunsOf(runs, head, c) : runs[i].conclusion = "success"
    <3>1. CASE Unanswered(S, c, base)
      BY <2>5, <2>6, <3>1, UnansweredContext DEF RunStandsIn
    <3>2. CASE ~Unanswered(S, c, base)
      <4>1. PICK i \in Answering(S, c, base) : CurrentStatus(S, c, base) = {i}
        BY <2>5, <3>2, OneCurrentRow DEF Unanswered
      <4>2. S[i].state = "success"
        <5>1. RequiredContextState(c, S, runs, head, base) = "Satisfied"
          BY <2>6
        <5> QED
          BY <4>1, <5>1, AnsweredContext DEF IsCurrent
      <4>3. \A j \in Answering(S, c, base) : S[j].at \in Nat /\ S[i].at \in Nat
        BY <2>5, <4>1, StatusTypes DEF Answering
      <4>4. \A j \in Answering(S, c, base) :
               S[j].at < S[i].at \/ (S[j].at = S[i].at /\ j <= i)
        BY <4>1 DEF CurrentStatus
      <4> QED
        BY <4>1, <4>2, <4>3, <4>4
    <3> QED
      BY <3>1, <3>2
  <2> QED
    BY <2>4, <2>7, <2>8
<1> QED
  BY <1>1, <1>2, <1>3, PTL DEF Spec, ProofAnswersThisBase

-----------------------------------------------------------------------------
(* Where a change goes and the proof it owes: ChangeRouting.  The loop over    *)
(* the open pull requests holds, after each, the one that supersedes all those *)
(* looked at; that order is total, so the last holder is the only choice.      *)

Finished ==
    IF best = 0 THEN CreateNew
    ELSE [pr |-> openPrs[best].number,
          to |-> IF openPrs[best].base # change.base \/ ~openPrs[best].proved THEN "refused" ELSE "existing"]

RoutingInv ==
    /\ change \in [files : Touched, base : {"base"}] /\ openPrs \in Lists
    /\ scored \in 0 .. Len(openPrs) /\ best \in 0 .. scored
    /\ best # 0 => MeetsThreshold(Score(best))
    /\ \A i \in 1 .. scored : MeetsThreshold(Score(i)) => best # 0 /\ Supersedes(best, i)
    /\ decision # Undecided => scored = Len(openPrs) /\ decision = Finished

\* The open pull requests, each with a number of its own.
LEMMA OpenPrFacts ==
    ASSUME openPrs \in Lists
    PROVE  /\ Len(openPrs) \in Nat /\ DOMAIN openPrs = 1 .. Len(openPrs)
           /\ \A i \in 1 .. Len(openPrs) : openPrs[i] \in OpenPr /\ openPrs[i].number \in Nat
           /\ \A i, j \in 1 .. Len(openPrs) : openPrs[i].number = openPrs[j].number => i = j
<1>1. PICK n \in 0 .. MaxOpen : openPrs \in [1 .. n -> OpenPr]
  BY DEF Lists
<1>2. n \in Nat /\ Len(openPrs) = n /\ DOMAIN openPrs = 1 .. n
  BY <1>1, ChangeRoutingAssumption
<1>3. \A i, j \in DOMAIN openPrs : openPrs[i].number = openPrs[j].number => i = j
  BY DEF Lists
<1>4. \A pr \in OpenPr : pr.number \in Nat
  BY ChangeRoutingAssumption DEF OpenPr
<1> QED
  BY <1>1, <1>2, <1>3, <1>4

\* A score is a fraction.
LEMMA ScoresAreFractions ==
    ASSUME change \in [files : Touched, base : {"base"}], openPrs \in Lists
    PROVE  \A i \in 1 .. Len(openPrs) : Score(i)[1] \in Nat /\ Score(i)[2] \in Nat \ {0}
<1> TAKE i \in 1 .. Len(openPrs)
<1> DEFINE a == change.files
           b == openPrs[i].files
<1>1. IsFiniteSet(a) /\ IsFiniteSet(b)
  <2>1. a \in Touched
    OBVIOUS
  <2>2. openPrs[i] \in OpenPr
    BY OpenPrFacts
  <2>3. b \in Touched
    BY <2>2 DEF OpenPr
  <2> QED
    BY <2>1, <2>3, ChangeRoutingAssumption
<1>2. Score(i) = Jaccard(a, b)
  BY DEF Score
<1> HIDE DEF a, b
<1>3. CASE a \cup b = {}
  BY <1>2, <1>3 DEF Jaccard
<1>4. CASE a \cup b # {}
  <2>1. IsFiniteSet(a \cup b) /\ IsFiniteSet(a \cap b)
    BY <1>1, FS_Union, FS_Intersection
  <2>2. Cardinality(a \cup b) \in Nat /\ Cardinality(a \cap b) \in Nat
    BY <2>1, FS_CardinalityType
  <2>3. Cardinality(a \cup b) # 0
    BY <1>4, <2>1, FS_EmptySet
  <2> QED
    BY <1>2, <1>4, <2>2, <2>3 DEF Jaccard
<1> QED
  BY <1>3, <1>4

\* Multiplication by a positive number keeps the order.
LEMMA Scaled ==
    ASSUME NEW m \in Nat, NEW n \in Nat, NEW k \in Nat \ {0}
    PROVE  m <= n <=> m * k <= n * k
OBVIOUS

\* Fractions are ordered: a / b, c / d and e / f.
LEMMA FractionsCompare ==
    ASSUME NEW a \in Nat, NEW b \in Nat \ {0}, NEW c \in Nat, NEW d \in Nat \ {0},
           NEW e \in Nat, NEW f \in Nat \ {0},
           c * b <= a * d, e * d <= c * f
    PROVE  /\ e * b <= a * f
           /\ e * b = a * f => c * b = a * d /\ e * d = c * f
<1>0. /\ a * d \in Nat /\ c * b \in Nat /\ c * f \in Nat /\ e * d \in Nat /\ a * f \in Nat /\ e * b \in Nat
  OBVIOUS
<1>1. (c * b) * f <= (a * d) * f
  BY <1>0, Scaled
<1>2. (e * d) * b <= (c * f) * b
  BY <1>0, Scaled
<1>3. /\ (c * f) * b = (c * b) * f /\ (e * d) * b = (e * b) * d /\ (a * d) * f = (a * f) * d
  OBVIOUS
<1>4. /\ (c * f) * b \in Nat /\ (e * b) * d \in Nat /\ (a * f) * d \in Nat
  BY <1>0
<1>5. (e * b) * d <= (c * f) * b /\ (c * f) * b <= (a * f) * d
  BY <1>1, <1>2, <1>3
<1>6. (e * b) * d <= (a * f) * d
  BY <1>4, <1>5
<1>7. e * b <= a * f
  BY <1>0, <1>6, Scaled
<1>8. ASSUME e * b = a * f
      PROVE  c * b = a * d /\ e * d = c * f
  <2>1. (c * f) * b = (e * b) * d /\ (c * f) * b = (a * f) * d
    BY <1>4, <1>5, <1>8
  <2>2. (a * d) * f <= (c * b) * f /\ (c * f) * b <= (e * d) * b
    BY <1>3, <1>4, <2>1
  <2>3. a * d <= c * b /\ c * f <= e * d
    BY <1>0, <2>2, Scaled
  <2> QED
    BY <1>0, <2>3
<1> QED
  BY <1>7, <1>8

\* Of two pull requests one supersedes the other, and superseding is transitive.
LEMMA SupersedingOrders ==
    ASSUME change \in [files : Touched, base : {"base"}], openPrs \in Lists
    PROVE  \A i, j, k \in 1 .. Len(openPrs) :
              /\ Supersedes(i, j) \/ Supersedes(j, i)
              /\ Supersedes(i, j) /\ Supersedes(j, k) => Supersedes(i, k)
<1> TAKE i, j, k \in 1 .. Len(openPrs)
<1>1. /\ Score(i)[1] \in Nat /\ Score(i)[2] \in Nat \ {0}
      /\ Score(j)[1] \in Nat /\ Score(j)[2] \in Nat \ {0}
      /\ Score(k)[1] \in Nat /\ Score(k)[2] \in Nat \ {0}
  BY ScoresAreFractions
<1>2. openPrs[i].number \in Nat /\ openPrs[j].number \in Nat /\ openPrs[k].number \in Nat
  BY OpenPrFacts
<1>3. PICK a \in Nat, b \in Nat \ {0}, c \in Nat, d \in Nat \ {0}, e \in Nat, f \in Nat \ {0} :
         /\ a = Score(i)[1] /\ b = Score(i)[2] /\ c = Score(j)[1] /\ d = Score(j)[2]
         /\ e = Score(k)[1] /\ f = Score(k)[2]
  BY <1>1
<1>4. /\ a * d \in Nat /\ c * b \in Nat /\ c * f \in Nat /\ e * d \in Nat /\ a * f \in Nat /\ e * b \in Nat
  OBVIOUS
<1>5. /\ Supersedes(i, j) <=>
           c * b < a * d \/ (a * d = c * b /\ openPrs[i].number <= openPrs[j].number)
      /\ Supersedes(j, i) <=>
           a * d < c * b \/ (c * b = a * d /\ openPrs[j].number <= openPrs[i].number)
      /\ Supersedes(j, k) <=>
           e * d < c * f \/ (c * f = e * d /\ openPrs[j].number <= openPrs[k].number)
      /\ Supersedes(i, k) <=>
           e * b < a * f \/ (a * f = e * b /\ openPrs[i].number <= openPrs[k].number)
  BY <1>3 DEF Supersedes, Less
<1>6. Supersedes(i, j) \/ Supersedes(j, i)
  <2>1. PICK p \in Nat, q \in Nat : p = a * d /\ q = c * b
    BY <1>4
  <2>2. p < q \/ q < p \/ (p = q /\ (openPrs[i].number <= openPrs[j].number \/ openPrs[j].number <= openPrs[i].number))
    BY <1>2
  <2> QED
    BY <1>5, <2>1, <2>2
<1>7. ASSUME Supersedes(i, j), Supersedes(j, k)
      PROVE  Supersedes(i, k)
  <2>1. c * b <= a * d /\ e * d <= c * f
    BY <1>4, <1>5, <1>7
  <2>2. /\ e * b <= a * f
        /\ e * b = a * f => c * b = a * d /\ e * d = c * f
    BY <2>1, FractionsCompare
  <2>3. CASE e * b < a * f
    BY <1>5, <2>3
  <2>4. CASE e * b = a * f
    <3>1. openPrs[i].number <= openPrs[j].number /\ openPrs[j].number <= openPrs[k].number
      BY <1>4, <1>5, <1>7, <2>2, <2>4
    <3> QED
      BY <1>2, <1>5, <2>4, <3>1
  <2> QED
    BY <1>4, <2>2, <2>3, <2>4
<1> QED
  BY <1>6, <1>7

LEMMA RoutingInvStarts == RoutingInit => RoutingInv
<1> SUFFICES ASSUME RoutingInit PROVE RoutingInv
  OBVIOUS
<1>1. openPrs \in Lists
  BY DEF RoutingInit
<1>2. Len(openPrs) \in Nat
  BY <1>1, OpenPrFacts
<1> QED
  BY <1>2 DEF RoutingInit, RoutingStart, RoutingInv

\* What the loop compares does not change while it runs.
LEMMA ScoresStay ==
    ASSUME UNCHANGED <<change, openPrs, threshold>>
    PROVE  /\ \A i : MeetsThreshold(Score(i))' <=> MeetsThreshold(Score(i))
           /\ \A i, j : Supersedes(i, j)' <=> Supersedes(i, j)
BY DEF MeetsThreshold, Score, Jaccard, EffectiveThreshold, Supersedes, Less

LEMMA RoutingInvKept == RoutingInv /\ [OverlapNext \/ ProofNext]_routingVars => RoutingInv'
<1> SUFFICES ASSUME RoutingInv, [OverlapNext \/ ProofNext]_routingVars PROVE RoutingInv'
  OBVIOUS
<1>0. /\ Len(openPrs) \in Nat /\ scored \in Nat /\ best \in Nat
      /\ scored <= Len(openPrs) /\ best <= scored
  <2>1. openPrs \in Lists /\ scored \in 0 .. Len(openPrs) /\ best \in 0 .. scored
    BY DEF RoutingInv
  <2>2. Len(openPrs) \in Nat
    BY <2>1, OpenPrFacts
  <2> QED
    BY <2>1, <2>2
<1>1. CASE LookAt
  <2> DEFINE n == scored + 1
  <2>1. /\ n \in 1 .. Len(openPrs) /\ scored' = n /\ UNCHANGED <<change, openPrs, threshold, decision>>
        /\ decision = Undecided
    BY <1>0, <1>1 DEF LookAt
  <2>2. PICK b : b = best'
    OBVIOUS
  <2>3. /\ b \in 0 .. n
        /\ b # 0 => MeetsThreshold(Score(b))
        /\ \A i \in 1 .. n : MeetsThreshold(Score(i)) => b # 0 /\ Supersedes(b, i)
    <3>1. b = IF MeetsThreshold(Score(n)) /\ (best = 0 \/ Supersedes(n, best)) THEN n ELSE best
      BY <1>1, <2>2 DEF LookAt
    <3>2. /\ n \in 0 .. n /\ n # 0 /\ best \in 0 .. n
          /\ best # 0 => best \in 1 .. Len(openPrs)
          /\ \A i \in 1 .. n : (i = n \/ i \in 1 .. scored) /\ i \in 1 .. Len(openPrs)
      BY <1>0, <2>1
    <3> HIDE DEF n
    <3>3. \A i, j, k \in 1 .. Len(openPrs) :
              /\ Supersedes(i, j) \/ Supersedes(j, i)
              /\ Supersedes(i, j) /\ Supersedes(j, k) => Supersedes(i, k)
      BY SupersedingOrders DEF RoutingInv
    <3>4. /\ best # 0 => MeetsThreshold(Score(best))
          /\ \A i \in 1 .. scored : MeetsThreshold(Score(i)) => best # 0 /\ Supersedes(best, i)
      BY DEF RoutingInv
    <3>5. CASE ~MeetsThreshold(Score(n))
      <4>1. b = best
        BY <3>1, <3>5
      <4>2. \A i \in 1 .. n : MeetsThreshold(Score(i)) => i \in 1 .. scored
        BY <3>2, <3>5
      <4> QED
        BY <3>2, <3>4, <4>1, <4>2
    <3>6. CASE MeetsThreshold(Score(n)) /\ (best = 0 \/ Supersedes(n, best))
      <4>1. b = n
        BY <3>1, <3>6
      <4>2. ASSUME NEW i \in 1 .. n, MeetsThreshold(Score(i))
            PROVE  Supersedes(n, i)
        <5>1. CASE i = n
          BY <2>1, <3>3, <5>1
        <5>2. CASE i \in 1 .. scored
          <6>1. best # 0 /\ Supersedes(best, i) /\ Supersedes(n, best)
            BY <3>4, <3>6, <4>2, <5>2
          <6>2. n \in 1 .. Len(openPrs) /\ best \in 1 .. Len(openPrs) /\ i \in 1 .. Len(openPrs)
            BY <2>1, <3>2, <6>1
          <6> QED
            BY <3>3, <6>1, <6>2
        <5> QED
          BY <3>2, <5>1, <5>2
      <4> QED
        BY <3>2, <3>6, <4>1, <4>2
    <3>7. CASE MeetsThreshold(Score(n)) /\ ~(best = 0 \/ Supersedes(n, best))
      <4>1. b = best /\ best # 0
        BY <3>1, <3>7
      <4>2. Supersedes(best, n)
        <5>1. n \in 1 .. Len(openPrs) /\ best \in 1 .. Len(openPrs)
          BY <2>1, <3>2, <4>1
        <5> QED
          BY <3>3, <3>7, <5>1
      <4>3. ASSUME NEW i \in 1 .. n, MeetsThreshold(Score(i))
            PROVE  Supersedes(best, i)
        <5>1. CASE i = n
          BY <4>2, <5>1
        <5>2. CASE i \in 1 .. scored
          BY <3>4, <4>3, <5>2
        <5> QED
          BY <3>2, <5>1, <5>2
      <4> QED
        BY <3>2, <3>4, <4>1, <4>3
    <3> QED
      BY <3>5, <3>6, <3>7
  <2>4. /\ \A i : MeetsThreshold(Score(i))' <=> MeetsThreshold(Score(i))
        /\ \A i, j : Supersedes(i, j)' <=> Supersedes(i, j)
    BY <2>1, ScoresStay
  <2>5. (best # 0 => MeetsThreshold(Score(best)))'
    <3>1. b # 0 => MeetsThreshold(Score(b))'
      BY <2>3, <2>4
    <3> QED
      BY <2>2, <3>1
  <2>6. (\A i \in 1 .. scored : MeetsThreshold(Score(i)) => best # 0 /\ Supersedes(best, i))'
    <3>1. \A i \in 1 .. n : MeetsThreshold(Score(i))' => b # 0 /\ Supersedes(b, i)'
      BY <2>3, <2>4
    <3> QED
      BY <2>1, <2>2, <3>1
  <2>7. (/\ change \in [files : Touched, base : {"base"}] /\ openPrs \in Lists
         /\ scored \in 0 .. Len(openPrs) /\ best \in 0 .. scored)'
    <3>1. change \in [files : Touched, base : {"base"}] /\ openPrs \in Lists
      BY DEF RoutingInv
    <3>2. change' \in [files : Touched, base : {"base"}] /\ openPrs' \in Lists
      BY <2>1, <3>1 DEF Lists
    <3> QED
      BY <1>0, <2>1, <2>2, <2>3, <3>2
  <2> QED
    BY <2>1, <2>5, <2>6, <2>7 DEF RoutingInv
<1>2. CASE Decide
  <2>1. /\ UNCHANGED <<change, openPrs, threshold, scored, best>>
        /\ scored = Len(openPrs) /\ decision' = Finished
    BY <1>2 DEF Decide, Finished
  <2>2. Finished' = Finished
    BY <2>1 DEF Finished
  <2>3. /\ \A i : MeetsThreshold(Score(i))' <=> MeetsThreshold(Score(i))
        /\ \A i, j : Supersedes(i, j)' <=> Supersedes(i, j)
    BY <2>1, ScoresStay
  <2> QED
    BY <2>1, <2>2, <2>3 DEF RoutingInv
<1>3. CASE UNCHANGED routeVars
  <2>1. UNCHANGED <<change, openPrs, threshold, scored, best, decision>>
    BY <1>3 DEF routeVars
  <2>2. /\ \A i : MeetsThreshold(Score(i))' <=> MeetsThreshold(Score(i))
        /\ \A i, j : Supersedes(i, j)' <=> Supersedes(i, j)
    BY <2>1, ScoresStay
  <2>3. Finished' = Finished
    BY <2>1 DEF Finished
  <2> QED
    BY <2>1, <2>2, <2>3 DEF RoutingInv
<1> QED
  BY <1>1, <1>2, <1>3 DEF OverlapNext, ProofNext, routingVars

LEMMA RoutingInvGives == RoutingInv => RoutingIsSafe
<1> SUFFICES ASSUME RoutingInv, decision # Undecided PROVE RoutingIsSafe
  BY DEF RoutingIsSafe
<1> DEFINE near == {i \in DOMAIN openPrs : MeetsThreshold(Score(i))}
           nearest == {i \in near : \A j \in near : ~Less(Score(i), Score(j))}
           numbers == {openPrs[i].number : i \in nearest}
           number == Min(numbers)
           chosen == CHOOSE i \in nearest : openPrs[i].number = number
<1>1. /\ Len(openPrs) \in Nat /\ DOMAIN openPrs = 1 .. Len(openPrs) /\ best \in 0 .. Len(openPrs)
      /\ \A i \in 1 .. Len(openPrs) : openPrs[i].number \in Nat
      /\ \A i, j \in 1 .. Len(openPrs) : openPrs[i].number = openPrs[j].number => i = j
      /\ decision = Finished
  BY OpenPrFacts DEF RoutingInv
<1>2. /\ best # 0 => best \in near
      /\ \A i \in near : best # 0 /\ Supersedes(best, i)
  BY <1>1 DEF RoutingInv
<1>3. \A i \in 1 .. Len(openPrs) : Score(i)[1] \in Nat /\ Score(i)[2] \in Nat \ {0}
  BY ScoresAreFractions DEF RoutingInv
<1>4. CASE best = 0
  <2>1. near = {} /\ decision = CreateNew
    BY <1>1, <1>2, <1>4 DEF Finished
  <2> QED
    BY <2>1 DEF RoutingIsSafe
<1>5. CASE best # 0
  <2>1. \A i \in near : /\ ~Less(Score(best), Score(i))
                        /\ ~Less(Score(i), Score(best)) => openPrs[best].number <= openPrs[i].number
    <3> TAKE i \in near
    <3>1. PICK a \in Nat, b \in Nat, c \in Nat, d \in Nat :
             a = Score(best)[1] /\ b = Score(best)[2] /\ c = Score(i)[1] /\ d = Score(i)[2]
      BY <1>1, <1>3, <1>5
    <3>2. a * d \in Nat /\ c * b \in Nat
      OBVIOUS
    <3>3. c * b < a * d \/ (a * d = c * b /\ openPrs[best].number <= openPrs[i].number)
      BY <1>2, <3>1 DEF Supersedes, Less
    <3>4. /\ Less(Score(best), Score(i)) <=> a * d < c * b
          /\ Less(Score(i), Score(best)) <=> c * b < a * d
      BY <3>1 DEF Less
    <3> QED
      BY <3>2, <3>3, <3>4
  <2> HIDE DEF near
  <2>2. best \in nearest
    BY <1>2, <1>5, <2>1
  <2>3. /\ openPrs[best].number \in numbers /\ numbers \subseteq Nat
        /\ \A m \in numbers : openPrs[best].number <= m
    <3>1. \A i \in nearest : openPrs[i].number \in Nat /\ openPrs[best].number <= openPrs[i].number
      BY <1>1, <1>2, <1>5, <2>1 DEF near
    <3> HIDE DEF nearest
    <3>2. openPrs[best].number \in numbers
      BY <2>2
    <3>3. \A m \in numbers : \E i \in nearest : m = openPrs[i].number
      OBVIOUS
    <3> QED
      BY <3>1, <3>2, <3>3
  <2> HIDE DEF numbers
  <2>4. number = openPrs[best].number
    <3>1. PICK m \in Nat : m = openPrs[best].number
      BY <2>3
    <3>2. ASSUME NEW x \in numbers, \A y \in numbers : x =< y
          PROVE  x = m
      <4>1. x \in Nat /\ m <= x
        BY <2>3, <3>1
      <4>2. x <= m
        BY <2>3, <3>1, <3>2
      <4> QED
        BY <3>1, <4>1, <4>2
    <3> QED
      BY <2>3, <3>1, <3>2 DEF Min
  <2> HIDE DEF number
  <2>5. chosen = best
    <3>1. \A i \in nearest : i \in 1 .. Len(openPrs)
      BY <1>1 DEF near
    <3>2. \A i \in nearest : openPrs[i].number = number => i = best
      BY <1>1, <2>2, <2>4, <3>1
    <3> QED
      BY <2>2, <2>4, <3>2
  <2>6. /\ near # {}
        /\ decision.pr = number
        /\ decision.to = IF openPrs[chosen].base = change.base /\ openPrs[chosen].proved THEN "existing" ELSE "refused"
    <3>1. decision.pr = openPrs[best].number
      BY <1>1, <1>5 DEF Finished
    <3>2. decision.to = IF openPrs[best].base # change.base \/ ~openPrs[best].proved THEN "refused" ELSE "existing"
      BY <1>1, <1>5 DEF Finished
    <3> QED
      BY <1>2, <1>5, <2>4, <2>5, <3>1, <3>2
  <2> QED
    BY <2>6 DEF RoutingIsSafe, near, nearest, numbers, number, chosen
<1> QED
  BY <1>4, <1>5

\* In whatever order they are listed, the open pull request that overlaps a
\* change most is the one it goes to, or is refused by (decide_from_scores).
THEOREM ChangesGoWhereTheyOverlap == RoutingSpec => []RoutingIsSafe
<1> QED
  BY RoutingInvStarts, RoutingInvKept, RoutingInvGives, PTL DEF RoutingSpec

\* The plan: what is said of the paths so far, and where planning stands.
OwnerNames == UNION {OwnerRules[i].names : i \in DOMAIN OwnerRules}
LaneNames == {"policy"} \cup UNION {TestRules[i].names : i \in DOMAIN TestRules}
PlanRecords ==
    [at : {"paths", "planned", "blocked"}, why : {"", "generated", "ownerless", "unmapped"},
     change : ChangedPaths, agent : BOOLEAN, next : Nat, owners : SUBSET OwnerNames, lanes : SUBSET LaneNames]
Entries == [lane : DOMAIN Lanes, success : BOOLEAN]

\* What a changed path owes is in the plan.
Owed(changed, agent, owners, lanes) ==
    /\ ~Denied(changed.path, agent)
    /\ {} # Named(OwnerRules, changed.path) /\ Named(OwnerRules, changed.path) \subseteq owners
    /\ Named(TestRules, changed.path) \subseteq lanes /\ (changed.sensitive => "policy" \in lanes)

\* A lane was last run with success.
PassedLast(lane, ran) ==
    \E j \in DOMAIN ran : /\ ran[j].lane = lane /\ ran[j].success
                          /\ \A k \in j + 1 .. Len(ran) : ran[k].lane # lane

PlanInv ==
    /\ plan = NotPlanned \/ plan \in PlanRecords
    /\ evidence \in Seq(Entries)
    /\ plan \in PlanRecords =>
          \A i \in DOMAIN plan.change : i < plan.next => Owed(plan.change[i], plan.agent, plan.owners, plan.lanes)
    /\ plan.at = "planned" => plan.next > Len(plan.change)
    /\ \A w \in witness :
          /\ plan.at = "planned" /\ w.owners = plan.owners /\ w.lanes = plan.lanes
          /\ \A l \in w.lanes : Lanes[l] => PassedLast(l, w.ran)

LEMMA PlanInvStarts == RoutingInit => PlanInv
<1> SUFFICES ASSUME RoutingInit PROVE PlanInv
  OBVIOUS
<1>1. plan = NotPlanned /\ evidence = <<>> /\ witness = {}
  BY DEF RoutingInit, RoutingStart
<1>2. plan.at = "none" /\ evidence \in Seq(Entries)
  BY <1>1 DEF NotPlanned
<1>3. plan \notin PlanRecords
  BY <1>2 DEF PlanRecords
<1> QED
  BY <1>1, <1>2, <1>3 DEF PlanInv

\* A path owes no less when others are added to what is owed.
LEMMA OwedGrows ==
    ASSUME NEW changed, NEW agent, NEW owners, NEW lanes, NEW more, NEW further,
           Owed(changed, agent, owners, lanes), owners \subseteq more, lanes \subseteq further
    PROVE  Owed(changed, agent, more, further)
BY DEF Owed

\* The names that match a path are among those of the rules.
LEMMA NamesAreAmong ==
    ASSUME NEW table, NEW path
    PROVE  Named(table, path) \subseteq UNION {table[i].names : i \in DOMAIN table}
BY DEF Named, Matching

LEMMA PlanInvKept == PlanInv /\ [OverlapNext \/ ProofNext]_routingVars => PlanInv'
<1> SUFFICES ASSUME PlanInv, [OverlapNext \/ ProofNext]_routingVars PROVE PlanInv'
  OBVIOUS
<1>1. ASSUME NEW paths \in ChangedPaths, NEW agent \in BOOLEAN, BeginPlan(paths, agent)
      PROVE  PlanInv'
  <2>1. /\ plan = NotPlanned /\ UNCHANGED <<evidence, witness>>
        /\ plan' = [at |-> "paths", why |-> "", change |-> paths, agent |-> agent, next |-> 1, owners |-> {}, lanes |-> {}]
    BY <1>1 DEF BeginPlan
  <2>2. plan' \in PlanRecords /\ plan'.at = "paths" /\ plan'.next = 1 /\ plan'.change = paths
    BY <2>1 DEF PlanRecords
  <2>3. witness = {}
    BY <2>1 DEF PlanInv, NotPlanned
  <2>4. \A i \in DOMAIN paths : ~(i < 1)
    BY ChangeRoutingAssumption
  <2> QED
    BY <2>1, <2>2, <2>3, <2>4 DEF PlanInv
<1>2. CASE PlanPath
  <2> DEFINE changed == plan.change[plan.next]
             owned == plan.owners \cup Named(OwnerRules, changed.path)
             owing == plan.lanes \cup LanesOf(changed)
  <2>1. /\ plan.at = "paths" /\ plan.next <= Len(plan.change) /\ UNCHANGED <<evidence, witness>>
    BY <1>2 DEF PlanPath
  <2>2. plan \in PlanRecords /\ witness = {}
    BY <2>1 DEF PlanInv, NotPlanned
  <2>3. PICK why \in {"generated", "ownerless", "unmapped"} :
           \/ plan' = [plan EXCEPT !.at = "blocked", !.why = why]
           \/ /\ ~Denied(changed.path, plan.agent)
              /\ Named(OwnerRules, changed.path) # {}
              /\ plan' = [plan EXCEPT !.next = plan.next + 1, !.owners = owned, !.lanes = owing]
    BY <1>2 DEF PlanPath, Blocked
  <2>4. CASE plan' = [plan EXCEPT !.at = "blocked", !.why = why]
    <3>1. /\ plan' \in PlanRecords /\ plan'.at = "blocked" /\ plan'.next = plan.next
          /\ plan'.change = plan.change /\ plan'.agent = plan.agent
          /\ plan'.owners = plan.owners /\ plan'.lanes = plan.lanes
      BY <2>2, <2>4 DEF PlanRecords
    <3> QED
      BY <2>1, <2>2, <3>1 DEF PlanInv, Owed, Denied
  <2>5. CASE /\ ~Denied(changed.path, plan.agent)
             /\ Named(OwnerRules, changed.path) # {}
             /\ plan' = [plan EXCEPT !.next = plan.next + 1, !.owners = owned, !.lanes = owing]
    <3>1. owned \in SUBSET OwnerNames /\ owing \in SUBSET LaneNames
      <4>1. Named(OwnerRules, changed.path) \subseteq OwnerNames /\ LanesOf(changed) \subseteq LaneNames
        <5>1. Named(OwnerRules, changed.path) \subseteq OwnerNames
          BY NamesAreAmong DEF OwnerNames
        <5>2. Named(TestRules, changed.path) \subseteq UNION {TestRules[i].names : i \in DOMAIN TestRules}
          BY NamesAreAmong
        <5>3. LanesOf(changed) \subseteq Named(TestRules, changed.path) \cup {"policy"}
          BY DEF LanesOf
        <5> QED
          BY <5>1, <5>2, <5>3 DEF LaneNames
      <4>2. plan.owners \subseteq OwnerNames /\ plan.lanes \subseteq LaneNames
        BY <2>2 DEF PlanRecords
      <4> QED
        BY <4>1, <4>2
    <3>2. /\ plan' \in PlanRecords /\ plan'.at = "paths" /\ plan'.next = plan.next + 1
          /\ plan'.change = plan.change /\ plan'.agent = plan.agent
          /\ plan'.owners = owned /\ plan'.lanes = owing /\ plan.next \in Nat
      <4>1. PICK more \in SUBSET OwnerNames, further \in SUBSET LaneNames : more = owned /\ further = owing
        BY <3>1
      <4>2. PICK n \in Nat : n = plan.next + 1 /\ plan.next \in Nat
        <5>1. plan.next \in Nat
          BY <2>2 DEF PlanRecords
        <5> QED
          BY <5>1
      <4>3. plan' = [plan EXCEPT !.next = n, !.owners = more, !.lanes = further]
        BY <2>5, <4>1, <4>2
      <4>4. /\ plan' \in PlanRecords /\ plan'.at = plan.at /\ plan'.next = n
            /\ plan'.change = plan.change /\ plan'.agent = plan.agent
            /\ plan'.owners = more /\ plan'.lanes = further
        BY <2>2, <4>3 DEF PlanRecords
      <4> QED
        BY <2>1, <4>1, <4>2, <4>4
    <3>3. Owed(changed, plan.agent, owned, owing)
      BY <2>5 DEF Owed, LanesOf
    <3>4. ASSUME NEW i \in DOMAIN plan.change, i < plan.next
          PROVE  Owed(plan.change[i], plan.agent, owned, owing)
      BY <2>2, <3>4, OwedGrows DEF PlanInv
    <3>5. \A i \in DOMAIN plan.change : i \in Int
      <4>1. plan.change \in ChangedPaths
        BY <2>2 DEF PlanRecords
      <4> QED
        BY <4>1, ChangeRoutingAssumption
    <3>6. \A i \in DOMAIN plan.change : i < plan.next + 1 => Owed(plan.change[i], plan.agent, owned, owing)
      <4> HIDE DEF owned, owing
      <4>1. \A i \in DOMAIN plan.change : i < plan.next + 1 => i = plan.next \/ i < plan.next
        BY <3>2, <3>5
      <4> QED
        BY <3>3, <3>4, <4>1
    <3> HIDE DEF owned, owing
    <3>7. (\A i \in DOMAIN plan.change : i < plan.next => Owed(plan.change[i], plan.agent, plan.owners, plan.lanes))'
      BY <3>2, <3>6 DEF Owed, Denied
    <3> QED
      BY <2>1, <2>2, <3>2, <3>7 DEF PlanInv
  <2> QED
    BY <2>3, <2>4, <2>5
<1>3. CASE ResolveLanes
  <2>1. /\ plan.at = "paths" /\ plan.next > Len(plan.change) /\ UNCHANGED <<evidence, witness>>
        /\ \/ plan' = [plan EXCEPT !.at = "planned"]
           \/ plan' = [plan EXCEPT !.at = "blocked", !.why = "unmapped"]
    BY <1>3 DEF ResolveLanes, Blocked
  <2>2. plan \in PlanRecords /\ witness = {}
    BY <2>1 DEF PlanInv, NotPlanned
  <2>3. /\ plan' \in PlanRecords /\ plan'.next = plan.next
        /\ plan'.change = plan.change /\ plan'.agent = plan.agent
        /\ plan'.owners = plan.owners /\ plan'.lanes = plan.lanes
    BY <2>1, <2>2 DEF PlanRecords
  <2> QED
    BY <2>1, <2>2, <2>3 DEF PlanInv, Owed, Denied
<1>4. ASSUME NEW lane \in DOMAIN Lanes, NEW success \in BOOLEAN, RunLane(lane, success)
      PROVE  PlanInv'
  <2>1. /\ UNCHANGED <<plan, witness>> /\ evidence' = Append(evidence, [lane |-> lane, success |-> success])
    BY <1>4 DEF RunLane
  <2>2. [lane |-> lane, success |-> success] \in Entries
    BY DEF Entries
  <2>3. evidence' \in Seq(Entries)
    BY <2>1, <2>2 DEF PlanInv
  <2> QED
    BY <2>1, <2>3 DEF PlanInv, Owed, Denied, PassedLast
<1>5. CASE Verify
  <2>1. /\ plan.at = "planned" /\ UNCHANGED <<plan, evidence>>
        /\ witness' = {[lanes |-> plan.lanes, owners |-> plan.owners, ran |-> evidence]}
        /\ \A l \in plan.lanes : Lanes[l] => \E e \in EvidenceOf(l) : e.success
    BY <1>5 DEF Verify
  <2>2. ASSUME NEW l \in plan.lanes, Lanes[l]
        PROVE  PassedLast(l, evidence)
    <3>1. PICK e \in EvidenceOf(l) : e.success
      BY <2>1, <2>2
    <3>2. PICK j \in DOMAIN evidence :
             /\ evidence[j].lane = l /\ evidence[j] = e
             /\ \A k \in DOMAIN evidence : evidence[k].lane = l => k <= j
      BY <3>1 DEF EvidenceOf
    <3>3. Len(evidence) \in Nat /\ DOMAIN evidence = 1 .. Len(evidence)
      BY DEF PlanInv
    <3>4. \A k \in j + 1 .. Len(evidence) : k \in DOMAIN evidence /\ ~(k <= j)
      BY <3>3
    <3> QED
      BY <3>1, <3>2, <3>4 DEF PassedLast
  <2>3. \A w \in witness' :
           /\ plan.at = "planned" /\ w.owners = plan.owners /\ w.lanes = plan.lanes
           /\ \A l \in w.lanes : Lanes[l] => PassedLast(l, w.ran)
    BY <2>1, <2>2
  <2> QED
    BY <2>1, <2>3 DEF PlanInv, Owed, Denied, PassedLast
<1>6. CASE UNCHANGED proofVars
  BY <1>6 DEF proofVars, PlanInv, Owed, Denied, PassedLast
<1> QED
  BY <1>1, <1>2, <1>3, <1>4, <1>5, <1>6 DEF OverlapNext, ProofNext, routingVars

LEMMA PlanInvGives == PlanInv => WitnessCoversChange
<1> SUFFICES ASSUME PlanInv, NEW w \in witness, NEW i \in DOMAIN plan.change
             PROVE  /\ Owed(plan.change[i], plan.agent, w.owners, w.lanes)
                    /\ \A l \in w.lanes : Lanes[l] => PassedLast(l, w.ran)
  BY DEF WitnessCoversChange, Owed, PassedLast
<1>1. /\ plan.at = "planned" /\ w.owners = plan.owners /\ w.lanes = plan.lanes
      /\ \A l \in w.lanes : Lanes[l] => PassedLast(l, w.ran)
      /\ plan.next > Len(plan.change)
  BY DEF PlanInv
<1>2. plan \in PlanRecords
  BY <1>1 DEF PlanInv, NotPlanned
<1>3. i < plan.next
  <2>1. plan.next \in Nat /\ Len(plan.change) \in Nat /\ i \in 1 .. Len(plan.change)
    BY <1>2, ChangeRoutingAssumption DEF PlanRecords
  <2> QED
    BY <1>1, <2>1
<1> QED
  BY <1>1, <1>2, <1>3 DEF PlanInv

\* A witness stands for a change whose paths are all owned and editable, and
\* for every lane any of them owes, run last with success (plan, verify).
THEOREM WitnessesCoverTheirChange == RoutingSpec => []WitnessCoversChange
<1> QED
  BY PlanInvStarts, PlanInvKept, PlanInvGives, PTL DEF RoutingSpec

\* Neither a routed change nor a proved one gets past what it was held against,
\* for any rules, paths, files and numbers of pull requests and runs.
THEOREM ChangesHeld == RoutingSpec => []ChangesAreHeldToProof
<1>1. RoutingIsSafe /\ WitnessCoversChange => ChangesAreHeldToProof
  BY DEF ChangesAreHeldToProof
<1> QED
  BY <1>1, ChangesGoWhereTheyOverlap, WitnessesCoverTheirChange, PTL

-----------------------------------------------------------------------------
(* The loop over the review rows and the closed form *)

\* What holds of zero, and of the next number after one it holds of, up to n.
LEMMA CountedUp ==
    ASSUME NEW n \in Nat, NEW Good, 0 \in Good, \A m \in Nat : m < n /\ m \in Good => m + 1 \in Good
    PROVE  \A m \in Nat : m <= n => m \in Good
<1> DEFINE Missed == {m \in Nat : m <= n /\ m \notin Good}
<1>1. ASSUME Missed # {} PROVE FALSE
  <2>1. PICK x \in Missed : \A y \in Missed : x <= y
    BY <1>1, LeastNumber
  <2>2. x \in Nat /\ x # 0 /\ x <= n /\ x \notin Good
    BY <2>1
  <2>3. x - 1 \in Nat /\ x - 1 < n /\ x - 1 <= n /\ ~(x <= x - 1) /\ (x - 1) + 1 = x
    BY <2>2
  <2>4. x - 1 \in Good
    BY <2>1, <2>3
  <2> QED
    BY <2>2, <2>3, <2>4
<1> QED
  BY <1>1

\* The rows a ledger of the loop may hold.
LoopRows == [author : Authors, state : ReviewStates, head : RowHeads \cup {NoHead},
             ids : RowIds \cup {NoIds}, target : Nat, admin : BOOLEAN]

\* f holds the map from reviewer to latest verdict after every prefix of R, up to n.
LoopsTo(f, R, head, ids, reach, author, n) ==
    f = [m \in 0 .. n |->
            IF m = 0 THEN [a \in Authors |-> 0]
            ELSE IF Speaks(R, m, head, ids, reach) THEN StepReview(R, author, f[m - 1], m)
            ELSE f[m - 1]]

LEMMA LoopExists ==
    ASSUME NEW R, NEW head, NEW ids, NEW reach, NEW author, NEW n \in Nat
    PROVE  \E f : LoopsTo(f, R, head, ids, reach, author, n)
<1> DEFINE Good == {m \in Nat : \E f : LoopsTo(f, R, head, ids, reach, author, m)}
<1>1. 0 \in Good
  <2> DEFINE f == [m \in 0 .. 0 |-> [a \in Authors |-> 0]]
  <2>1. \A m \in 0 .. 0 : m = 0
    OBVIOUS
  <2>2. LoopsTo(f, R, head, ids, reach, author, 0)
    BY <2>1 DEF LoopsTo
  <2> QED
    BY <2>2
<1>2. ASSUME NEW k \in Nat, k \in Good PROVE k + 1 \in Good
  <2>1. PICK f : LoopsTo(f, R, head, ids, reach, author, k)
    BY <1>2
  <2> DEFINE val(h, m) == IF m = 0 THEN [a \in Authors |-> 0]
                          ELSE IF Speaks(R, m, head, ids, reach)
                               THEN StepReview(R, author, h[m - 1], m)
                          ELSE h[m - 1]
             g == [m \in 0 .. (k + 1) |-> val(f, m)]
  <2>2. \A m \in 0 .. k : f[m] = val(f, m)
    BY <2>1 DEF LoopsTo
  <2>3. \A m \in 0 .. (k + 1) : m # 0 => m - 1 \in 0 .. k /\ m - 1 \in 0 .. (k + 1)
    OBVIOUS
  <2>4. \A m \in 0 .. k : m \in 0 .. (k + 1)
    OBVIOUS
  <2>5. \A m \in 0 .. k : g[m] = f[m]
    <3> HIDE DEF val
    <3> QED
      BY <2>2, <2>4
  <2>6. \A m \in 0 .. (k + 1) : val(f, m) = val(g, m)
    <3> SUFFICES ASSUME NEW m \in 0 .. (k + 1) PROVE val(f, m) = val(g, m)
      OBVIOUS
    <3>1. m # 0 => f[m - 1] = g[m - 1]
      <4> HIDE DEF g
      <4> QED BY <2>3, <2>5
    <3> HIDE DEF g
    <3> QED
      BY <3>1
  <2>7. g = [m \in 0 .. (k + 1) |-> val(g, m)]
    <3> HIDE DEF val
    <3> QED BY <2>6
  <2>8. LoopsTo(g, R, head, ids, reach, author, k + 1)
    <3> HIDE DEF g
    <3> QED
      BY <2>7 DEF LoopsTo
  <2> QED
    BY <2>8
<1>3. n \in Good
  <2> HIDE DEF Good
  <2>1. \A m \in Nat : m < n /\ m \in Good => m + 1 \in Good
    BY <1>2
  <2> QED
    BY <1>1, <2>1, CountedUp
<1> QED
  BY <1>3

\* The map that the loop keeps, row by row.
LEMMA LoopRuns ==
    ASSUME NEW S, NEW R \in Seq(S), NEW head, NEW ids, NEW reach, NEW author
    PROVE  LoopsTo(LatestAfter(R, head, ids, reach, author), R, head, ids, reach, author, Len(R))
<1>1. PICK n \in Nat : n = Len(R)
  OBVIOUS
<1>2. \E f : LoopsTo(f, R, head, ids, reach, author, n)
  BY LoopExists
<1> DEFINE after == CHOOSE f : LoopsTo(f, R, head, ids, reach, author, n)
<1>3. LoopsTo(after, R, head, ids, reach, author, n)
  BY <1>2
<1>4. LatestAfter(R, head, ids, reach, author) = after
  BY <1>1 DEF LatestAfter, LoopsTo
<1> QED
  BY <1>1, <1>3, <1>4

\* The effective rows of one reviewer among the first n rows.
HeldBy(R, head, ids, reach, author, a, n) ==
    { i \in 1 .. n :
        /\ R[i].author = a
        /\ Speaks(R, i, head, ids, reach)
        /\ R[i].state \in Verdicts
        /\ i \notin WithdrawnVerdicts(R)
        /\ ~Ignored(R, i, author)
        /\ \A j \in 1 .. n :
              j > i /\ R[j].author = a /\ Speaks(R, j, head, ids, reach) => ~Ends(R, j, i, author) }

\* The map names, for each reviewer, the only effective row, or none.
LatestHolds(f, R, head, ids, reach, author, n) ==
    /\ f[n] \in [Authors -> 0 .. n]
    /\ \A a \in Authors :
          HeldBy(R, head, ids, reach, author, a, n) = IF f[n][a] = 0 THEN {} ELSE {f[n][a]}

\* Row n + 1 leaves what other reviewers hold, and what its own reviewer held
\* and it does not end; it joins when it is a verdict that counts.
NextHolds(R, head, ids, reach, author, n, a) ==
    LET mine == R[n + 1].author = a /\ Speaks(R, n + 1, head, ids, reach)
        kept == { i \in HeldBy(R, head, ids, reach, author, a, n) :
                    ~ (mine /\ Ends(R, n + 1, i, author)) }
        counts == /\ mine
                  /\ R[n + 1].state \in Verdicts
                  /\ n + 1 \notin WithdrawnVerdicts(R)
                  /\ ~Ignored(R, n + 1, author)
    IN  HeldBy(R, head, ids, reach, author, a, n + 1)
            = kept \cup (IF counts THEN {n + 1} ELSE {})

LEMMA NextHeld ==
    ASSUME NEW R, NEW head, NEW ids, NEW reach, NEW author, NEW n \in Nat, NEW a
    PROVE  NextHolds(R, head, ids, reach, author, n, a)
<1>1. \A i \in 1 .. (n + 1) : i \in 1 .. n \/ i = n + 1
  OBVIOUS
<1>2. \A i \in 1 .. n : i \in 1 .. (n + 1) /\ n + 1 > i /\ i # n + 1
  OBVIOUS
<1>3. n + 1 \in 1 .. (n + 1) /\ \A j \in 1 .. (n + 1) : ~ (j > n + 1)
  OBVIOUS
<1> QED
  BY <1>1, <1>2, <1>3, Zenon DEF HeldBy, NextHolds

\* One pass of the loop's body keeps the map true.
LEMMA LoopStep ==
    ASSUME NEW R \in Seq(LoopRows), NEW head, NEW ids, NEW reach, NEW author,
           NEW f, LoopsTo(f, R, head, ids, reach, author, Len(R)),
           NEW n \in Nat, n < Len(R), LatestHolds(f, R, head, ids, reach, author, n)
    PROVE  LatestHolds(f, R, head, ids, reach, author, n + 1)
<1> DEFINE Held(a, m) == HeldBy(R, head, ids, reach, author, a, m)
<1>1. PICK b \in Authors : b = R[n + 1].author
  <2>1. R[n + 1] \in LoopRows
    OBVIOUS
  <2> QED
    BY <2>1 DEF LoopRows
<1>2. PICK old \in [Authors -> 0 .. n] : old = f[n]
  BY DEF LatestHolds
<1>3. f[n + 1] = IF Speaks(R, n + 1, head, ids, reach) THEN StepReview(R, author, old, n + 1) ELSE old
  <2>1. PICK L \in Nat : L = Len(R)
    OBVIOUS
  <2>2. n + 1 \in 0 .. L /\ n + 1 # 0 /\ (n + 1) - 1 = n
    BY <2>1
  <2> QED
    BY <1>2, <2>1, <2>2 DEF LoopsTo
<1>4. \A a \in Authors : Held(a, n) = IF old[a] = 0 THEN {} ELSE {old[a]}
  BY <1>2 DEF LatestHolds
<1> DEFINE mine(a) == b = a /\ Speaks(R, n + 1, head, ids, reach)
           counts(a) == /\ mine(a)
                        /\ R[n + 1].state \in Verdicts
                        /\ n + 1 \notin WithdrawnVerdicts(R)
                        /\ ~Ignored(R, n + 1, author)
           kept(a) == { i \in Held(a, n) : ~ (mine(a) /\ Ends(R, n + 1, i, author)) }
<1>5. \A a : Held(a, n + 1) = kept(a) \cup (IF counts(a) THEN {n + 1} ELSE {})
  <2> SUFFICES ASSUME NEW a PROVE Held(a, n + 1) = kept(a) \cup (IF counts(a) THEN {n + 1} ELSE {})
    OBVIOUS
  <2>1. \A r : NextHolds(R, head, ids, reach, author, n, r)
    BY NextHeld
  <2>2. NextHolds(R, head, ids, reach, author, n, a)
    BY <2>1
  <2> QED
    BY <1>1, <2>2 DEF NextHolds
<1>6. \A a \in Authors : ~mine(a) => Held(a, n + 1) = Held(a, n)
  BY <1>5
<1>7. old \in [Authors -> 0 .. (n + 1)] /\ n + 1 \in 0 .. (n + 1) /\ 0 \in 0 .. (n + 1) /\ n + 1 # 0
  <2>1. 0 .. n \subseteq 0 .. (n + 1)
    OBVIOUS
  <2> QED
    BY <2>1
\* The new map differs from the old one at the row's reviewer at most.
<1> DEFINE Settled(v) ==
        /\ f[n + 1] = [old EXCEPT ![b] = v]
        /\ v \in 0 .. (n + 1)
        /\ Held(b, n + 1) = IF v = 0 THEN {} ELSE {v}
<1>8. ASSUME Speaks(R, n + 1, head, ids, reach), NEW v, Settled(v)
      PROVE  LatestHolds(f, R, head, ids, reach, author, n + 1)
  <2>1. f[n + 1] \in [Authors -> 0 .. (n + 1)]
    BY <1>1, <1>7, <1>8
  <2>2. \A a \in Authors : f[n + 1][a] = IF a = b THEN v ELSE old[a]
    BY <1>1, <1>8
  <2>3. \A a \in Authors : a # b => Held(a, n + 1) = IF old[a] = 0 THEN {} ELSE {old[a]}
    <3> HIDE DEF Held
    <3> QED BY <1>4, <1>6
  <2>4. \A a \in Authors : Held(a, n + 1) = IF f[n + 1][a] = 0 THEN {} ELSE {f[n + 1][a]}
    <3> HIDE DEF Held
    <3> QED BY <1>8, <2>2, <2>3
  <2> QED
    BY <2>1, <2>4 DEF LatestHolds
<1>9. CASE ~Speaks(R, n + 1, head, ids, reach)
  <2>1. \A a \in Authors : Held(a, n + 1) = IF old[a] = 0 THEN {} ELSE {old[a]}
    <3>1. \A a \in Authors : Held(a, n + 1) = Held(a, n)
      BY <1>6, <1>9
    <3> HIDE DEF Held
    <3> QED BY <1>4, <3>1
  <2> QED
    BY <1>3, <1>7, <1>9, <2>1 DEF LatestHolds
<1>10. ASSUME Speaks(R, n + 1, head, ids, reach)
       PROVE  \E v : Settled(v)
  <2>1. mine(b) /\ f[n + 1] = StepReview(R, author, old, n + 1)
    BY <1>3, <1>10
  <2>2. Held(b, n) = IF old[b] = 0 THEN {} ELSE {old[b]}
    BY <1>1, <1>4
  <2>3. old[b] \in 0 .. (n + 1) /\ old[b] \in Nat
    BY <1>1, <1>2, <1>7
  <2>4. old = [old EXCEPT ![b] = old[b]]
    BY <1>1, <1>2
  <2>5. Held(b, n + 1) = { i \in Held(b, n) : ~Ends(R, n + 1, i, author) }
                             \cup (IF counts(b) THEN {n + 1} ELSE {})
    BY <1>5, <2>1
  <2>6. R[n + 1].target \in Nat /\ R[n + 1].state \in ReviewStates
    <3>1. R[n + 1] \in LoopRows
      OBVIOUS
    <3> QED
      BY <3>1 DEF LoopRows
  <2> HIDE DEF Held
  <2>7. CASE n + 1 \in WithdrawnVerdicts(R)
    <3>1. StepReview(R, author, old, n + 1) = [old EXCEPT ![b] = 0]
      BY <1>1, <2>7 DEF StepReview, Cleared
    <3>2. Held(b, n + 1) = {}
      BY <2>5, <2>7 DEF Ends
    <3>3. Settled(0)
      BY <1>7, <2>1, <3>1, <3>2
    <3> QED
      BY <3>3
  <2>8. CASE n + 1 \notin WithdrawnVerdicts(R) /\ Ignored(R, n + 1, author)
    <3>1. StepReview(R, author, old, n + 1) = old
      BY <2>8 DEF StepReview
    <3>2. \A i : ~Ends(R, n + 1, i, author)
      BY <2>8 DEF Ends, Ignored
    <3>3. Held(b, n + 1) = Held(b, n)
      BY <2>5, <2>8, <3>2
    <3>4. Settled(old[b])
      BY <2>1, <2>2, <2>3, <2>4, <3>1, <3>3
    <3> QED
      BY <3>4
  <2>9. CASE n + 1 \notin WithdrawnVerdicts(R) /\ ~Ignored(R, n + 1, author) /\ R[n + 1].state \in Verdicts
    <3>1. StepReview(R, author, old, n + 1) = [old EXCEPT ![b] = n + 1]
      BY <1>1, <2>9 DEF StepReview
    <3>2. \A i : Ends(R, n + 1, i, author)
      BY <2>9 DEF Ends
    <3>3. Held(b, n + 1) = {n + 1}
      BY <2>1, <2>5, <2>9, <3>2
    <3>4. Settled(n + 1)
      BY <1>7, <2>1, <3>1, <3>3
    <3> QED
      BY <3>4
  <2>10. CASE n + 1 \notin WithdrawnVerdicts(R) /\ ~Ignored(R, n + 1, author) /\ R[n + 1].state \notin Verdicts
    <3> DEFINE clears == /\ R[n + 1].state = "Dismissed"
                         /\ old[b] # 0
                         /\ IF R[n + 1].target # 0 THEN R[n + 1].target = old[b]
                                                   ELSE R[old[b]].state = "Approved"
    <3>1. StepReview(R, author, old, n + 1) = IF clears THEN [old EXCEPT ![b] = 0] ELSE old
      BY <1>1, <2>10 DEF StepReview, Cleared
    <3>2. \A i \in Held(b, n) : i # 0 /\ i = old[b]
      BY <2>2
    <3>3. \A i \in Held(b, n) : Ends(R, n + 1, i, author) <=> clears
      BY <2>6, <2>10, <3>2 DEF Ends
    <3>4. Held(b, n + 1) = { i \in Held(b, n) : ~clears }
      BY <2>5, <2>10, <3>3
    <3>5. CASE clears
      <4>1. Held(b, n + 1) = {}
        BY <3>4, <3>5
      <4>2. f[n + 1] = [old EXCEPT ![b] = 0]
        BY <2>1, <3>1, <3>5
      <4>3. Settled(0)
        BY <1>7, <4>1, <4>2
      <4> QED
        BY <4>3
    <3>6. CASE ~clears
      <4>1. Held(b, n + 1) = Held(b, n)
        BY <3>4, <3>6
      <4>2. f[n + 1] = old
        BY <2>1, <3>1, <3>6
      <4>3. Settled(old[b])
        BY <2>2, <2>3, <2>4, <4>1, <4>2
      <4> QED
        BY <4>3
    <3> QED
      BY <3>5, <3>6
  <2> QED
    BY <2>7, <2>8, <2>9, <2>10
<1> QED
  BY <1>8, <1>9, <1>10

\* The loop selects the effective rows of any ledger.
LEMMA LoopIsClosedForm ==
    ASSUME NEW R \in Seq(LoopRows), NEW head, NEW ids, NEW reach, NEW author
    PROVE  ReduceReviews(R, head, ids, reach, author) = Effective(R, head, ids, reach, author)
<1>1. PICK L \in Nat : L = Len(R) /\ DOMAIN R = 1 .. L
  OBVIOUS
<1>2. PICK f : f = LatestAfter(R, head, ids, reach, author)
  OBVIOUS
<1>3. LoopsTo(f, R, head, ids, reach, author, Len(R))
  BY <1>2, LoopRuns
<1> DEFINE Good == {m \in Nat : m <= L => LatestHolds(f, R, head, ids, reach, author, m)}
<1>4. 0 \in Good
  <2>1. 0 \in 0 .. L /\ 0 \in 0 .. 0
    BY <1>1
  <2>2. f[0] = [a \in Authors |-> 0]
    BY <1>1, <1>3, <2>1 DEF LoopsTo
  <2>3. 1 .. 0 = {}
    OBVIOUS
  <2>4. \A a : HeldBy(R, head, ids, reach, author, a, 0) = {}
    BY <2>3 DEF HeldBy
  <2>5. LatestHolds(f, R, head, ids, reach, author, 0)
    BY <2>1, <2>2, <2>4 DEF LatestHolds
  <2> QED
    BY <2>5
<1>5. \A m \in Nat : m < L /\ m \in Good => m + 1 \in Good
  BY <1>1, <1>3, LoopStep
<1>6. LatestHolds(f, R, head, ids, reach, author, L)
  <2>1. L \in Good
    <3> HIDE DEF Good
    <3>1. \A m \in Nat : m <= L => m \in Good
      BY <1>4, <1>5, CountedUp
    <3> QED
      BY <3>1
  <2> QED
    BY <2>1
<1>7. \A i : i \in Effective(R, head, ids, reach, author)
                <=> \E a \in Authors : i \in HeldBy(R, head, ids, reach, author, a, L)
  <2>1. \A i \in 1 .. L : R[i] \in LoopRows
    BY <1>1
  <2>2. \A i \in 1 .. L : R[i].author \in Authors
    BY <2>1 DEF LoopRows
  <2> QED
    BY <1>1, <2>2 DEF Effective, HeldBy
<1>8. \A i : i \in ReduceReviews(R, head, ids, reach, author)
                <=> \E a \in Authors : f[L][a] = i /\ i # 0
  BY <1>1, <1>2 DEF ReduceReviews
<1>9. \A i : \A a \in Authors : i \in HeldBy(R, head, ids, reach, author, a, L) <=> f[L][a] = i /\ i # 0
  BY <1>6 DEF LatestHolds
<1> QED
  BY <1>7, <1>8, <1>9, Zenon

\* Whatever rows a ledger holds, those Core writes and those it inherits, the
\* pass of reduce_reviews that keeps the latest verdict of each reviewer selects
\* the rows that the closed form names, the form the gate's theorems are about.
THEOREM LoopSelects == LoopSpec => []LoopAgrees
<1> DEFINE Typed == ledger \in Seq(LoopRows)
<1>1. LoopInit => Typed
  BY DEF LoopInit
<1>2. Typed /\ [LoopNext]_ledger => Typed'
  <2> SUFFICES ASSUME Typed, LoopNext PROVE Typed'
    OBVIOUS
  <2>1. PICK row \in PlainRows \cup Dismissals(Len(ledger)) : ledger' = Append(ledger, row)
    BY DEF LoopNext
  <2>2. 0 .. Len(ledger) \subseteq Nat
    OBVIOUS
  <2>3. PlainRows \subseteq LoopRows
    <3>1. {0} \subseteq Nat /\ {FALSE} \subseteq BOOLEAN
      OBVIOUS
    <3> QED
      BY <3>1 DEF PlainRows, LoopRows
  <2>4. Dismissals(Len(ledger)) \subseteq LoopRows
    <3>1. {"Dismissed"} \subseteq ReviewStates
      BY DEF ReviewStates
    <3> QED
      BY <2>2, <3>1 DEF Dismissals, LoopRows
  <2> QED
    BY <2>1, <2>3, <2>4
<1>3. Typed => LoopAgrees
  BY LoopIsClosedForm DEF LoopAgrees
<1> QED
  BY <1>1, <1>2, <1>3, PTL DEF LoopSpec
=============================================================================
