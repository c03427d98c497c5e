----------------------------- MODULE ReviewLoop -----------------------------
(***************************************************************************)
(* reduce_reviews of branch_protection/reviews.rs as the loop it is: one   *)
(* pass over the rows that speak for a head, keeping a map from reviewer   *)
(* to latest verdict.  The ledger grows by any row a store may hold: rows  *)
(* Core writes, head-less rows of the old schema, unbound dismissals, and  *)
(* cross-author dismissals by a foreign writer with no recorded authority. *)
(***************************************************************************)
EXTENDS ReviewLedger

CONSTANTS Authors,    \* logins that appear in rows
          RowHeads,   \* heads that appear in rows and are asked about
          RowIds,     \* diff identities
          MaxRows     \* bound: rows of the ledger

VARIABLE ledger

PlainRows == [author : Authors, state : ReviewStates \ {"Dismissed"},
          head : RowHeads \cup {NoHead}, ids : RowIds \cup {NoIds},
          target : {0}, admin : {FALSE}]

Dismissals(n) == [author : Authors, state : {"Dismissed"},
                  head : RowHeads \cup {NoHead}, ids : {NoIds},
                  target : 0..n, admin : BOOLEAN]

LoopInit == ledger = << >>

LoopNext ==
    /\ Len(ledger) < MaxRows
    /\ \E row \in PlainRows \cup Dismissals(Len(ledger)) : ledger' = Append(ledger, row)

LoopSpec == LoopInit /\ [][LoopNext]_ledger

-----------------------------------------------------------------------------
\* `latest` without the entry of one reviewer (0: no entry).
Cleared(latest, author) == [latest EXCEPT ![author] = 0]

\* Mutant of StepReview: an ignored self approval still replaces the verdict.
StepForgettingSelf(R, author, latest, i) ==
    LET row == R[i]
        cur == latest[row.author]
    IN  IF i \in WithdrawnVerdicts(R) THEN Cleared(latest, row.author)
        ELSE IF Ignored(R, i, author) THEN Cleared(latest, row.author)
        ELSE IF row.state \in Verdicts THEN [latest EXCEPT ![row.author] = i]
        ELSE latest

\* The body of the loop for row i.
StepReview(R, author, latest, i) ==
    LET row == R[i]
        cur == latest[row.author]
    IN  CASE i \in WithdrawnVerdicts(R) -> Cleared(latest, row.author)
          [] i \notin WithdrawnVerdicts(R) /\ Ignored(R, i, author) -> latest
          [] OTHER ->
               IF row.state \in Verdicts THEN [latest EXCEPT ![row.author] = i]
               ELSE IF /\ row.state = "Dismissed"
                       /\ cur # 0
                       /\ IF row.target # 0 THEN row.target = cur
                                            ELSE R[cur].state = "Approved"
                 THEN Cleared(latest, row.author)
               ELSE latest

\* The map from reviewer to latest verdict after the first n rows.
LatestAfter(R, head, ids, reach, author) ==
    LET after[n \in 0 .. Len(R)] ==
            IF n = 0 THEN [a \in Authors |-> 0]
            ELSE IF Speaks(R, n, head, ids, reach) THEN StepReview(R, author, after[n - 1], n)
            ELSE after[n - 1]
    IN  after

\* reduce_reviews
ReduceReviews(R, head, ids, reach, author) ==
    { LatestAfter(R, head, ids, reach, author)[Len(R)][a] : a \in Authors } \ {0}

\* The loop and the closed form that the gate's model and proofs use select
\* the same rows, for every ledger, head, diff identity, reach and author.
LoopAgrees ==
    \A head \in RowHeads, ids \in RowIds \cup {NoIds}, reach \in Reaches,
       author \in Authors \cup {NoUser} :
        ReduceReviews(ledger, head, ids, reach, author)
            = Effective(ledger, head, ids, reach, author)
=============================================================================
