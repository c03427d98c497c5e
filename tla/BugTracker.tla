----------------------------- MODULE BugTracker -----------------------------
(* The bug store: reports are submitted, perhaps retried under a key, triaged  *)
(* and attempted by agents.  A bug's id is a digest of its report and of the   *)
(* time, so one report submitted twice at one instant has one id.              *)
EXTENDS Integers, Sequences, FiniteSets, SequencesExt

CONSTANTS
    Titles,             \* reports, told apart by what their id is a digest of
    SubmitKeys,         \* idempotency keys
    FailureLimit,       \* failed attempts after which a bug is offered no more; 3 in the code
    MaxSubmits, MaxAttemptsMade, MaxUpdates     \* bounds

ASSUME BugTrackerAssumption == {FailureLimit, MaxSubmits, MaxAttemptsMade, MaxUpdates} \subseteq Nat

VARIABLES
    bugs,       \* records by id
    bugEvents,  \* in order
    attempted,  \* attempts in order
    keyed,      \* bug of each idempotency key
    answers,    \* of each key: ids its submissions were answered with
    instant,
    submits

bugVars == <<bugs, bugEvents, attempted, keyed, answers, instant, submits>>

NoKey == "no key"
NoBug == [status |-> "absent"]

Terminal == {"done", "duplicate", "invalid", "cannot_reproduce", "wont_do"}
Open == {"needs_triage", "needs_info", "accepted", "ready", "in_progress", "blocked"}

BugId(title) == <<title, instant>>
BugIds == Titles \X (0 .. MaxUpdates)

\* Where a list has its entries about a bug.
Own(list, id) == {i \in DOMAIN list : list[i].bug = id}

EventsAbout(id) == Own(bugEvents, id)

\* attach_attempt_counts_locked.
AttemptCount(id) == Cardinality(Own(attempted, id))

FailedCount(id) == Cardinality({i \in Own(attempted, id) : attempted[i].status = "failed"})

\* list_bugs by status, and what ready_bugs offers to agents.
ListBugs(status) == {id \in BugIds : bugs[id].status = status}
ReadyBugs == {id \in ListBugs("ready") : FailedCount(id) < FailureLimit}

\* show_bug: a record with the events and attempts that are its own.
ShowBug(id) ==
    [bug |-> bugs[id], events |-> Restrict(bugEvents, EventsAbout(id)), attempts |-> Restrict(attempted, Own(attempted, id))]

\* CanonicalBugReport::validate: nothing to reproduce it with needs information.
InitialStatus(reproducible) == IF reproducible THEN "needs_triage" ELSE "needs_info"

\* Mutant of Retried: a retry is looked up only while its bug is open.
RetriedWhileOpen(key) == key # NoKey /\ keyed[key] # {} /\ \A id \in keyed[key] : bugs[id].status \notin Terminal

\* A submission whose key is known is answered with that key's bug.
Retried(key) == key # NoKey /\ keyed[key] # {}

Answered(key, id) == answers' = IF key = NoKey THEN answers ELSE [answers EXCEPT ![key] = @ \cup {id}]

SubmitBug(title, reproducible, key) ==
    LET id == BugId(title)
        status == InitialStatus(reproducible) IN
    /\ submits < MaxSubmits /\ submits' = submits + 1
    /\ IF Retried(key)
       THEN Answered(key, CHOOSE i \in keyed[key] : TRUE) /\ UNCHANGED <<bugs, bugEvents, keyed>>
       ELSE /\ bugs' = [bugs EXCEPT ![id] = [status |-> status]]
            /\ keyed' = IF key = NoKey THEN keyed ELSE [keyed EXCEPT ![key] = {id}]
            /\ bugEvents' = Append(bugEvents, [bug |-> id, status |-> status])
            /\ Answered(key, id)
    /\ UNCHANGED <<attempted, instant>>

\* Mutant of ValidTransition: anything may follow anything.
AnyTransition(from, to) == TRUE

\* validate_transition.
ValidTransition(from, to) == from \in Terminal => to = from

\* update_bug: it is called after the submission was answered, so later.
UpdateBug(id, status) ==
    /\ bugs[id] # NoBug /\ instant < MaxUpdates /\ instant' = instant + 1
    /\ ValidTransition(bugs[id].status, status)
    /\ bugs' = [bugs EXCEPT ![id].status = status]
    /\ bugEvents' = Append(bugEvents, [bug |-> id, status |-> status])
    /\ UNCHANGED <<attempted, keyed, answers, submits>>

\* record_attempt: it leaves the bug's status alone, whatever that is.
RecordAttempt(id, status) ==
    /\ bugs[id] # NoBug /\ Len(attempted) < MaxAttemptsMade
    /\ attempted' = Append(attempted, [bug |-> id, status |-> status])
    /\ bugEvents' = Append(bugEvents, [bug |-> id, status |-> "attempt"])
    /\ UNCHANGED <<bugs, keyed, answers, instant, submits>>

BugInit ==
    /\ bugs = [id \in BugIds |-> NoBug] /\ bugEvents = <<>> /\ attempted = <<>>
    /\ keyed = [k \in SubmitKeys |-> {}] /\ answers = [k \in SubmitKeys |-> {}]
    /\ instant = 0 /\ submits = 0

BugNext ==
    \/ \E title \in Titles, reproducible \in BOOLEAN, key \in SubmitKeys \cup {NoKey} :
          SubmitBug(title, reproducible, key)
    \/ \E id \in BugIds : \/ \E status \in {"ready", "done", "invalid"} : UpdateBug(id, status)
                          \/ \E status \in {"failed", "verified"} : RecordAttempt(id, status)

BugSpec == BugInit /\ [][BugNext]_bugVars

----------------------------------------------------------------------------
\* Of some entries of a list, those that tell of triage; and that the last tells a status.
Triaged(list, at) == {i \in at : list[i].status # "attempt"}
EndsWith(list, at, status) == \E i \in at : list[i].status = status /\ \A j \in at : j <= i

(* A key's submissions are all answered with one bug, however it was triaged   *)
(* in between; a bug's status is the last one its events tell, they began with *)
(* its submission and nothing follows a terminal status but itself; they tell  *)
(* of every attempt counted; and a bug is offered to agents exactly while its  *)
(* own page says so: last triaged as ready, and failed fewer times than the    *)
(* limit (submit_bug, update_bug, record_attempt, ready_bugs, show_bug).       *)
BugTrailIsTrue ==
    /\ \A k \in SubmitKeys : Cardinality(answers[k]) <= 1
    /\ \A id \in BugIds : bugs[id] # NoBug =>
          /\ EndsWith(bugEvents, Triaged(bugEvents, EventsAbout(id)), bugs[id].status)
          /\ \E i \in EventsAbout(id) : /\ bugEvents[i].status \in {"needs_triage", "needs_info"}
                                        /\ \A j \in EventsAbout(id) : i <= j
          /\ \A i, j \in Triaged(bugEvents, EventsAbout(id)) :
                i < j /\ bugEvents[i].status \in Terminal => bugEvents[j].status = bugEvents[i].status
    /\ \A id \in BugIds : Cardinality({i \in EventsAbout(id) : bugEvents[i].status = "attempt"}) = AttemptCount(id)
    /\ \A id \in BugIds :
          LET page == ShowBug(id)
              failed == {i \in DOMAIN page.attempts : page.attempts[i].status = "failed"} IN
          id \in ReadyBugs <=> /\ EndsWith(page.events, Triaged(page.events, DOMAIN page.events), "ready")
                               /\ Cardinality(failed) < FailureLimit
=============================================================================
