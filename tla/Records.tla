------------------------------- MODULE Records -------------------------------
(* Records that grow: the deploy history, which has tables of its own and is   *)
(* appended before memory changes; audit scores, kept up to a number per       *)
(* branch; and the waitlist, kept up to a number in all.                       *)
EXTENDS Integers, Sequences, FiniteSets, FiniteSetsExt, Sublists

CONSTANTS
    Environments,       \* environments of the one repository deployed
    MaxDeployments, MaxStatuses,    \* bounds of the model
    Shas, MaxScoresPerBranch,       \* commits of a branch; the code's cap
    Emails, MaxWaitlist,            \* addresses; the code's cap
    MaxTime                         \* bound on the clock

NoEmail == "not an email"
NoDeployment == 0
Names == {"old", "new"}     \* slugs of the repository

ASSUME RecordsAssumption ==
    /\ MaxScoresPerBranch \in Nat \ {0} /\ MaxWaitlist \in Nat \ {0}
    /\ NoEmail \notin Emails

VARIABLES
    running,    \* whether a forge has the file open
    slug,       \* the repository's name now
    deployments,                    \* in memory, a map by id: a set of rows
    statuses,                       \* in memory, in the order they were pushed
    storedDeployments, storedStatuses,      \* the tables of the file
    careful,    \* whether every success so far superseded the others
    stale,      \* a transfer has moved the repository since the last refresh
    scores,     \* of one branch, in the order of the vector
    lastScored, \* the score recorded last, if any
    newest,     \* the latest time of a score ever recorded
    rewound,    \* a commit's score has been replaced by an older one
    waitlist,   \* signups, a map by address as normalized
    clock

scoreVars == <<scores, lastScored, newest, rewound>>

recordVars == <<running, slug, deployments, statuses, storedDeployments, storedStatuses, careful, stale,
                scoreVars, waitlist, clock>>

deployVars == <<running, slug, deployments, statuses, storedDeployments, storedStatuses, careful, stale>>

----------------------------------------------------------------------------
(* Deployments *)
IdsOf(rows) == {r.id : r \in rows}
RowsOf(s) == {s[i] : i \in DOMAIN s}
NextDeploymentId == Max({0} \cup IdsOf(deployments)) + 1
NextStatusId == Max({0} \cup IdsOf(RowsOf(statuses))) + 1

\* The statuses of a deployment, as places in the list.
StatusesOf(d) == {i \in DOMAIN statuses : statuses[i].deployment = d}

\* latest_status: the last one appended.
LatestState(d) == IF StatusesOf(d) = {} THEN "none" ELSE statuses[Max(StatusesOf(d))].state

\* Ids of the deployments to an environment.
In(env) == IdsOf({d \in deployments : d.env = env})

\* append_deployment, then the insert: a refused append changes nothing.
CreateDeployment(env, transient, refused) ==
    LET d == [id |-> NextDeploymentId, env |-> env, transient |-> transient, slug |-> slug] IN
    /\ running /\ Cardinality(storedDeployments) < MaxDeployments
    /\ IF refused THEN UNCHANGED <<deployments, storedDeployments>>
       ELSE /\ storedDeployments' = storedDeployments \cup {d}
            /\ deployments' = deployments \cup {d}
    /\ UNCHANGED <<running, slug, statuses, storedStatuses, careful, stale, scoreVars, waitlist, clock>>

\* Mutant of Superseded: the deployments of every environment.
SupersededAnywhere(d) ==
    IdsOf({e \in deployments : e.id # d.id /\ ~e.transient /\ LatestState(e.id) = "success"})

\* Ids of the deployments a success replaces.
Superseded(d) ==
    IdsOf({e \in deployments : /\ e.id # d.id /\ e.env = d.env /\ ~e.transient
                               /\ LatestState(e.id) = "success"})

\* create_deployment_status: the status and an inactive one for each deployment
\* it replaces, in the order of their ids, in one append.
CreateDeploymentStatus(d, state, autoInactive, refused) ==
    LET replaced == InOrder(IF state = "success" /\ autoInactive THEN Superseded(d) ELSE {})
        batch == <<[id |-> NextStatusId, deployment |-> d.id, state |-> state]>>
                 \o [k \in DOMAIN replaced |->
                        [id |-> NextStatusId + k, deployment |-> replaced[k], state |-> "inactive"]]
    IN  /\ running /\ Cardinality(storedStatuses) < MaxStatuses
        /\ IF refused THEN UNCHANGED <<statuses, storedStatuses, careful>>
           ELSE /\ storedStatuses' = storedStatuses \cup RowsOf(batch)
                /\ statuses' = statuses \o batch
                /\ careful' = (careful /\ (state = "success" => autoInactive /\ ~d.transient))
        /\ UNCHANGED <<running, slug, deployments, storedDeployments, stale, scoreVars, waitlist, clock>>

\* summarize_environment: the id of a deployment's last success, none being 0;
\* the deployments that stand at a success, and the one whose success is newest;
\* and of the others that ever succeeded the one that did so last.
LastSuccess(d) ==
    LET won == {i \in StatusesOf(d) : statuses[i].state = "success"} IN
    IF won = {} THEN 0 ELSE statuses[Max(won)].id
Live(env) == {d \in In(env) : LatestState(d) = "success"}
LatestId(d) == statuses[Max(StatusesOf(d))].id
Current(env) ==
    IF Live(env) = {} THEN NoDeployment
    ELSE CHOOSE d \in Live(env) : \A e \in Live(env) : LatestId(e) <= LatestId(d)
Previous(env) ==
    LET before == {d \in In(env) \ {Current(env)} : LastSuccess(d) > 0} IN
    IF Current(env) = NoDeployment \/ before = {} THEN NoDeployment
    ELSE CHOOSE d \in before : \A e \in before : LastSuccess(e) <= LastSuccess(d)

\* refresh_deployment_slugs.
RefreshedSlugs(ds, name) == {[d EXCEPT !.slug = name] : d \in ds}

RenameDeployed(name) ==
    /\ running /\ name # slug /\ slug' = name
    /\ deployments' = RefreshedSlugs(deployments, name) /\ stale' = FALSE
    /\ UNCHANGED <<running, statuses, storedDeployments, storedStatuses, careful, scoreVars, waitlist, clock>>

\* commit_repository_transfer does not refresh the slugs.
TransferDeployed(name) ==
    /\ running /\ name # slug /\ slug' = name /\ stale' = (deployments # {})
    /\ UNCHANGED <<running, deployments, statuses, storedDeployments, storedStatuses, careful, scoreVars, waitlist, clock>>

StopForge ==
    /\ running /\ running' = FALSE
    /\ deployments' = {} /\ statuses' = <<>>
    /\ UNCHANGED <<slug, storedDeployments, storedStatuses, careful, stale, scoreVars, waitlist, clock>>

\* Rows in the order of their ids, which are a table's key.
ById(rows) == [k \in DOMAIN InOrder(IdsOf(rows)) |-> CHOOSE r \in rows : r.id = InOrder(IdsOf(rows))[k]]

\* load_deployments, then refresh_deployment_slugs.
StartForge ==
    /\ ~running /\ running' = TRUE
    /\ deployments' = RefreshedSlugs(storedDeployments, slug)
    /\ statuses' = ById(storedStatuses)
    /\ stale' = FALSE
    /\ UNCHANGED <<slug, storedDeployments, storedStatuses, careful, scoreVars, waitlist, clock>>

----------------------------------------------------------------------------
(* Audit scores.  Two records may carry one time. *)
WithoutCommit(s, sha) == Retained(s, {i \in DOMAIN s : s[i].sha # sha})

\* Mutant of OldestOf: the newest goes.
NewestOf(s) == CHOOSE i \in DOMAIN s : \A j \in DOMAIN s : s[j].time <= s[i].time

OldestOf(s) == CHOOSE i \in DOMAIN s : \A j \in DOMAIN s : s[j].time > s[i].time \/ (s[j].time = s[i].time /\ j >= i)

\* record_jankurai_score of a caller that read the clock at `read`, before it
\* took the lock: others may have read it later and come before.
RecordJankuraiScore(sha, read) ==
    LET score == [sha |-> sha, time |-> read]
        kept == Append(WithoutCommit(scores, sha), score) IN
    /\ scores' = IF Len(kept) > MaxScoresPerBranch THEN Retained(kept, DOMAIN kept \ {OldestOf(kept)}) ELSE kept
    /\ lastScored' = {score}
    /\ newest' = IF read > newest THEN read ELSE newest
    /\ rewound' = (rewound \/ \E i \in DOMAIN scores : scores[i].sha = sha /\ scores[i].time > read)
    /\ UNCHANGED <<deployVars, waitlist, clock>>

\* latest_jankurai_score: max_by_key takes the last of equal times.
LatestScore == CHOOSE i \in DOMAIN scores :
                 \A j \in DOMAIN scores : scores[j].time < scores[i].time \/ (scores[j].time = scores[i].time /\ j <= i)

----------------------------------------------------------------------------
(* The waitlist *)

\* An address as it is written, in lower case or not.
Written == [email : Emails \cup {NoEmail}, upper : BOOLEAN]

\* Mutant of NormalizeEmail: only the shape is checked.
EmailAsWritten(w) == w

\* normalize_waitlist_email: lower case.
NormalizeEmail(w) == [w EXCEPT !.upper = FALSE]

JoinWaitlist(w) ==
    LET email == NormalizeEmail(w) IN
    /\ w.email # NoEmail
    /\ email \notin waitlist /\ Cardinality(waitlist) < MaxWaitlist
    /\ waitlist' = waitlist \cup {email}
    /\ UNCHANGED <<deployVars, scoreVars, clock>>

Tick ==
    /\ clock < MaxTime /\ clock' = clock + 1
    /\ UNCHANGED <<deployVars, scoreVars, waitlist>>

RecordInit ==
    /\ running = TRUE /\ slug = "old" /\ deployments = {} /\ statuses = <<>>
    /\ storedDeployments = {} /\ storedStatuses = {} /\ careful = TRUE /\ stale = FALSE
    /\ scores = <<>> /\ lastScored = {} /\ newest = 0 /\ rewound = FALSE /\ waitlist = {} /\ clock = 0

DeployNext ==
    \/ \E env \in Environments, transient, refused \in BOOLEAN : CreateDeployment(env, transient, refused)
    \/ \E d \in deployments, state \in {"success", "failure"}, auto, refused \in BOOLEAN :
          CreateDeploymentStatus(d, state, auto, refused)
    \/ \E name \in Names : RenameDeployed(name) \/ TransferDeployed(name)
    \/ StopForge \/ StartForge

BoundedNext ==
    \/ \E sha \in Shas, read \in 0 .. clock : RecordJankuraiScore(sha, read)
    \/ \E w \in Written : JoinWaitlist(w)
    \/ Tick

RecordNext == DeployNext \/ BoundedNext

RecordSpec == RecordInit /\ [][RecordNext]_recordVars

----------------------------------------------------------------------------
(* The deploy history in memory is the one in the file, whatever was refused,  *)
(* and ids grow in it; where every success superseded the ones before it, an   *)
(* environment has at most one live deployment, the last that succeeded; none  *)
(* is retired but by a later success in its own environment; the one shown as  *)
(* previous succeeded, and nothing succeeded between it and the current one;   *)
(* and a rename, and every open, leave no deployment under a name the          *)
(* repository no longer has.                                                   *)
DeployTrailIsTrue ==
    running =>
        /\ RowsOf(statuses) = storedStatuses
        /\ RefreshedSlugs(deployments, "old") = RefreshedSlugs(storedDeployments, "old")
        /\ \A d, e \in deployments : d.id = e.id => d = e
        /\ \A i, j \in DOMAIN statuses : i < j => statuses[i].id < statuses[j].id
        /\ ~stale => \A d \in deployments : d.slug = slug
        /\ \A env \in Environments :
              /\ careful => \A d, e \in Live(env) : d = e
              /\ careful /\ Current(env) # NoDeployment =>
                    \A d \in In(env) : LastSuccess(d) <= LastSuccess(Current(env))
              /\ \A d \in In(env) : LatestState(d) = "inactive" =>
                    \E e \in In(env) : LastSuccess(e) > LastSuccess(d)
              /\ Previous(env) # NoDeployment =>
                    \A d \in In(env) \ {Current(env), Previous(env)} :
                        LastSuccess(d) < LastSuccess(Previous(env))

(* However the callers that record a score overtake one another, what is shown *)
(* as a branch's latest is the score recorded last or a newer one, and the     *)
(* newest ever recorded while no commit's score was replaced by an older one:  *)
(* the cap does not take it.  Each commit has one score; and the waitlist has  *)
(* one row per address, as first written, and none over the cap                *)
(* (record_jankurai_score, join_waitlist).                                     *)
BoundedRecordsKeepTheNewest ==
    /\ \A r \in lastScored :
          /\ scores # <<>> /\ scores[LatestScore].time >= r.time
          /\ scores[LatestScore].time = r.time => scores[LatestScore] = r
    /\ scores # <<>> /\ ~rewound => scores[LatestScore].time = newest
    /\ \A i, j \in DOMAIN scores : scores[i].sha = scores[j].sha => i = j
    /\ Len(scores) <= MaxScoresPerBranch /\ Cardinality(waitlist) <= MaxWaitlist
    /\ \A x, y \in waitlist : x.email = y.email => x = y

(* Deployments, scores and the waitlist, through refused writes, renames,      *)
(* retries, restarts and caps.                                                 *)
RecordsAreTrue == DeployTrailIsTrue /\ BoundedRecordsKeepTheNewest
=============================================================================
