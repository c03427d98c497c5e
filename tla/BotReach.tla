------------------------------ MODULE BotReach ------------------------------
(* What a bot may touch.  A person's bot acts under its owner's grants, a team *)
(* bot under grants of its own, and its reach narrows both.  A person's grant  *)
(* and a reach name a repository by owner and name, a team bot's grant by the  *)
(* repository's id: a rename, a delete or a reuse of a name must not turn one  *)
(* repository's permission into another's.                                     *)
EXTENDS Integers, Sequences, FiniteSets

CONSTANTS
    People,         \* accounts
    ForgeAdmins,    \* those with the administrator role
    Bots,           \* bot ids
    Places,         \* <<owner, name>>
    MaxChanges      \* bound on changes; a repository's id is the change that made it

Org == "org"
NoOwner == "no owner"
NoRepo == 0
RepoIds == 1 .. MaxChanges
NoGrant == "none"

ASSUME BotReachAssumption ==
    /\ ForgeAdmins \subseteq People /\ People # ForgeAdmins /\ Places # {}
    /\ Org \notin People /\ NoOwner \notin People
    /\ MaxChanges \in Nat \ {0}

VARIABLES
    here,       \* repository at each place
    hidden,     \* private repositories
    awake,      \* accounts that permit authentication
    grants,     \* a person's access to a place
    botGrants,  \* a team bot's access to a repository
    botOwner,   \* of each bot: a person, or Org; NoOwner until it is enrolled
    status,     \* of each bot
    reach,      \* of each bot, normalized at enrollment
    lastRepo,   \* the place a bot last touched, if any
    allowed,    \* grants to team bots a repository's administrators stand by
    changes

reachVars == <<here, hidden, awake, grants, botGrants, botOwner, status, reach, lastRepo, allowed, changes>>

\* A reach has a mode; owners, places and a task where the mode has them.
NoReach == [mode |-> "none", owners |-> {}, places |-> {}, task |-> 0]
General == [NoReach EXCEPT !.mode = "general"]
OwnersReach(os) == [NoReach EXCEPT !.mode = "owners", !.owners = os]
RepositoriesReach(ps) == [NoReach EXCEPT !.mode = "repositories", !.places = ps]
TaskReach(p, t) == [NoReach EXCEPT !.mode = "task", !.places = {p}, !.task = t]

Change == changes < MaxChanges /\ changes' = changes + 1

Enrolled(b) == botOwner[b] # NoOwner
PlaceOwner(p) == p[1]

----------------------------------------------------------------------------
(* Grants *)
AllowsWrite(access) == access \in {"write", "admin"}
AllowsRead(access) == access # NoGrant

StateIsAdmin(a) == a \in ForgeAdmins /\ a \in awake
AdministersRepository(a, p) == StateIsAdmin(a) \/ (a \in awake /\ grants[<<a, p>>] = "admin")

\* owner_grant_allows: an explicit grant, or a public read.  Forge admin is none.
OwnerGrantAllows(a, p, write) ==
    /\ a \in awake /\ here[p] # NoRepo
    /\ \/ ~write /\ here[p] \notin hidden
       \/ IF write THEN AllowsWrite(grants[<<a, p>>]) ELSE AllowsRead(grants[<<a, p>>])

OwnerHasGrant(a, p) == a \in awake /\ AllowsRead(grants[<<a, p>>])

\* grant_access: looked up by the id of what is at the place now.
GrantAccess(b, p) == IF here[p] = NoRepo THEN NoGrant ELSE botGrants[<<b, here[p]>>]

GrantAllows(b, p, write) ==
    /\ here[p] # NoRepo
    /\ \/ ~write /\ here[p] \notin hidden
       \/ IF write THEN GrantAccess(b, p) = "write" ELSE GrantAccess(b, p) # NoGrant

BotHasGrant(b, p) ==
    IF botOwner[b] = Org THEN GrantAccess(b, p) # NoGrant ELSE OwnerHasGrant(botOwner[b], p)

\* Mutant: an administrator's bot is an administrator.
AdminIsAGrant(b, p, write) ==
    IF botOwner[b] = Org THEN GrantAllows(b, p, write)
    ELSE OwnerGrantAllows(botOwner[b], p, write) \/ (here[p] # NoRepo /\ StateIsAdmin(botOwner[b]))

BotGrantAllows(b, p, write) ==
    IF botOwner[b] = Org THEN GrantAllows(b, p, write) ELSE OwnerGrantAllows(botOwner[b], p, write)

BotAccountMatches(b) == status[b] = "active" /\ (botOwner[b] = Org \/ botOwner[b] \in awake)

----------------------------------------------------------------------------
(* Authorization *)
ReachAllows(b, p, effect, task) ==
    CASE reach[b].mode = "general" -> TRUE
      [] reach[b].mode = "owners" -> PlaceOwner(p) \in reach[b].owners /\ BotHasGrant(b, p)
      [] reach[b].mode = "repositories" -> p \in reach[b].places
      [] OTHER -> p \in reach[b].places /\ (effect = "read" \/ task = reach[b].task)

ReachDenialCode(b, p, effect) ==
    IF reach[b].mode = "task" /\ effect = "write" /\ p \in reach[b].places
    THEN "task_not_granted" ELSE "repo_not_granted"

\* authorize_bot_call: the code a call is denied with, or "allowed".
Authorize(b, p, effect, task) ==
    LET canRead == BotGrantAllows(b, p, FALSE)
        canWrite == BotGrantAllows(b, p, TRUE) IN
    IF ~Enrolled(b) \/ ~BotAccountMatches(b) THEN "invalid"
    ELSE IF effect = "write" /\ canRead /\ ~canWrite THEN "insufficient_scope"
    ELSE IF IF effect = "write" THEN ~canWrite ELSE ~canRead THEN "repo_not_granted"
    ELSE IF ~ReachAllows(b, p, effect, task) THEN ReachDenialCode(b, p, effect)
    ELSE "allowed"

\* acting_repo_access: what the login of a team bot may do wherever a login's
\* access is checked.
ActingRepoAccess(b, p) == IF Enrolled(b) /\ BotAccountMatches(b) THEN GrantAccess(b, p) ELSE NoGrant

----------------------------------------------------------------------------
(* The roster of a repository *)
ReachListsRepo(b, p) ==
    CASE reach[b].mode = "general" -> BotHasGrant(b, p)
      [] reach[b].mode = "owners" -> PlaceOwner(p) \in reach[b].owners /\ BotHasGrant(b, p)
      [] OTHER -> p \in reach[b].places

\* Mutant: the reach is shown as it is stored.
ShowReach(r, p) == r

\* clip_reach: an owners reach is shown as this one repository.
ClipReach(r, p) ==
    CASE r.mode = "owners" -> RepositoriesReach({p})
      [] r.mode = "repositories" -> RepositoriesReach(r.places \cap {p})
      [] OTHER -> r

\* clip_activity.
ClipActivity(b, p) == lastRepo[b] \cap {p}

ListRepositoryBots(p) ==
    {[reach |-> ClipReach(reach[b], p), last |-> ClipActivity(b, p)] :
        b \in {x \in Bots : Enrolled(x) /\ ReachListsRepo(x, p)}}

----------------------------------------------------------------------------
(* Enrollment *)

\* owner_is_known, normalize_owners: known accounts and owners of repositories.
KnownOwner(o) == o \in People \cup {Org} \/ \E p \in Places : here[p] # NoRepo /\ PlaceOwner(p) = o

\* require_readable_repo, validate_task.
RequireReadableRepo(a, p) == OwnerGrantAllows(a, p, FALSE)

NormalizedReach(a, r) ==
    CASE r.mode = "owners" -> r.owners # {} /\ \A o \in r.owners : KnownOwner(o)
      [] r.mode \in {"repositories", "task"} ->
           r.places # {} /\ \A p \in r.places : RequireReadableRepo(a, p)
      [] OTHER -> TRUE

Reaches == {General} \cup {OwnersReach({PlaceOwner(p)}) : p \in Places}
           \cup {RepositoriesReach({p}) : p \in Places} \cup {TaskReach(p, 1) : p \in Places}

StoreEnrolledBot(b, o, r) ==
    /\ Change /\ botOwner' = [botOwner EXCEPT ![b] = o]
    /\ reach' = [reach EXCEPT ![b] = r]
    /\ status' = [status EXCEPT ![b] = "active"]
    /\ UNCHANGED <<here, hidden, awake, grants, botGrants, lastRepo, allowed>>

EnrollBot(a, b, r) ==
    a \in awake /\ ~Enrolled(b) /\ NormalizedReach(a, r) /\ StoreEnrolledBot(b, a, r)

\* A forge administrator enrolls a team bot; its reach is normalized by what
\* that person can read.
EnrollTeamBot(a, b, r) ==
    StateIsAdmin(a) /\ ~Enrolled(b) /\ NormalizedReach(a, r) /\ StoreEnrolledBot(b, Org, r)

\* suspend_bot and revoke_bot: neither touches grants.
EndBot(b) ==
    /\ Change /\ Enrolled(b) /\ status[b] = "active"
    /\ status' = [status EXCEPT ![b] = "revoked"]
    /\ UNCHANGED <<here, hidden, awake, grants, botGrants, botOwner, reach, lastRepo, allowed>>

\* An allowed call, and the observation the edge notes of it.
BotTouches(b, p, effect) ==
    /\ Authorize(b, p, effect, 1) = "allowed"
    /\ lastRepo' = [lastRepo EXCEPT ![b] = {p}]
    /\ UNCHANGED <<here, hidden, awake, grants, botGrants, botOwner, status, reach, allowed, changes>>

----------------------------------------------------------------------------
(* Team bots' grants *)

\* granting_context.
GrantingContext(a, b, p) == here[p] # NoRepo /\ AdministersRepository(a, p) /\ botOwner[b] = Org /\ Enrolled(b)

GrantBotRepository(a, b, p, access) ==
    /\ Change /\ GrantingContext(a, b, p) /\ status[b] # "revoked"
    /\ botGrants' = [botGrants EXCEPT ![<<b, here[p]>>] = access]
    /\ allowed' = {g \in allowed : g[1] # b \/ g[2] # here[p]} \cup {<<b, here[p], access>>}
    /\ UNCHANGED <<here, hidden, awake, grants, botOwner, status, reach, lastRepo>>

RevokeBotRepositoryGrant(a, b, p) ==
    /\ Change /\ GrantingContext(a, b, p) /\ botGrants[<<b, here[p]>>] # NoGrant
    /\ botGrants' = [botGrants EXCEPT ![<<b, here[p]>>] = NoGrant]
    /\ allowed' = {g \in allowed : g[1] # b \/ g[2] # here[p]}
    /\ UNCHANGED <<here, hidden, awake, grants, botOwner, status, reach, lastRepo>>

----------------------------------------------------------------------------
(* People and repositories *)
GrantRepoAccess(a, q, p, access) ==
    /\ Change /\ here[p] # NoRepo /\ AdministersRepository(a, p)
    /\ grants' = [grants EXCEPT ![<<q, p>>] = access]
    /\ UNCHANGED <<here, hidden, awake, botGrants, botOwner, status, reach, lastRepo, allowed>>

ToggleAccount(a) ==
    /\ Change /\ awake' = IF a \in awake THEN awake \ {a} ELSE awake \cup {a}
    /\ UNCHANGED <<here, hidden, grants, botGrants, botOwner, status, reach, lastRepo, allowed>>

CreateRepo(a, p, private) ==
    /\ Change /\ a \in awake /\ here[p] = NoRepo
    /\ here' = [here EXCEPT ![p] = changes']
    /\ hidden' = IF private THEN hidden \cup {changes'} ELSE hidden
    /\ grants' = [grants EXCEPT ![<<a, p>>] = "admin"]
    /\ UNCHANGED <<awake, botGrants, botOwner, status, reach, lastRepo, allowed>>

\* People's grants move with the repository; a team bot's need not, and a reach
\* does not.
RenameRepo(p, q) ==
    /\ Change /\ here[p] # NoRepo /\ here[q] = NoRepo
    /\ here' = [here EXCEPT ![q] = here[p], ![p] = NoRepo]
    /\ grants' = [x \in DOMAIN grants |-> IF x[2] = q THEN grants[<<x[1], p>>]
                                          ELSE IF x[2] = p THEN NoGrant ELSE grants[x]]
    /\ UNCHANGED <<hidden, awake, botGrants, botOwner, status, reach, lastRepo, allowed>>

\* delete_repository: team bots' grants go by id.
DropBotGrants(r) == [x \in DOMAIN botGrants |-> IF x[2] = r THEN NoGrant ELSE botGrants[x]]

DeleteRepo(p) ==
    /\ Change /\ here[p] # NoRepo
    /\ here' = [here EXCEPT ![p] = NoRepo]
    /\ grants' = [x \in DOMAIN grants |-> IF x[2] = p THEN NoGrant ELSE grants[x]]
    /\ botGrants' = DropBotGrants(here[p])
    /\ allowed' = {g \in allowed : g[2] # here[p]}
    /\ UNCHANGED <<hidden, awake, botOwner, status, reach, lastRepo>>

\* One private repository, with its administrator.
FirstPlace == CHOOSE p \in Places : TRUE
FirstAdmin == CHOOSE a \in People : a \notin ForgeAdmins

ReachInit ==
    /\ here = [p \in Places |-> IF p = FirstPlace THEN 1 ELSE NoRepo] /\ hidden = {1} /\ awake = People
    /\ grants = [x \in People \X Places |-> IF x = <<FirstAdmin, FirstPlace>> THEN "admin" ELSE NoGrant]
    /\ botGrants = [x \in Bots \X RepoIds |-> NoGrant]
    /\ botOwner = [b \in Bots |-> NoOwner] /\ status = [b \in Bots |-> "active"] /\ reach = [b \in Bots |-> NoReach]
    /\ lastRepo = [b \in Bots |-> {}] /\ allowed = {} /\ changes = 1

ReachNext ==
    \/ \E a \in People, p \in Places :
          \/ \E private \in BOOLEAN : CreateRepo(a, p, private)
          \/ \E q \in People, access \in {NoGrant, "read", "write"} : GrantRepoAccess(a, q, p, access)
          \/ \E b \in Bots : \/ RevokeBotRepositoryGrant(a, b, p)
                             \/ \E access \in {"read", "write"} : GrantBotRepository(a, b, p, access)
    \/ \E p \in Places : DeleteRepo(p) \/ \E q \in Places : RenameRepo(p, q)
    \/ \E a \in People : ToggleAccount(a) \/ \E b \in Bots, r \in Reaches : EnrollBot(a, b, r) \/ EnrollTeamBot(a, b, r)
    \/ \E b \in Bots : EndBot(b) \/ \E p \in Places, effect \in {"read", "write"} : BotTouches(b, p, effect)

ReachSpec == ReachInit /\ [][ReachNext]_reachVars

----------------------------------------------------------------------------
(* Whatever is renamed, deleted and created under names used before: a team    *)
(* bot writes only where an administrator of that very repository granted it   *)
(* write and nobody took it back, and reads a private repository only with a   *)
(* standing grant; a person's bot does nothing its owner could not; what       *)
(* authorize_bot allows a team bot, its login may do at every other check; and *)
(* what the roster of a repository tells of a bot names no other place,        *)
(* neither in its reach nor in its last activity (list_repository_bots).       *)
BotsStayWithinGrants ==
    /\ \A b \in Bots, p \in Places, effect \in {"read", "write"} :
          Authorize(b, p, effect, 1) = "allowed" =>
              IF botOwner[b] = Org
              THEN \/ effect = "read" /\ here[p] \notin hidden
                   \/ /\ \E g \in allowed : g[1] = b /\ g[2] = here[p] /\ (effect = "write" => g[3] = "write")
                      /\ effect = "write" => ActingRepoAccess(b, p) = "write"
              ELSE OwnerGrantAllows(botOwner[b], p, effect = "write")
    /\ \A p \in Places : \A e \in ListRepositoryBots(p) :
          e.reach.places \cup e.last \subseteq {p} /\ e.reach.owners = {}
=============================================================================
