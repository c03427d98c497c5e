-------------------------- MODULE BotCredentials ---------------------------
(***************************************************************************)
(* The credentials of bots: engine/bots.rs, engine/bot_tokens.rs,          *)
(* engine/team_bots.rs, and the account and team changes that must cut     *)
(* them off (engine/auth.rs, engine/password_recovery.rs,                  *)
(* engine/organizations.rs).                                               *)
(*                                                                         *)
(* A person's bot holds enrollment keys; a key is exchanged for a refresh  *)
(* token, which is rotated once per use.  Any bot can hold agent tokens; a *)
(* team bot has nothing else.  A credential is accepted only while the     *)
(* bot's status, its copy of the owner's auth_epoch, its credential        *)
(* generation, the key behind it and, for a team bot, the stewardship of   *)
(* the issuer all still stand.  They change independently.                 *)
(*                                                                         *)
(* Bots, keys, refresh tokens and agent tokens are numbered in the order   *)
(* they are made, which is also the order of their created_at and          *)
(* expires_at.  Every call but an enrollment checks what it needs again    *)
(* under the write lock, so it is one action; a write that fails restores  *)
(* the memory and is no step.  There is one organization.  Secrets,        *)
(* hashes, audit rows, activity and reach are left out.                    *)
(***************************************************************************)
EXTENDS Naturals, Sequences, FiniteSets

CONSTANTS Users, Admins,    \* accounts; those with the admin role
          Org, OrgOwners,   \* the organization and its owners
          Teams, NoTeam,    \* its teams
          Slugs,            \* names of bots
          Requests, Bodies, \* idempotency keys and request digests
          Never,
          RotationGrace, RefreshTtl, TokenTtl,  \* in ticks of the clock
          MaxLiveRefresh, MaxLiveTokens,
          \* Bounds of the model, not of the code:
          MaxNow, MaxEpoch, MaxGeneration, MaxBots, MaxKeys, MaxRefresh,
          MaxAgents, MaxEnrolling

ASSUME ParametersAreDeclared ==
    /\ Admins \subseteq Users /\ OrgOwners \subseteq Users
    /\ Org \notin Users /\ NoTeam \notin Teams /\ Never \notin Nat
    /\ RotationGrace \in Nat /\ RefreshTtl \in Nat /\ TokenTtl \in Nat
    /\ MaxLiveRefresh \in Nat \ {0} /\ MaxLiveTokens \in Nat

VARIABLES
    now,        \* the clock
    account,    \* status and auth_epoch of every account
    members,    \* the members of every team
    bots,       \* bots, in order of enrollment; none is ever removed
    enrolling,  \* enroll calls that have read the account but not stored the bot
    keys,       \* bot_keys, in order of creation; none is ever removed
    refresh,    \* bot_refresh: the stored rows, by number
    issued,     \* how many refresh tokens there have been
    operations, \* bot_operations of bot.token.refresh
    agents,     \* bot_access_tokens, in order of creation; none is ever removed
    answers     \* <<presented, returned>> for every rotation that succeeded

vars == <<now, account, members, bots, enrolling, keys, refresh, issued, operations,
          agents, answers>>

\* "locked" is also disabled: a change between the two moves the epoch of an
\* account without live tokens, as PasswordPath does.
Statuses == {"active", "locked", "pending_mfa"}

Accounts == [status : Statuses, epoch : Nat]
BotRecords == [owner : Users \cup {Org}, team : Teams \cup {NoTeam}, slug : Slugs,
               status : {"active", "suspended", "revoked"}, epoch : Nat, gen : Nat]

\* `under` is the account epoch a credential was issued under: history, which no
\* guard reads.
KeyRecords == [bot : Nat, retired : Nat \cup {Never}, revoked : BOOLEAN, under : Nat]
RefreshRecords == [bot : Nat, key : Nat, gen : Nat, expires : Nat,
                   used : Nat \cup {Never}]
AgentRecords == [bot : Nat, gen : Nat, issuer : Users, expires : Nat,
                 revoked : BOOLEAN, under : Nat]

\* A rotation by idempotency key: what was presented, and the sealed successor.
Operations == [token : Nat, request : Requests, body : Bodies, created : Nat,
               next : Nat]

TypeOK ==
    /\ now \in Nat
    /\ account \in [Users -> Accounts]
    /\ members \in [Teams -> SUBSET Users]
    /\ bots \in Seq(BotRecords)
    /\ enrolling \subseteq BotRecords
    /\ keys \in Seq(KeyRecords)
    /\ issued \in Nat
    /\ DOMAIN refresh \subseteq 1..issued
    /\ refresh \in [DOMAIN refresh -> RefreshRecords]
    /\ operations \subseteq Operations
    /\ agents \in Seq(AgentRecords)
    /\ answers \subseteq (1..issued) \X (1..issued)

Init ==
    /\ now = 0
    /\ account = [u \in Users |-> [status |-> "active", epoch |-> 0]]
    /\ members = [t \in Teams |-> {}]
    /\ bots = << >>
    /\ enrolling = {}
    /\ keys = << >>
    /\ refresh = << >>
    /\ issued = 0
    /\ operations = {}
    /\ agents = << >>
    /\ answers = {}

-----------------------------------------------------------------------------
(* Who may do what, and which credentials stand *)

\* AccountStatus::permits_authentication
Active(u) == account[u].status = "active"

\* may_run_organization
RunsOrganization(u) == Active(u) /\ u \in Admins \cup OrgOwners

Personal(b) == bots[b].owner # Org

\* is_steward
IsSteward(u, b) ==
    /\ ~Personal(b)
    /\ Active(u)
    /\ u \in Admins \cup members[bots[b].team]

\* managed_bot, may_manage_bot
Manages(u, b) == IF Personal(b) THEN bots[b].owner = u ELSE IsSteward(u, b)

\* bot_account_matches.  Organizations are never removed.
BotAccountMatches(b) ==
    /\ bots[b].status = "active"
    /\ Personal(b) => /\ Active(bots[b].owner)
                      /\ account[bots[b].owner].epoch = bots[b].epoch

\* key_is_live
KeyIsLive(k) == ~keys[k].revoked /\ (keys[k].retired # Never => keys[k].retired > now)

LiveKeys(b) == { k \in DOMAIN keys : keys[k].bot = b /\ KeyIsLive(k) }

\* token_is_live
TokenIsLive(i) ==
    /\ ~agents[i].revoked
    /\ agents[i].expires > now
    /\ agents[i].gen = bots[agents[i].bot].gen

\* issuer_still_stewards
IssuerStillStewards(i) ==
    ~Personal(agents[i].bot) => IsSteward(agents[i].issuer, agents[i].bot)

\* What a refresh token's bot and key must satisfy for it to be rotated.
RefreshStands(i) ==
    /\ BotAccountMatches(refresh[i].bot)
    /\ bots[refresh[i].bot].gen = refresh[i].gen
    /\ KeyIsLive(refresh[i].key)

\* exchange_bot_enrollment_key, authenticate_bot_access_token and a fresh
\* rotation would accept the credential now.
AcceptsKey(k) ==
    Personal(keys[k].bot) /\ KeyIsLive(k) /\ BotAccountMatches(keys[k].bot)
AcceptsAgent(i) ==
    /\ BotAccountMatches(agents[i].bot)
    /\ TokenIsLive(i)
    /\ IssuerStillStewards(i)
    /\ LiveKeys(agents[i].bot) # {}
AcceptsRefresh(i) ==
    /\ i \in DOMAIN refresh
    /\ refresh[i].used = Never
    /\ refresh[i].expires > now
    /\ RefreshStands(i)

\* The epoch a bot of this owner copies: a team bot follows no account.
EpochOf(owner) == IF owner = Org THEN 0 ELSE account[owner].epoch
EpochBehind(b) == EpochOf(bots[b].owner)

-----------------------------------------------------------------------------
(* Changes to the tables that several calls share *)

Restricted(rows, ids) == [i \in ids |-> rows[i]]

\* bot_refresh.retain(|_, token| token.bot_id not in bs)
DropRefresh(bs) == Restricted(refresh, { i \in DOMAIN refresh : refresh[i].bot \notin bs })

BumpGeneration(bs) ==
    [b \in DOMAIN bots |-> IF b \in bs THEN [bots[b] EXCEPT !.gen = @ + 1] ELSE bots[b]]

RevokeKeys(bs) ==
    [k \in DOMAIN keys |->
        IF keys[k].bot \in bs THEN [keys[k] EXCEPT !.revoked = TRUE] ELSE keys[k]]

\* revoke_matching
RevokeAgents(is) ==
    [i \in DOMAIN agents |->
        IF i \in is THEN [agents[i] EXCEPT !.revoked = TRUE] ELSE agents[i]]

\* revoke_tokens_issued_by
IssuedBy(u) == { i \in DOMAIN agents : ~Personal(agents[i].bot) /\ agents[i].issuer = u }

\* revoke_steward_tokens
StewardTokens(t, u) == { i \in IssuedBy(u) : bots[agents[i].bot].team = t }

BelowMaxGeneration(bs) == \A b \in bs : bots[b].gen < MaxGeneration

OwnBots(u) == { b \in DOMAIN bots : bots[b].owner = u }

\* invalidate_account_bots
InvalidateAccountBots(u) ==
    /\ keys' = RevokeKeys(OwnBots(u))
    /\ bots' = BumpGeneration(OwnBots(u))
    /\ refresh' = DropRefresh(OwnBots(u))

-----------------------------------------------------------------------------
(* Accounts and teams *)

\* reset_account_password, change_account_password, force_password_change and
\* recover_password, as bots see them: the epoch moves, and tokens this account
\* issued as a steward stay.
PasswordPath(u) ==
    /\ account[u].epoch < MaxEpoch
    /\ BelowMaxGeneration(OwnBots(u))
    /\ account' = [account EXCEPT ![u].epoch = @ + 1]
    /\ InvalidateAccountBots(u)
    /\ UNCHANGED <<now, members, enrolling, issued, operations, agents, answers>>

\* disable_account and lock_account, reactivate_account, mark_account_mfa_active
StatusChanges ==
    { <<from, "locked">> : from \in Statuses \ {"locked"} } \cup
    { <<"locked", "pending_mfa">>, <<"pending_mfa", "active">> }

\* Mutant of TransitionAccountStatus: the tokens the account issued are left alone.
TransitionKeepingTokens(u, status) ==
    /\ <<account[u].status, status>> \in StatusChanges
    /\ account[u].epoch < MaxEpoch
    /\ BelowMaxGeneration(OwnBots(u))
    /\ account' = [account EXCEPT ![u] = [status |-> status, epoch |-> @.epoch + 1]]
    /\ InvalidateAccountBots(u)
    /\ UNCHANGED <<now, members, enrolling, issued, operations, agents, answers>>

\* transition_account_status
TransitionAccountStatus(u, status) ==
    /\ <<account[u].status, status>> \in StatusChanges
    /\ account[u].epoch < MaxEpoch
    /\ BelowMaxGeneration(OwnBots(u))
    /\ account' = [account EXCEPT ![u] = [status |-> status, epoch |-> @.epoch + 1]]
    /\ InvalidateAccountBots(u)
    /\ agents' = IF status = "active" THEN agents ELSE RevokeAgents(IssuedBy(u))
    /\ UNCHANGED <<now, members, enrolling, issued, operations, answers>>

\* add_team_member
AddTeamMember(actor, t, u) ==
    /\ RunsOrganization(actor)
    /\ Active(u)
    /\ u \notin members[t]
    /\ members' = [members EXCEPT ![t] = @ \cup {u}]
    /\ UNCHANGED <<now, account, bots, enrolling, keys, refresh, issued, operations, agents,
                   answers>>

\* Mutant of RemoveTeamMember: the tokens the member issued are left alone.
RemoveMemberOnly(actor, t, u) ==
    /\ RunsOrganization(actor)
    /\ u \in members[t]
    /\ members' = [members EXCEPT ![t] = @ \ {u}]
    /\ UNCHANGED <<now, account, bots, enrolling, keys, refresh, issued, operations, agents,
                   answers>>

\* remove_team_member
RemoveTeamMember(actor, t, u) ==
    /\ RunsOrganization(actor)
    /\ u \in members[t]
    /\ members' = [members EXCEPT ![t] = @ \ {u}]
    /\ agents' = RevokeAgents(StewardTokens(t, u))
    /\ UNCHANGED <<now, account, bots, enrolling, keys, refresh, issued, operations, answers>>

-----------------------------------------------------------------------------
(* Enrollment, keys and status *)

SlugTaken(owner, slug) == \E b \in DOMAIN bots : bots[b].owner = owner /\ bots[b].slug = slug

\* Bots there are or may come to be.
Names == { <<bots[b].owner, bots[b].slug>> : b \in DOMAIN bots }
           \cup { <<e.owner, e.slug>> : e \in enrolling }

\* enroll_bot and enroll_team_bot up to store_enrolled_bot: the account, or the
\* right to run the organization, is read under a lock that is then released.  A
\* call that starts when the slug is taken can only fail, and is left out.
BeginEnroll(actor, owner, team, slug) ==
    /\ Active(actor)
    /\ \/ owner = actor /\ team = NoTeam
       \/ owner = Org /\ team # NoTeam /\ RunsOrganization(actor)
    /\ ~SlugTaken(owner, slug)
    /\ Cardinality(enrolling) < MaxEnrolling
    /\ Cardinality({<<owner, slug>>} \cup Names) <= MaxBots
    /\ enrolling' = enrolling \cup
          {[owner |-> owner, team |-> team, slug |-> slug, status |-> "active",
            epoch |-> EpochOf(owner), gen |-> 1]}
    /\ UNCHANGED <<now, account, members, bots, keys, refresh, issued, operations, agents,
                   answers>>

NewKey(b, epoch) == [bot |-> b, retired |-> Never, revoked |-> FALSE, under |-> epoch]

\* store_enrolled_bot, with the epoch the call read
StoreEnrolledBot(e) ==
    /\ ~SlugTaken(e.owner, e.slug)
    /\ Len(keys) < MaxKeys
    /\ bots' = Append(bots, e)
    /\ keys' = Append(keys, NewKey(Len(bots) + 1, e.epoch))
    /\ enrolling' = enrolling \ {e}
    /\ UNCHANGED <<now, account, members, refresh, issued, operations, agents, answers>>

\* store_enrolled_bot: the slug is taken
EnrollConflict(e) ==
    /\ SlugTaken(e.owner, e.slug)
    /\ enrolling' = enrolling \ {e}
    /\ UNCHANGED <<now, account, members, bots, keys, refresh, issued, operations, agents,
                   answers>>

EpochWasStale(b) == Personal(b) /\ bots[b].epoch # account[bots[b].owner].epoch

\* Mutant of OldKeys: a stale epoch leaves the old keys their grace.
OldKeysWithGrace(b) ==
    [k \in DOMAIN keys |->
        IF keys[k].bot = b /\ ~keys[k].revoked /\ keys[k].retired = Never
          THEN [keys[k] EXCEPT !.retired = now + RotationGrace] ELSE keys[k]]

\* What a rotation does to the keys the bot has: revoked at once when the epoch
\* was stale, otherwise retired after the grace unless already retiring.
OldKeys(b) ==
    [k \in DOMAIN keys |->
        IF keys[k].bot # b \/ keys[k].revoked THEN keys[k]
        ELSE IF EpochWasStale(b) THEN [keys[k] EXCEPT !.revoked = TRUE]
        ELSE IF keys[k].retired = Never
               THEN [keys[k] EXCEPT !.retired = now + RotationGrace]
        ELSE keys[k]]

\* rotate_bot_key
RotateBotKey(actor, b) ==
    /\ Active(actor)
    /\ Manages(actor, b)
    /\ bots[b].status # "revoked"
    /\ Len(keys) < MaxKeys
    /\ BelowMaxGeneration({b})
    /\ keys' = Append(OldKeys(b), NewKey(b, EpochBehind(b)))
    /\ bots' = [bots EXCEPT ![b].epoch = EpochBehind(b),
                            ![b].gen = IF EpochWasStale(b) THEN @ + 1 ELSE @]
    /\ refresh' = IF EpochWasStale(b) THEN DropRefresh({b}) ELSE refresh
    /\ UNCHANGED <<now, account, members, enrolling, issued, operations, agents, answers>>

\* suspend_bot.  Nothing sets a bot back to active.
SuspendBot(actor, b) ==
    /\ Manages(actor, b)
    /\ bots[b].status # "revoked"
    /\ bots' = [bots EXCEPT ![b].status = "suspended"]
    /\ UNCHANGED <<now, account, members, enrolling, keys, refresh, issued, operations, agents,
                   answers>>

\* revoke_bot
RevokeBot(actor, b) ==
    /\ Manages(actor, b)
    /\ BelowMaxGeneration({b})
    /\ bots' = [bots EXCEPT ![b].status = "revoked", ![b].gen = @ + 1]
    /\ keys' = RevokeKeys({b})
    /\ refresh' = DropRefresh({b})
    /\ UNCHANGED <<now, account, members, enrolling, issued, operations, agents, answers>>

-----------------------------------------------------------------------------
(* Refresh tokens *)

\* Mutant of CapLiveRefresh: the cap takes spent rows for live ones.
CapSpentRefresh(rows, b) ==
    LET mine == { i \in DOMAIN rows : rows[i].bot = b }
        excess == { i \in mine : Cardinality({ j \in mine : j >= i }) > MaxLiveRefresh }
    IN  Restricted(rows, DOMAIN rows \ excess)

\* cap_live_refresh: expired rows go, then the oldest unused ones above the cap.
CapLiveRefresh(rows, b) ==
    LET expired == { i \in DOMAIN rows : rows[i].bot = b /\ rows[i].expires <= now }
        live == { i \in DOMAIN rows \ expired : rows[i].bot = b /\ rows[i].used = Never }
        excess == { i \in live : Cardinality({ j \in live : j >= i }) > MaxLiveRefresh }
    IN  Restricted(rows, DOMAIN rows \ (expired \cup excess))

\* issue_refresh
IssueRefresh(rows, b, k) ==
    CapLiveRefresh(
        [i \in DOMAIN rows \cup {issued + 1} |->
            IF i \in DOMAIN rows THEN rows[i]
            ELSE [bot |-> b, key |-> k, gen |-> bots[b].gen, expires |-> now + RefreshTtl,
                  used |-> Never]], b)

\* exchange_bot_enrollment_key.  The secret is verified before the lock is taken;
\* a key's hash never changes and a key is never removed.
ExchangeBotEnrollmentKey(k) ==
    /\ AcceptsKey(k)
    /\ issued < MaxRefresh
    /\ refresh' = IssueRefresh(refresh, keys[k].bot, k)
    /\ issued' = issued + 1
    /\ UNCHANGED <<now, account, members, bots, enrolling, keys, operations, agents,
                   answers>>

\* Mutant of Spent: the presented row is not marked.
SpentUnmarked(i) == refresh

Spent(i) == [refresh EXCEPT ![i].used = now]

\* The rotation both calls make: the presented row is spent, a successor issued.
Rotate(i) ==
    /\ AcceptsRefresh(i)
    /\ issued < MaxRefresh
    /\ refresh' = IssueRefresh(Spent(i), refresh[i].bot, refresh[i].key)
    /\ issued' = issued + 1
    /\ answers' = answers \cup {<<i, issued + 1>>}
    /\ UNCHANGED <<now, account, members, bots, enrolling, keys, agents>>

\* Mutant of RevokeRefreshFamily: the generation moves, the rows stay.
BumpFamilyOnly(b) ==
    /\ BelowMaxGeneration({b})
    /\ refresh' = refresh
    /\ bots' = BumpGeneration({b})
    /\ UNCHANGED <<now, account, members, enrolling, issued, keys, agents, answers>>

\* revoke_refresh_family
RevokeRefreshFamily(b) ==
    /\ BelowMaxGeneration({b})
    /\ refresh' = DropRefresh({b})
    /\ bots' = BumpGeneration({b})
    /\ UNCHANGED <<now, account, members, enrolling, issued, keys, agents, answers>>

\* rotate_bot_refresh_token
RotateBotRefreshToken(i) == Rotate(i) /\ UNCHANGED operations

\* rotate_bot_refresh_token: a spent token is presented again
RefreshReused(i) ==
    /\ refresh[i].used # Never
    /\ RevokeRefreshFamily(refresh[i].bot)
    /\ UNCHANGED operations

\* prune_bot_operations
Pruned == { o \in operations : o.created + RotationGrace >= now }

\* within_rotation_grace
WithinRotationGrace(i) == refresh[i].used # Never /\ now <= refresh[i].used + RotationGrace

Recorded(i, request) == { o \in Pruned : o.token = i /\ o.request = request }

\* open_refresh_replay: the recorded successor is stored, unused, and of the
\* same bot, key and generation.
Replayable(i, o) ==
    /\ o.next \in DOMAIN refresh
    /\ LET next == refresh[o.next]
       IN  /\ next.used = Never /\ next.expires > now
           /\ next.bot = refresh[i].bot /\ next.key = refresh[i].key
           /\ next.gen = refresh[i].gen

\* rotate_bot_refresh_token_idempotent on an unused token
RotateIdempotent(i, request, body) ==
    /\ Recorded(i, request) = {}
    /\ Rotate(i)
    /\ operations' = Pruned \cup
          {[token |-> i, request |-> request, body |-> body, created |-> now,
            next |-> issued + 1]}

\* rotate_bot_refresh_token_idempotent: the retry of a completed rotation
ReplayRotation(i, o) ==
    /\ RefreshStands(i)
    /\ o \in Recorded(i, o.request)
    /\ WithinRotationGrace(i)
    /\ Replayable(i, o)
    /\ answers' = answers \cup {<<i, o.next>>}
    /\ operations' = Pruned
    /\ UNCHANGED <<now, account, members, bots, enrolling, keys, refresh, issued, agents>>

\* rotate_bot_refresh_token_idempotent: a spent token outside the replay path
ReuseIdempotent(i, request, body) ==
    /\ \A o \in Recorded(i, request) : o.body = body /\ ~WithinRotationGrace(i)
    /\ RefreshStands(i)
    /\ refresh[i].used # Never
    /\ RevokeRefreshFamily(refresh[i].bot)
    /\ operations' = Pruned

\* Every refusal of rotate_bot_refresh_token_idempotent after it has pruned:
\* another body, a bot or key that no longer stands, an unused expired token, a
\* successor that cannot be replayed.
RefuseIdempotent(i, request, body) ==
    /\ \/ \E o \in Recorded(i, request) : o.body # body
       \/ ~RefreshStands(i)
       \/ refresh[i].used = Never /\ refresh[i].expires <= now
       \/ \E o \in Recorded(i, request) :
             refresh[i].used = Never \/ (WithinRotationGrace(i) /\ ~Replayable(i, o))
    /\ Pruned # operations
    /\ operations' = Pruned
    /\ UNCHANGED <<now, account, members, bots, enrolling, keys, refresh, issued, agents,
                   answers>>

-----------------------------------------------------------------------------
(* Agent tokens *)

LiveTokens(b) == { i \in DOMAIN agents : agents[i].bot = b /\ TokenIsLive(i) }

TokenRoom(b) == Cardinality(LiveTokens(b)) < MaxLiveTokens

\* issue_bot_access_token
IssueBotAccessToken(actor, b) ==
    /\ Active(actor)
    /\ Manages(actor, b)
    /\ BotAccountMatches(b)
    /\ LiveKeys(b) # {}
    /\ TokenRoom(b)
    /\ Len(agents) < MaxAgents
    /\ agents' = Append(agents,
          [bot |-> b, gen |-> bots[b].gen, issuer |-> actor, expires |-> now + TokenTtl,
           revoked |-> FALSE, under |-> EpochBehind(b)])
    /\ UNCHANGED <<now, account, members, bots, enrolling, keys, refresh, issued, operations,
                   answers>>

\* revoke_bot_access_token
RevokeBotAccessToken(actor, i) ==
    /\ Manages(actor, agents[i].bot)
    /\ agents' = RevokeAgents({i})
    /\ UNCHANGED <<now, account, members, bots, enrolling, keys, refresh, issued, operations,
                   answers>>

\* revoke_issued_team_bot_tokens
RevokeIssuedTeamBotTokens(actor) ==
    /\ agents' = RevokeAgents(IssuedBy(actor))
    /\ UNCHANGED <<now, account, members, bots, enrolling, keys, refresh, issued, operations,
                   answers>>

Tick ==
    /\ now < MaxNow
    /\ now' = now + 1
    /\ UNCHANGED <<account, members, bots, enrolling, keys, refresh, issued, operations, agents,
                   answers>>

-----------------------------------------------------------------------------
PeopleSteps ==
    \E u \in Users :
        \/ PasswordPath(u)
        \/ \E status \in Statuses : TransitionAccountStatus(u, status)
        \/ \E t \in Teams, v \in Users : AddTeamMember(u, t, v) \/ RemoveTeamMember(u, t, v)

BotSteps ==
    \/ \E u \in Users, owner \in Users \cup {Org}, t \in Teams \cup {NoTeam}, s \in Slugs :
          BeginEnroll(u, owner, t, s)
    \/ \E e \in enrolling : StoreEnrolledBot(e) \/ EnrollConflict(e)
    \/ \E u \in Users, b \in DOMAIN bots :
          \/ RotateBotKey(u, b)
          \/ SuspendBot(u, b)
          \/ RevokeBot(u, b)
          \/ IssueBotAccessToken(u, b)
    \/ \E u \in Users, i \in DOMAIN agents : RevokeBotAccessToken(u, i)
    \/ \E u \in Users : RevokeIssuedTeamBotTokens(u)

RefreshSteps ==
    \/ \E k \in DOMAIN keys : ExchangeBotEnrollmentKey(k)
    \/ \E i \in DOMAIN refresh :
          \/ RotateBotRefreshToken(i)
          \/ RefreshReused(i)
          \/ \E r \in Requests, d \in Bodies :
                \/ RotateIdempotent(i, r, d)
                \/ ReuseIdempotent(i, r, d)
                \/ RefuseIdempotent(i, r, d)
          \/ \E o \in operations : ReplayRotation(i, o)

Next == PeopleSteps \/ BotSteps \/ RefreshSteps \/ Tick

Spec == Init /\ [][Next]_vars

-----------------------------------------------------------------------------
(* Properties *)

\* No credential issued before the owner's last password change, recovery, lock
\* or unlock is accepted, by any path, whatever the owner did to the bot since:
\* "the old enrollment key cannot mint a session" (BotRecord::auth_epoch), also
\* when the enrollment was in flight during the change.
OldEpochIsRefused ==
    /\ \A k \in DOMAIN keys : AcceptsKey(k) => keys[k].under = EpochBehind(keys[k].bot)
    /\ \A i \in DOMAIN refresh :
          AcceptsRefresh(i) => keys[refresh[i].key].under = EpochBehind(refresh[i].bot)
    /\ \A i \in DOMAIN agents :
          AcceptsAgent(i) => agents[i].under = EpochBehind(agents[i].bot)

\* A refresh token has one successor and a successor one predecessor, across
\* retries with an idempotency key, plain rotations and reuse; a completed
\* rotation by idempotency key belongs to a token that was spent by that rotation,
\* and names its only successor; and a stored refresh row is of its bot's current
\* generation and of a key of that bot: every path that ends a family empties it.
OneSuccessor ==
    /\ \A a \in answers, b \in answers : a[1] = b[1] <=> a[2] = b[2]
    /\ \A o \in operations :
          /\ o.token \in DOMAIN refresh => refresh[o.token].used = o.created
          /\ <<o.token, o.next>> \in answers
          /\ \A p \in operations : p.token = o.token => p = o
    /\ \A i \in DOMAIN refresh :
          /\ refresh[i].gen = bots[refresh[i].bot].gen
          /\ keys[refresh[i].key].bot = refresh[i].bot

\* Every unrevoked token of a team bot was issued by someone who still stewards
\* it: "a steward who leaves the team, or whose account is disabled or locked,
\* takes their tokens with them" (team_bots.rs), and rejoining does not bring
\* them back.
UnrevokedIssuersSteward ==
    \A i \in DOMAIN agents : agents[i].revoked \/ IssuerStillStewards(i)

\* "Reusing a spent refresh token without the matching idempotency key, or after
\* the grace window, still revokes the family" (docs/bots.md): whenever a spent
\* token of an active bot is presented under a request that recorded nothing, the
\* idempotent call takes the reuse path.
ReuseAlwaysRevokes ==
    \A i \in { j \in DOMAIN refresh : refresh[j].used # Never },
       r \in Requests, d \in Bodies :
        ( /\ Recorded(i, r) = {}
          /\ BotAccountMatches(refresh[i].bot)
          /\ BelowMaxGeneration({refresh[i].bot}) )
        => ENABLED ReuseIdempotent(i, r, d)

\* A credential that is once refused is refused for ever: no unlock, rejoin,
\* rotation or passage of time brings one back; and a spent token stays on record
\* until it expires, so that its reuse is noticed, unless its whole family goes
\* and the generation with it.
RefusedStaysRefused ==
    [][ /\ \A k \in DOMAIN keys : AcceptsKey(k)' => AcceptsKey(k)
        /\ \A i \in 1..issued : AcceptsRefresh(i)' => AcceptsRefresh(i)
        /\ \A i \in DOMAIN agents : AcceptsAgent(i)' => AcceptsAgent(i)
        /\ \A i \in DOMAIN refresh \ DOMAIN refresh' :
              refresh[i].expires > now /\ (\E a \in answers' : a[1] = i)
                => bots'[refresh[i].bot].gen > refresh[i].gen ]_vars
=============================================================================
