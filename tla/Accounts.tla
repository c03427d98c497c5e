------------------------------- MODULE Accounts -------------------------------
(* Accounts of the forge and what signs them in: passwords, web sessions,      *)
(* personal access tokens, recovery secrets, invitations; and the              *)
(* organizations and teams they belong to.  Every operation that issues or     *)
(* replaces a credential reads the account under one lock and writes under     *)
(* another, so a password change or a lock can come in between.                *)
EXTENDS Naturals, FiniteSets

CONSTANTS
    Logins,          \* login names, of accounts, users and organizations alike
    Requests,        \* requests in flight
    CredIds,         \* ids of sessions and personal tokens
    SecretIds,       \* ids of recovery secrets
    InviteIds,       \* ids of invitations
    ChallengeIds,    \* ids of activation challenges
    MaxAttempts,     \* wrong secrets an invitation or recovery survives (5)
    MaxOwners,       \* owners an organization may have (20)
    MaxEpoch         \* bound on credential changes of an account

ASSUME AccountsAssumption ==
    /\ MaxAttempts \in Nat \ {0} /\ MaxOwners \in Nat \ {0} /\ MaxEpoch \in Nat

VARIABLES
    accounts,      \* State.accounts
    users,         \* State.users: the profiles
    creds,         \* State.sessions and State.personal_tokens
    recoveries,    \* State.password_recoveries
    invitations,   \* State.invitations
    challenges,    \* State.activation_challenges
    ownerConsumed, \* State.bootstrap_owner_consumed
    orgs,          \* State.organizations: owners
    teams,         \* State.teams: members, one team per organization
    caller,        \* requests between two locks
    revoked        \* how often the credentials of a login were revoked

accountVars == <<accounts, users, creds, recoveries, invitations, challenges, ownerConsumed, orgs,
                 teams, caller, revoked>>

NoAccount == [status |-> "none", epoch |-> 0, must |-> FALSE, admin |-> FALSE]
None == [is |-> "none"]
NoOrg == [is |-> "none", owners |-> {}]
NoRequest == [step |-> "idle"]

HasAccount(l) == accounts[l].status # "none"
Active(l) == accounts[l].status = "Active"
HasOrg(l) == orgs[l].is = "org"
AdminExists == \E l \in Logins : HasAccount(l) /\ accounts[l].admin
ActiveAdmin == \E l \in Logins : Active(l) /\ accounts[l].admin

AccountInit ==
    /\ \E first \in SUBSET Logins :
         /\ Cardinality(first) <= 1
         /\ accounts = [l \in Logins |->
                          IF l \in first THEN [NoAccount EXCEPT !.status = "Active", !.admin = TRUE]
                          ELSE NoAccount]
         /\ users = first
    /\ creds = [c \in CredIds |-> None]
    /\ recoveries = [s \in SecretIds |-> None]
    /\ invitations = [i \in InviteIds |-> None]
    /\ challenges = [c \in ChallengeIds |-> None]
    /\ ownerConsumed = FALSE
    /\ orgs = [l \in Logins |-> NoOrg]
    /\ teams = [l \in Logins |-> None]
    /\ caller = [w \in Requests |-> NoRequest]
    /\ revoked = [l \in Logins |-> 0]

-----------------------------------------------------------------------------
(* Profiles and accounts                                                       *)

\* create_account; create_temporary_account goes on to force a password change
\* under a second lock.
CreateAccount(w, l, admin, temporary) ==
    /\ caller[w] = NoRequest
    /\ ~HasAccount(l) /\ ~HasOrg(l)
    /\ accounts' = [accounts EXCEPT ![l] = [NoAccount EXCEPT !.status = "Active", !.admin = admin]]
    /\ users' = users \union {l}
    /\ caller' = IF temporary THEN [caller EXCEPT ![w] = [step |-> "force", login |-> l]] ELSE caller
    /\ UNCHANGED <<creds, recoveries, invitations, challenges, ownerConsumed, orgs, teams, revoked>>

\* ensure_user: the profile is looked for under one lock ..
EnsureUser(w, l) ==
    /\ caller[w] = NoRequest
    /\ l \notin users
    /\ caller' = [caller EXCEPT ![w] = [step |-> "user", login |-> l]]
    /\ UNCHANGED <<accounts, users, creds, recoveries, invitations, challenges, ownerConsumed, orgs,
                   teams, revoked>>

\* .. and created under another, where create_user refuses one that is there
\* and the caller panics.
EnsureUserCreate(w) ==
    /\ caller[w].step = "user"
    /\ users' = users \union {caller[w].login}
    /\ caller' = [caller EXCEPT ![w] = NoRequest]
    /\ UNCHANGED <<accounts, creds, recoveries, invitations, challenges, ownerConsumed, orgs, teams,
                   revoked>>

-----------------------------------------------------------------------------
(* Credentials are revoked by moving the epoch and dropping the rows           *)

\* Mutant: the epoch stays.
SameEpoch(e) == e

\* next_auth_epoch.
NextAuthEpoch(e) == e + 1

DropCredentials(l) == [c \in CredIds |-> IF creds[c] # None /\ creds[c].login = l THEN None ELSE creds[c]]

\* What every password path and status change does to the account: a is the
\* account with the fields of its own already set.
Revoke(l, a) ==
    /\ revoked[l] < MaxEpoch
    /\ accounts' = [accounts EXCEPT ![l] = [a EXCEPT !.epoch = NextAuthEpoch(a.epoch)]]
    /\ creds' = DropCredentials(l)
    /\ revoked' = [revoked EXCEPT ![l] = @ + 1]

ResetAccountPassword(l) ==
    /\ HasAccount(l)
    /\ Revoke(l, [accounts[l] EXCEPT !.must = TRUE])
    /\ UNCHANGED <<users, recoveries, invitations, challenges, ownerConsumed, orgs, teams, caller>>

\* change_account_password: status and current password are looked at first, the
\* change is made under the write lock without another look.
VerifyCurrentPassword(w, l) ==
    /\ caller[w] = NoRequest /\ Active(l)
    /\ caller' = [caller EXCEPT ![w] = [step |-> "change", login |-> l]]
    /\ UNCHANGED <<accounts, users, creds, recoveries, invitations, challenges, ownerConsumed, orgs,
                   teams, revoked>>

ChangeAccountPassword(w) ==
    /\ caller[w].step = "change"
    /\ Revoke(caller[w].login, [accounts[caller[w].login] EXCEPT !.must = FALSE])
    /\ caller' = [caller EXCEPT ![w] = NoRequest]
    /\ UNCHANGED <<users, recoveries, invitations, challenges, ownerConsumed, orgs, teams>>

\* force_password_change(login, true), called alone or by
\* create_temporary_account.
ForcePasswordChange(l) ==
    /\ HasAccount(l)
    /\ Revoke(l, [accounts[l] EXCEPT !.must = TRUE])
    /\ UNCHANGED <<users, recoveries, invitations, challenges, ownerConsumed, orgs, teams>>

ForceTemporary(w) ==
    /\ caller[w].step = "force"
    /\ ForcePasswordChange(caller[w].login)
    /\ caller' = [caller EXCEPT ![w] = NoRequest]

ForceByOperator(l) == ForcePasswordChange(l) /\ UNCHANGED caller

\* force_password_change(login, false) revokes nothing.
ClearForcedChange(l) ==
    /\ HasAccount(l) /\ accounts[l].must
    /\ accounts' = [accounts EXCEPT ![l].must = FALSE]
    /\ UNCHANGED <<users, creds, recoveries, invitations, challenges, ownerConsumed, orgs, teams,
                   caller, revoked>>

\* disable, lock, reactivate, mark_account_mfa_active.
StatusStep(from, to) ==
    \/ to \in {"Disabled", "Locked"}
    \/ to = "PendingMfa" /\ from \in {"Disabled", "Locked"}
    \/ to = "Active" /\ from = "PendingMfa"

TransitionAccountStatus(l, to) ==
    /\ HasAccount(l) /\ accounts[l].status # to
    /\ StatusStep(accounts[l].status, to)
    /\ Revoke(l, [accounts[l] EXCEPT !.status = to])
    /\ UNCHANGED <<users, recoveries, invitations, challenges, ownerConsumed, orgs, teams, caller>>

-----------------------------------------------------------------------------
(* Sessions and personal access tokens                                         *)

\* require_active_account copies the account under a read lock.
RequireActiveAccount(w, l) ==
    /\ caller[w] = NoRequest /\ Active(l)
    /\ caller' = [caller EXCEPT ![w] = [step |-> "credential", login |-> l,
                                        epoch |-> accounts[l].epoch, born |-> revoked[l]]]
    /\ UNCHANGED <<accounts, users, creds, recoveries, invitations, challenges, ownerConsumed, orgs,
                   teams, revoked>>

\* create_session_with_ttl and create_personal_access_token insert what they
\* copied.
CreateCredential(w, c) ==
    /\ caller[w].step = "credential" /\ creds[c] = None
    /\ creds' = [creds EXCEPT ![c] = [is |-> "credential", login |-> caller[w].login,
                                      epoch |-> caller[w].epoch, born |-> caller[w].born]]
    /\ caller' = [caller EXCEPT ![w] = NoRequest]
    /\ UNCHANGED <<accounts, users, recoveries, invitations, challenges, ownerConsumed, orgs, teams,
                   revoked>>

\* revoke_session, revoke_personal_access_token, or the expiry of either.
RevokeCredential(c) ==
    /\ creds[c] # None
    /\ creds' = [creds EXCEPT ![c] = None]
    /\ UNCHANGED <<accounts, users, recoveries, invitations, challenges, ownerConsumed, orgs, teams,
                   caller, revoked>>

\* session_for_token, authenticate_personal_access_token.
Authenticates(c) ==
    /\ creds[c] # None /\ Active(creds[c].login)
    /\ accounts[creds[c].login].epoch = creds[c].epoch

-----------------------------------------------------------------------------
(* Password recovery                                                           *)

IsLive(r) == r # None /\ ~r.expired /\ r.attempts < MaxAttempts

\* retire_live_secrets and prune_dead_recoveries: dead ones go, and so do those
\* of the login.
Retired(rs, l) == [s \in SecretIds |-> IF IsLive(rs[s]) /\ rs[s].login # l THEN rs[s] ELSE None]

IssuePasswordRecovery(l, s) ==
    /\ Active(l)
    /\ Retired(recoveries, l)[s] = None
    /\ recoveries' = [Retired(recoveries, l) EXCEPT ![s] =
                        [is |-> "secret", login |-> l, epoch |-> accounts[l].epoch, attempts |-> 0,
                         expired |-> FALSE, born |-> revoked[l]]]
    /\ UNCHANGED <<accounts, users, creds, invitations, challenges, ownerConsumed, orgs, teams,
                   caller, revoked>>

\* verify_spend with the right secret.
VerifySpend(s) ==
    /\ IsLive(recoveries[s])
    /\ Active(recoveries[s].login)
    /\ accounts[recoveries[s].login].epoch = recoveries[s].epoch

\* recover_password: the check before the hash of the new password ..
CheckSpend(w, s) ==
    /\ caller[w] = NoRequest /\ VerifySpend(s)
    /\ caller' = [caller EXCEPT ![w] = [step |-> "recover", secret |-> s,
                                        login |-> recoveries[s].login, epoch |-> recoveries[s].epoch]]
    /\ UNCHANGED <<accounts, users, creds, recoveries, invitations, challenges, ownerConsumed, orgs,
                   teams, revoked>>

\* .. and the one after it, under the lock that spends the secret.
SpendAgrees(w) ==
    LET s == caller[w].secret IN
    /\ VerifySpend(s)
    /\ recoveries[s].login = caller[w].login /\ recoveries[s].epoch = caller[w].epoch

RecoverPassword(w) ==
    /\ caller[w].step = "recover"
    /\ IF SpendAgrees(w)
       THEN /\ Revoke(caller[w].login, [accounts[caller[w].login] EXCEPT !.must = FALSE])
            /\ recoveries' = Retired(recoveries, caller[w].login)
       ELSE UNCHANGED <<accounts, creds, revoked, recoveries>>
    /\ caller' = [caller EXCEPT ![w] = NoRequest]
    /\ UNCHANGED <<users, invitations, challenges, ownerConsumed, orgs, teams>>

CountWrongSecret(s) ==
    /\ IsLive(recoveries[s])
    /\ recoveries' = [recoveries EXCEPT ![s].attempts = @ + 1]
    /\ UNCHANGED <<accounts, users, creds, invitations, challenges, ownerConsumed, orgs, teams,
                   caller, revoked>>

ExpireSecret(s) ==
    /\ recoveries[s] # None /\ ~recoveries[s].expired
    /\ recoveries' = [recoveries EXCEPT ![s].expired = TRUE]
    /\ UNCHANGED <<accounts, users, creds, invitations, challenges, ownerConsumed, orgs, teams,
                   caller, revoked>>

-----------------------------------------------------------------------------
(* Invitations                                                                 *)

OpenInvitation(i) == invitations[i] # None /\ invitations[i].state = "open"
Usable(i) == OpenInvitation(i) /\ ~invitations[i].expired

\* create_account_invitation_inner; expired ones are marked revoked on the way.
\* An invitation may carry a seat in the team of organization t.
CreateInvitation(i, l, admin, bootstrap, t) ==
    /\ invitations[i] = None
    /\ bootstrap => admin /\ t = {}
    /\ ~HasAccount(l) /\ ~HasOrg(l)
    /\ bootstrap => ~ownerConsumed /\ ~AdminExists
    /\ \A o \in t : teams[o] # None
    /\ ~\E j \in InviteIds : Usable(j) /\ (invitations[j].login = l \/ (bootstrap /\ invitations[j].bootstrap))
    /\ invitations' = [j \in InviteIds |->
         IF j = i THEN [is |-> "invitation", login |-> l, admin |-> admin, bootstrap |-> bootstrap,
                        teams |-> t, state |-> "open", expired |-> FALSE, attempts |-> 0]
         ELSE IF OpenInvitation(j) /\ invitations[j].expired THEN [invitations[j] EXCEPT !.state = "revoked"]
         ELSE invitations[j]]
    /\ UNCHANGED <<accounts, users, creds, recoveries, challenges, ownerConsumed, orgs, teams, caller,
                   revoked>>

RevokeInvitation(i) ==
    /\ OpenInvitation(i)
    /\ invitations' = [invitations EXCEPT ![i].state = "revoked"]
    /\ UNCHANGED <<accounts, users, creds, recoveries, challenges, ownerConsumed, orgs, teams, caller,
                   revoked>>

ExpireInvitation(i) ==
    /\ Usable(i)
    /\ invitations' = [invitations EXCEPT ![i].expired = TRUE]
    /\ UNCHANGED <<accounts, users, creds, recoveries, challenges, ownerConsumed, orgs, teams, caller,
                   revoked>>

\* start_account_activation: every try counts, the right secret gets a challenge.
StartActivation(i, c, right) ==
    /\ Usable(i) /\ invitations[i].attempts < MaxAttempts
    /\ invitations' = [invitations EXCEPT ![i].attempts = @ + 1]
    /\ IF right THEN /\ challenges[c] = None
                     /\ challenges' = [challenges EXCEPT ![c] = [is |-> "challenge", invite |-> i]]
       ELSE UNCHANGED challenges
    /\ UNCHANGED <<accounts, users, creds, recoveries, ownerConsumed, orgs, teams, caller, revoked>>

\* What complete_account_activation asks of the invitation behind a challenge.
\* It looks for an account of that login, and for no organization.
MayActivate(i) ==
    /\ Usable(i) /\ invitations[i].attempts <= MaxAttempts
    /\ ~HasAccount(invitations[i].login)
    /\ \A o \in invitations[i].teams : teams[o] # None
    /\ invitations[i].bootstrap => ~ownerConsumed /\ ~AdminExists

CompleteActivation(c) ==
    /\ challenges[c] # None /\ MayActivate(challenges[c].invite)
    /\ LET i == challenges[c].invite
           l == invitations[i].login IN
       /\ accounts' = [accounts EXCEPT ![l] =
                         [NoAccount EXCEPT !.status = "PendingMfa", !.admin = invitations[i].admin]]
       /\ users' = users \union {l}
       /\ invitations' = [invitations EXCEPT ![i].state = "consumed"]
       /\ teams' = [o \in Logins |-> IF o \in invitations[i].teams
                                     THEN [teams[o] EXCEPT !.members = @ \union {l}] ELSE teams[o]]
       /\ ownerConsumed' = (ownerConsumed \/ invitations[i].bootstrap)
    /\ challenges' = [challenges EXCEPT ![c] = None]
    /\ UNCHANGED <<creds, recoveries, orgs, caller, revoked>>

-----------------------------------------------------------------------------
(* Organizations and teams                                                     *)

\* managed_organization: an active owner or an active administrator acts.
Managed(o) == HasOrg(o) /\ (ActiveAdmin \/ \E l \in orgs[o].owners : Active(l))

CreateOrganizationAs(o, owner) ==
    /\ ActiveAdmin /\ Active(owner)
    /\ ~HasOrg(o) /\ ~HasAccount(o) /\ o \notin users
    /\ orgs' = [orgs EXCEPT ![o] = [is |-> "org", owners |-> {owner}]]
    /\ UNCHANGED <<accounts, users, creds, recoveries, invitations, challenges, ownerConsumed, teams,
                   caller, revoked>>

AddOrganizationOwner(o, l) ==
    /\ Managed(o) /\ Active(l) /\ l \notin orgs[o].owners
    /\ Cardinality(orgs[o].owners) < MaxOwners
    /\ orgs' = [orgs EXCEPT ![o].owners = @ \union {l}]
    /\ UNCHANGED <<accounts, users, creds, recoveries, invitations, challenges, ownerConsumed, teams,
                   caller, revoked>>

RemoveOrganizationOwner(o, l) ==
    /\ Managed(o) /\ l \in orgs[o].owners
    /\ Cardinality(orgs[o].owners) # 1
    /\ orgs' = [orgs EXCEPT ![o].owners = @ \ {l}]
    /\ UNCHANGED <<accounts, users, creds, recoveries, invitations, challenges, ownerConsumed, teams,
                   caller, revoked>>

CreateTeamAs(o, members) ==
    /\ Managed(o) /\ teams[o] = None
    /\ \A l \in members : Active(l)
    /\ teams' = [teams EXCEPT ![o] = [is |-> "team", members |-> members]]
    /\ UNCHANGED <<accounts, users, creds, recoveries, invitations, challenges, ownerConsumed, orgs,
                   caller, revoked>>

AddTeamMember(o, l) ==
    /\ Managed(o) /\ teams[o] # None /\ Active(l) /\ l \notin teams[o].members
    /\ teams' = [teams EXCEPT ![o].members = @ \union {l}]
    /\ UNCHANGED <<accounts, users, creds, recoveries, invitations, challenges, ownerConsumed, orgs,
                   caller, revoked>>

RemoveTeamMember(o, l) ==
    /\ Managed(o) /\ teams[o] # None /\ l \in teams[o].members
    /\ teams' = [teams EXCEPT ![o].members = @ \ {l}]
    /\ UNCHANGED <<accounts, users, creds, recoveries, invitations, challenges, ownerConsumed, orgs,
                   caller, revoked>>

-----------------------------------------------------------------------------
AccountStep(l) ==
    \/ ResetAccountPassword(l) \/ ForceByOperator(l) \/ ClearForcedChange(l)
    \/ \E to \in {"PendingMfa", "Active", "Locked", "Disabled"} : TransitionAccountStatus(l, to)

\* Requests that issue or replace a credential, and those that create accounts
\* and profiles.
CredentialRequest(w) ==
    \/ ChangeAccountPassword(w) \/ RecoverPassword(w)
    \/ \E c \in CredIds : CreateCredential(w, c)
    \/ \E s \in SecretIds : CheckSpend(w, s)
    \/ \E l \in Logins : VerifyCurrentPassword(w, l) \/ RequireActiveAccount(w, l)

AccountRequest(w) ==
    \/ EnsureUserCreate(w) \/ ForceTemporary(w)
    \/ \E l \in Logins : EnsureUser(w, l) \/ \E a, t \in BOOLEAN : CreateAccount(w, l, a, t)

SecretStep(s) ==
    \/ CountWrongSecret(s) \/ ExpireSecret(s)
    \/ \E l \in Logins : IssuePasswordRecovery(l, s)

InvitationStep(i) ==
    \/ RevokeInvitation(i) \/ ExpireInvitation(i)
    \/ \E l \in Logins, a, b \in BOOLEAN, t \in SUBSET Logins : CreateInvitation(i, l, a, b, t)
    \/ \E c \in ChallengeIds, right \in BOOLEAN : StartActivation(i, c, right)

OrganizationStep(o) ==
    \/ \E l \in Logins : \/ CreateOrganizationAs(o, l) \/ AddOrganizationOwner(o, l)
                         \/ RemoveOrganizationOwner(o, l) \/ AddTeamMember(o, l)
                         \/ RemoveTeamMember(o, l)
    \/ \E ms \in SUBSET Logins : CreateTeamAs(o, ms)

AccountNext ==
    \/ \E l \in Logins : AccountStep(l) \/ OrganizationStep(l)
    \/ \E w \in Requests : CredentialRequest(w) \/ AccountRequest(w)
    \/ \E s \in SecretIds : SecretStep(s)
    \/ \E i \in InviteIds : InvitationStep(i)
    \/ \E c \in ChallengeIds : CompleteActivation(c)
    \/ \E c \in CredIds : RevokeCredential(c)

AccountSpec == AccountInit /\ [][AccountNext]_accountVars

-----------------------------------------------------------------------------
(* Properties                                                                  *)

\* A session, token or recovery secret that works was issued, from the lookup of
\* its account on, after the last time the account's credentials were revoked:
\* a password set, reset, forced or recovered, a lock, a disable, a reactivation
\* (auth_epoch and the dropped rows; docs/adr/0001).
NoCredentialOutlivesARevocation ==
    /\ \A c \in CredIds : Authenticates(c) => creds[c].born = revoked[creds[c].login]
    /\ \A s \in SecretIds : VerifySpend(s) => recoveries[s].born = revoked[recoveries[s].login]
=============================================================================
