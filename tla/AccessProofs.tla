---------------------------- MODULE AccessProofs ----------------------------
(* Proofs about who may sign in and what a bot may touch: a credential that    *)
(* works was issued after the last revocation of its account's credentials,    *)
(* and a bot stays within the grants that stand; about what bots do: an        *)
(* operation runs once, and a heartbeat acknowledged and a bot's newest event  *)
(* are not lost; and about the records kept beside them: the deploy history    *)
(* tells who is live and why, and the caps on scores and on the waitlist take  *)
(* the oldest.                                                                 *)
EXTENDS Accounts, BotReach, BotActivity, Records, FiniteSetTheorems, WellFoundedInduction, TLAPS

-----------------------------------------------------------------------------
(* Accounts.  The epoch of an account counts its revocations, so a credential  *)
(* that carries the epoch was born since the last of them.                     *)

Statuses == {"none", "Active", "PendingMfa", "Locked", "Disabled"}
AccountRecords == [status : Statuses, epoch : Nat, must : BOOLEAN, admin : BOOLEAN]
Credentials == [is : {"credential"}, login : Logins, epoch : Nat, born : Nat]
Secrets == [is : {"secret"}, login : Logins, epoch : Nat, attempts : Nat, expired : BOOLEAN, born : Nat]
Invitations ==
    [is : {"invitation"}, login : Logins, admin : BOOLEAN, bootstrap : BOOLEAN, teams : SUBSET Logins,
     state : {"open", "revoked", "consumed"}, expired : BOOLEAN, attempts : Nat]
Challenges == [is : {"challenge"}, invite : InviteIds]
Simple == [step : {"force", "user", "change"}, login : Logins]
Issuing == [step : {"credential"}, login : Logins, epoch : Nat, born : Nat]
Recovering == [step : {"recover"}, secret : SecretIds, login : Logins, epoch : Nat]

\* The epoch is the number of revocations, and nothing is revoked of a login
\* that has no account.
EpochsCount ==
    /\ accounts \in [Logins -> AccountRecords]
    /\ revoked \in [Logins -> Nat]
    /\ \A l \in Logins : /\ accounts[l].epoch = revoked[l]
                         /\ ~HasAccount(l) => revoked[l] = 0

\* Whatever carries an epoch carries that of the lookup it was born from.
CredsInv ==
    /\ creds \in [CredIds -> {None} \cup Credentials]
    /\ \A c \in CredIds : creds[c] # None => creds[c].born = creds[c].epoch

SecretsInv ==
    /\ recoveries \in [SecretIds -> {None} \cup Secrets]
    /\ \A s \in SecretIds : recoveries[s] # None => recoveries[s].born = recoveries[s].epoch

Calls == {NoRequest} \cup Simple \cup Issuing \cup Recovering

\* A request that changes a password has found an account.
GoodCall(r) ==
    /\ r \in Calls
    /\ r.step = "change" => HasAccount(r.login)
    /\ r.step = "credential" => r.born = r.epoch

CallersInv ==
    /\ caller \in [Requests -> Calls]
    /\ \A w \in Requests : GoodCall(caller[w])

InvitesInv ==
    /\ invitations \in [InviteIds -> {None} \cup Invitations]
    /\ challenges \in [ChallengeIds -> {None} \cup Challenges]

AccountInv == EpochsCount /\ CredsInv /\ SecretsInv /\ CallersInv /\ InvitesInv

LEMMA NoAccountIsARecord ==
    /\ NoAccount \in AccountRecords /\ NoAccount.status = "none" /\ NoAccount.epoch = 0
    /\ \A admin \in BOOLEAN, to \in Statuses :
          LET a == [NoAccount EXCEPT !.status = to, !.admin = admin] IN
          a \in AccountRecords /\ a.status = to /\ a.epoch = 0
  BY DEF NoAccount, AccountRecords, Statuses

\* The kinds of rows and of requests are told apart.
LEMMA Kinds ==
    /\ None \notin Credentials /\ None \notin Secrets
    /\ NoRequest.step = "idle"
    /\ \A x \in Simple : x.step \in {"force", "user", "change"} /\ x.login \in Logins
    /\ \A x \in Issuing : x.step = "credential"
    /\ \A x \in Recovering : x.step = "recover"
<1>1. None.is = "none" /\ \A x \in Credentials \cup Secrets : x.is # "none"
  BY DEF None, Credentials, Secrets
<1> QED
  BY <1>1 DEF NoRequest, Simple, Issuing, Recovering

LEMMA AccountInitHolds == AccountInit => AccountInv
<1> SUFFICES ASSUME AccountInit PROVE AccountInv
  OBVIOUS
<1>1. PICK first \in SUBSET Logins :
          accounts = [l \in Logins |-> IF l \in first THEN [NoAccount EXCEPT !.status = "Active", !.admin = TRUE]
                                       ELSE NoAccount]
  BY DEF AccountInit
<1>2. PICK a : a = [NoAccount EXCEPT !.status = "Active", !.admin = TRUE]
  OBVIOUS
<1>3. a \in AccountRecords /\ a.epoch = 0
  BY <1>2 DEF NoAccount, AccountRecords, Statuses
<1>4. accounts \in [Logins -> AccountRecords] /\ \A l \in Logins : accounts[l].epoch = 0
  BY <1>1, <1>2, <1>3, NoAccountIsARecord
<1>5. EpochsCount
  BY <1>4 DEF AccountInit, EpochsCount
<1>6. CallersInv
  BY Kinds DEF AccountInit, CallersInv, GoodCall, Calls
<1> QED
  BY <1>5, <1>6 DEF AccountInit, AccountInv, CredsInv, SecretsInv, InvitesInv

\* An account never goes away.
AccountsStay == \A l \in Logins : HasAccount(l) => HasAccount(l)'

LEMMA CallOver ==
    ASSUME CallersInv, AccountsStay, NEW w \in Requests, NEW r, r \in Calls,
           r.step = "change" => HasAccount(r.login)',
           r.step = "credential" => r.born = r.epoch,
           caller' = [caller EXCEPT ![w] = r]
    PROVE  CallersInv'
<1>1. /\ caller' \in [Requests -> Calls] /\ caller'[w] = r
      /\ \A v \in Requests \ {w} : caller'[v] = caller[v]
  BY DEF CallersInv
<1>2. ASSUME NEW v \in Requests \ {w} PROVE GoodCall(caller[v])'
  <2>1. caller[v] \in Calls /\ caller[v].step = "change" => caller[v].login \in Logins
    BY Kinds DEF CallersInv, Calls
  <2> QED
    BY <1>1, <2>1 DEF CallersInv, GoodCall, AccountsStay
<1>3. GoodCall(caller[w])'
  BY <1>1 DEF GoodCall
<1> QED
  BY <1>1, <1>2, <1>3 DEF CallersInv

LEMMA CallEnds ==
    ASSUME CallersInv, AccountsStay, NEW w \in Requests, caller' = [caller EXCEPT ![w] = NoRequest]
    PROVE  CallersInv'
<1>1. NoRequest \in Calls /\ NoRequest.step = "idle"
  BY Kinds DEF Calls
<1> QED
  BY <1>1, CallOver

LEMMA CallsStay ==
    ASSUME CallersInv, AccountsStay, UNCHANGED caller
    PROVE  CallersInv'
<1>1. ASSUME NEW v \in Requests PROVE GoodCall(caller[v])'
  <2>1. caller[v] \in Calls /\ caller[v].step = "change" => caller[v].login \in Logins
    BY Kinds DEF CallersInv, Calls
  <2> QED
    BY <2>1 DEF CallersInv, GoodCall, AccountsStay
<1> QED
  BY <1>1 DEF CallersInv

\* Revocations move the epoch of their account and the count together.
LEMMA RevokeCounts ==
    ASSUME EpochsCount, CredsInv, NEW l \in Logins, HasAccount(l), NEW a \in AccountRecords,
           a.status # "none", a.epoch = accounts[l].epoch, Revoke(l, a)
    PROVE  EpochsCount' /\ CredsInv' /\ AccountsStay
<1>1. PICK n \in Nat : n = accounts[l].epoch /\ n = revoked[l]
  BY DEF EpochsCount, AccountRecords
<1> DEFINE b == [a EXCEPT !.epoch = n + 1]
<1>2. b \in AccountRecords /\ b.epoch = n + 1 /\ b.status # "none"
  BY DEF AccountRecords
<1>3. accounts' = [accounts EXCEPT ![l] = b] /\ revoked' = [revoked EXCEPT ![l] = n + 1]
  BY <1>1 DEF Revoke, NextAuthEpoch, EpochsCount
<1> HIDE DEF b
<1>4. /\ accounts' \in [Logins -> AccountRecords] /\ revoked' \in [Logins -> Nat]
      /\ accounts'[l] = b /\ revoked'[l] = n + 1
      /\ \A m \in Logins \ {l} : accounts'[m] = accounts[m] /\ revoked'[m] = revoked[m]
  BY <1>2, <1>3 DEF EpochsCount
<1>5. EpochsCount' /\ AccountsStay
  BY <1>2, <1>4 DEF EpochsCount, HasAccount, AccountsStay
<1>6. \A c \in CredIds : creds'[c] \in {None, creds[c]}
  BY DEF Revoke, DropCredentials
<1>7. DOMAIN creds' = CredIds /\ creds' = [c \in CredIds |-> creds'[c]]
  BY DEF Revoke, DropCredentials
<1>8. CredsInv'
  BY <1>6, <1>7 DEF CredsInv
<1> QED
  BY <1>5, <1>8

LEMMA NewAccountCounts ==
    ASSUME EpochsCount, NEW l, ~HasAccount(l), NEW a \in AccountRecords,
           a.status # "none", a.epoch = 0, accounts' = [accounts EXCEPT ![l] = a], UNCHANGED revoked
    PROVE  EpochsCount' /\ AccountsStay
<1>1. /\ accounts' \in [Logins -> AccountRecords] /\ l \in Logins => accounts'[l] = a
      /\ \A m \in Logins : m # l => accounts'[m] = accounts[m]
  BY DEF EpochsCount
<1> QED
  BY <1>1 DEF EpochsCount, HasAccount, AccountsStay

LEMMA AccountsUnchanged ==
    ASSUME EpochsCount, UNCHANGED <<accounts, revoked>>
    PROVE  EpochsCount' /\ AccountsStay
  BY DEF EpochsCount, HasAccount, AccountsStay

LEMMA CredsUnchanged == ASSUME CredsInv, UNCHANGED creds PROVE CredsInv'
  BY DEF CredsInv

LEMMA SecretsUnchanged == ASSUME SecretsInv, UNCHANGED recoveries PROVE SecretsInv'
  BY DEF SecretsInv

LEMMA InvitesUnchanged == ASSUME InvitesInv, UNCHANGED <<invitations, challenges>> PROVE InvitesInv'
  BY DEF InvitesInv

LEMMA RetiredSecrets ==
    ASSUME SecretsInv, NEW l
    PROVE  /\ Retired(recoveries, l) \in [SecretIds -> {None} \cup Secrets]
           /\ \A s \in SecretIds : Retired(recoveries, l)[s] \in {None, recoveries[s]}
  BY DEF SecretsInv, Retired

LEMMA AccountStepKeeps ==
    ASSUME AccountInv, NEW l \in Logins, AccountStep(l)
    PROVE  AccountInv'
<1>0. accounts[l] \in AccountRecords
  BY DEF AccountInv, EpochsCount
<1>1. ASSUME HasAccount(l), Revoke(l, [accounts[l] EXCEPT !.must = TRUE]), UNCHANGED <<recoveries, caller, invitations, challenges>>
      PROVE  AccountInv'
  <2>0. PICK a : a = [accounts[l] EXCEPT !.must = TRUE]
    OBVIOUS
  <2>1. a \in AccountRecords /\ a.status = accounts[l].status /\ a.epoch = accounts[l].epoch
    BY <1>0, <2>0 DEF AccountRecords
  <2>2. EpochsCount' /\ CredsInv' /\ AccountsStay
    BY <1>1, <2>0, <2>1, RevokeCounts DEF AccountInv, HasAccount
  <2> QED
    BY <1>1, <2>2, CallsStay, InvitesUnchanged, SecretsUnchanged DEF AccountInv
<1>2. CASE ResetAccountPassword(l) \/ ForceByOperator(l)
  BY <1>1, <1>2 DEF ResetAccountPassword, ForceByOperator, ForcePasswordChange
<1>3. CASE ClearForcedChange(l)
  <2>0. PICK a : a = [accounts[l] EXCEPT !.must = FALSE]
    OBVIOUS
  <2>1. a \in AccountRecords /\ a.status = accounts[l].status /\ a.epoch = accounts[l].epoch
    BY <1>0, <2>0 DEF AccountRecords
  <2>2. accounts' = [accounts EXCEPT ![l] = a] /\ UNCHANGED <<revoked, creds, recoveries, caller, invitations, challenges>>
    BY <1>3, <2>0, <2>1 DEF ClearForcedChange
  <2>3. /\ accounts' \in [Logins -> AccountRecords] /\ accounts'[l] = a
        /\ \A m \in Logins \ {l} : accounts'[m] = accounts[m]
    <3>1. accounts \in [Logins -> AccountRecords]
      BY DEF AccountInv, EpochsCount
    <3> QED
      BY <2>1, <2>2, <3>1
  <2>4. EpochsCount' /\ AccountsStay
    BY <2>1, <2>2, <2>3 DEF AccountInv, EpochsCount, HasAccount, AccountsStay
  <2> QED
    BY <2>2, <2>4, CallsStay, InvitesUnchanged, CredsUnchanged, SecretsUnchanged DEF AccountInv
<1>4. ASSUME NEW to \in {"PendingMfa", "Active", "Locked", "Disabled"}, TransitionAccountStatus(l, to)
      PROVE  AccountInv'
  <2>0. PICK a : a = [accounts[l] EXCEPT !.status = to]
    OBVIOUS
  <2>1. a \in AccountRecords /\ a.status = to /\ a.epoch = accounts[l].epoch
    BY <1>0, <2>0 DEF AccountRecords, Statuses
  <2>2. EpochsCount' /\ CredsInv' /\ AccountsStay
    BY <1>4, <2>0, <2>1, RevokeCounts DEF AccountInv, TransitionAccountStatus
  <2> QED
    BY <1>4, <2>2, CallsStay, InvitesUnchanged, SecretsUnchanged DEF AccountInv, TransitionAccountStatus
<1> QED
  BY <1>2, <1>3, <1>4 DEF AccountStep

LEMMA PasswordRequestKeeps ==
    ASSUME AccountInv, NEW w \in Requests, ChangeAccountPassword(w) \/ RecoverPassword(w) \/ ForceTemporary(w)
    PROVE  AccountInv'
<1>0. caller[w] \in Calls
  BY DEF AccountInv, CallersInv
<1>1. ASSUME NEW l \in Logins, HasAccount(l), NEW must \in BOOLEAN,
             Revoke(l, [accounts[l] EXCEPT !.must = must])
      PROVE  EpochsCount' /\ CredsInv' /\ AccountsStay
  <2>0. PICK a : a = [accounts[l] EXCEPT !.must = must]
    OBVIOUS
  <2>1. a \in AccountRecords /\ a.status = accounts[l].status /\ a.epoch = accounts[l].epoch
    <3>1. accounts[l] \in AccountRecords
      BY DEF AccountInv, EpochsCount
    <3> QED
      BY <2>0, <3>1 DEF AccountRecords
  <2> QED
    BY <1>1, <2>0, <2>1, RevokeCounts DEF AccountInv, HasAccount
<1>2. CASE ChangeAccountPassword(w)
  <2>1. caller[w].login \in Logins /\ HasAccount(caller[w].login)
    BY <1>0, <1>2, Kinds DEF ChangeAccountPassword, AccountInv, CallersInv, GoodCall, Calls
  <2>2. EpochsCount' /\ CredsInv' /\ AccountsStay
    BY <1>1, <1>2, <2>1 DEF ChangeAccountPassword
  <2> QED
    BY <1>2, <2>2, CallEnds, InvitesUnchanged, SecretsUnchanged DEF AccountInv, ChangeAccountPassword
<1>3. CASE ForceTemporary(w)
  <2>1. caller[w].login \in Logins /\ HasAccount(caller[w].login)
    BY <1>0, <1>3, Kinds DEF ForceTemporary, ForcePasswordChange, Calls
  <2>2. EpochsCount' /\ CredsInv' /\ AccountsStay
    BY <1>1, <1>3, <2>1 DEF ForceTemporary, ForcePasswordChange
  <2> QED
    BY <1>3, <2>2, CallEnds, InvitesUnchanged, SecretsUnchanged DEF AccountInv, ForceTemporary, ForcePasswordChange
<1>4. CASE RecoverPassword(w) /\ SpendAgrees(w)
  <2>1. caller[w] \in Recovering
    BY <1>0, <1>4, Kinds DEF RecoverPassword, Calls
  <2>2. caller[w].login \in Logins /\ HasAccount(caller[w].login)
    BY <1>4, <2>1 DEF Recovering, SpendAgrees, VerifySpend, Active, HasAccount
  <2>3. EpochsCount' /\ CredsInv' /\ AccountsStay
    BY <1>1, <1>4, <2>2 DEF RecoverPassword
  <2>4. SecretsInv'
    BY <1>4, RetiredSecrets DEF AccountInv, SecretsInv, RecoverPassword
  <2> QED
    BY <1>4, <2>3, <2>4, CallEnds, InvitesUnchanged DEF AccountInv, RecoverPassword
<1>5. CASE RecoverPassword(w) /\ ~SpendAgrees(w)
  BY <1>5, CallEnds, InvitesUnchanged, AccountsUnchanged, CredsUnchanged, SecretsUnchanged DEF AccountInv, RecoverPassword
<1> QED
  BY <1>2, <1>3, <1>4, <1>5

LEMMA CredentialRequestKeeps ==
    ASSUME AccountInv, NEW w \in Requests, CredentialRequest(w)
    PROVE  AccountInv'
<1>1. ASSUME NEW c \in CredIds, CreateCredential(w, c) PROVE AccountInv'
  <2>1. caller[w] \in Issuing /\ caller[w].born = caller[w].epoch
    BY <1>1, Kinds DEF CreateCredential, AccountInv, CallersInv, GoodCall, Calls
  <2>2. PICK r : r = [is |-> "credential", login |-> caller[w].login,
                      epoch |-> caller[w].epoch, born |-> caller[w].born]
    OBVIOUS
  <2>3. r \in Credentials /\ r.born = r.epoch
    BY <2>1, <2>2 DEF Issuing, Credentials
  <2>4. creds' = [creds EXCEPT ![c] = r]
    BY <1>1, <2>2 DEF CreateCredential
  <2>5. CredsInv'
    BY <2>3, <2>4 DEF AccountInv, CredsInv
  <2> QED
    BY <1>1, <2>5, CallEnds, InvitesUnchanged, AccountsUnchanged, SecretsUnchanged DEF AccountInv, CreateCredential
<1>2. ASSUME NEW s \in SecretIds, CheckSpend(w, s) PROVE AccountInv'
  <2>1. recoveries[s] \in Secrets
    BY <1>2 DEF CheckSpend, VerifySpend, IsLive, AccountInv, SecretsInv
  <2>2. PICK r : r = [step |-> "recover", secret |-> s, login |-> recoveries[s].login, epoch |-> recoveries[s].epoch]
    OBVIOUS
  <2>3. r \in Recovering
    BY <2>1, <2>2 DEF Secrets, Recovering
  <2>4. r \in Calls /\ r.step = "recover" /\ caller' = [caller EXCEPT ![w] = r]
    BY <1>2, <2>2, <2>3 DEF CheckSpend, Calls
  <2> QED
    BY <1>2, <2>4, CallOver, InvitesUnchanged, AccountsUnchanged, CredsUnchanged, SecretsUnchanged DEF AccountInv, CheckSpend
<1>3. ASSUME NEW l \in Logins, VerifyCurrentPassword(w, l) PROVE AccountInv'
  <2>1. PICK r : r = [step |-> "change", login |-> l]
    OBVIOUS
  <2>2. r \in Calls /\ r.step = "change" /\ r.login = l /\ HasAccount(l)' /\ caller' = [caller EXCEPT ![w] = r]
    BY <1>3, <2>1 DEF VerifyCurrentPassword, Calls, Simple, HasAccount, Active
  <2> QED
    BY <1>3, <2>2, CallOver, InvitesUnchanged, AccountsUnchanged, CredsUnchanged, SecretsUnchanged
       DEF AccountInv, VerifyCurrentPassword, HasAccount
<1>4. ASSUME NEW l \in Logins, RequireActiveAccount(w, l) PROVE AccountInv'
  <2>1. PICK r : r = [step |-> "credential", login |-> l, epoch |-> accounts[l].epoch, born |-> revoked[l]]
    OBVIOUS
  <2>2. accounts[l].epoch = revoked[l] /\ revoked[l] \in Nat
    BY DEF AccountInv, EpochsCount
  <2>3. r \in Calls /\ r.step = "credential" /\ r.born = r.epoch
    BY <2>1, <2>2 DEF Calls, Issuing
  <2>4. caller' = [caller EXCEPT ![w] = r]
    BY <1>4, <2>1 DEF RequireActiveAccount
  <2> QED
    BY <1>4, <2>3, <2>4, CallOver, InvitesUnchanged, AccountsUnchanged, CredsUnchanged, SecretsUnchanged
       DEF AccountInv, RequireActiveAccount
<1> QED
  BY <1>1, <1>2, <1>3, <1>4, PasswordRequestKeeps DEF CredentialRequest

LEMMA AccountRequestKeeps ==
    ASSUME AccountInv, NEW w \in Requests, AccountRequest(w)
    PROVE  AccountInv'
<1>1. CASE EnsureUserCreate(w)
  BY <1>1, CallEnds, InvitesUnchanged, AccountsUnchanged, CredsUnchanged, SecretsUnchanged DEF AccountInv, EnsureUserCreate
<1>2. ASSUME NEW l \in Logins, EnsureUser(w, l) PROVE AccountInv'
  <2>1. PICK r : r = [step |-> "user", login |-> l]
    OBVIOUS
  <2>2. r \in Calls /\ r.step = "user" /\ caller' = [caller EXCEPT ![w] = r]
    BY <1>2, <2>1 DEF EnsureUser, Calls, Simple
  <2> QED
    BY <1>2, <2>2, CallOver, InvitesUnchanged, AccountsUnchanged, CredsUnchanged, SecretsUnchanged DEF AccountInv, EnsureUser
<1>3. ASSUME NEW l \in Logins, NEW admin \in BOOLEAN, NEW temporary \in BOOLEAN, CreateAccount(w, l, admin, temporary)
      PROVE  AccountInv'
  <2>1. PICK a \in AccountRecords : /\ a = [NoAccount EXCEPT !.status = "Active", !.admin = admin]
                                    /\ a.status = "Active" /\ a.epoch = 0
    BY NoAccountIsARecord DEF Statuses
  <2>2. EpochsCount' /\ AccountsStay
    BY <1>3, <2>1, NewAccountCounts DEF CreateAccount, AccountInv
  <2>3. CallersInv'
    <3>1. PICK r : r = [step |-> "force", login |-> l]
      OBVIOUS
    <3>2. r \in Calls /\ r.step = "force"
      BY <3>1 DEF Calls, Simple
    <3>3. caller' = [caller EXCEPT ![w] = r] \/ UNCHANGED caller
      BY <1>3, <3>1 DEF CreateAccount
    <3> QED
      BY <2>2, <3>2, <3>3, CallOver, CallsStay, InvitesUnchanged DEF AccountInv
  <2> QED
    BY <1>3, <2>2, <2>3, CredsUnchanged, SecretsUnchanged, InvitesUnchanged DEF AccountInv, CreateAccount
<1> QED
  BY <1>1, <1>2, <1>3, PasswordRequestKeeps DEF AccountRequest

LEMMA SecretStepKeeps ==
    ASSUME AccountInv, NEW s \in SecretIds, SecretStep(s)
    PROVE  AccountInv'
<1>1. ASSUME NEW r \in Secrets, r.born = r.epoch, NEW rs \in [SecretIds -> {None} \cup Secrets],
             \A t \in SecretIds : rs[t] \in {None, recoveries[t]},
             recoveries' = [rs EXCEPT ![s] = r], UNCHANGED <<accounts, revoked, creds, caller, invitations, challenges>>
      PROVE  AccountInv'
  <2>1. SecretsInv'
    BY <1>1 DEF AccountInv, SecretsInv
  <2> QED
    BY <1>1, <2>1, AccountsUnchanged, CallsStay, InvitesUnchanged, CredsUnchanged DEF AccountInv
<1>2. CASE CountWrongSecret(s)
  <2>1. recoveries[s] \in Secrets /\ recoveries[s].born = recoveries[s].epoch
    BY <1>2 DEF CountWrongSecret, IsLive, AccountInv, SecretsInv
  <2>2. PICK n \in Nat : n = recoveries[s].attempts + 1
    BY <2>1 DEF Secrets
  <2>3. PICK r : r = [recoveries[s] EXCEPT !.attempts = n]
    OBVIOUS
  <2>4. r \in Secrets /\ r.born = r.epoch /\ recoveries' = [recoveries EXCEPT ![s] = r]
    BY <1>2, <2>1, <2>2, <2>3 DEF Secrets, CountWrongSecret
  <2> QED
    BY <1>1, <1>2, <2>4 DEF CountWrongSecret, AccountInv, SecretsInv
<1>3. CASE ExpireSecret(s)
  <2>1. recoveries[s] \in Secrets /\ recoveries[s].born = recoveries[s].epoch
    BY <1>3 DEF ExpireSecret, AccountInv, SecretsInv
  <2>2. PICK r : r = [recoveries[s] EXCEPT !.expired = TRUE]
    OBVIOUS
  <2>3. r \in Secrets /\ r.born = r.epoch /\ recoveries' = [recoveries EXCEPT ![s] = r]
    BY <1>3, <2>1, <2>2 DEF Secrets, ExpireSecret
  <2> QED
    BY <1>1, <1>3, <2>3 DEF ExpireSecret, AccountInv, SecretsInv
<1>4. ASSUME NEW l \in Logins, IssuePasswordRecovery(l, s) PROVE AccountInv'
  <2>1. accounts[l].epoch = revoked[l] /\ revoked[l] \in Nat
    BY DEF AccountInv, EpochsCount
  <2>2. PICK r : r = [is |-> "secret", login |-> l, epoch |-> accounts[l].epoch, attempts |-> 0,
                      expired |-> FALSE, born |-> revoked[l]]
    OBVIOUS
  <2>3. r \in Secrets /\ r.born = r.epoch
    BY <2>1, <2>2 DEF Secrets
  <2>4. recoveries' = [Retired(recoveries, l) EXCEPT ![s] = r]
    BY <1>4, <2>2 DEF IssuePasswordRecovery
  <2> QED
    BY <1>1, <1>4, <2>3, <2>4, RetiredSecrets DEF IssuePasswordRecovery, AccountInv
<1> QED
  BY <1>2, <1>3, <1>4 DEF SecretStep

LEMMA InvitationStepTypes ==
    ASSUME AccountInv, NEW i \in InviteIds, InvitationStep(i)
    PROVE  InvitesInv'
<1>0. invitations \in [InviteIds -> {None} \cup Invitations] /\ challenges \in [ChallengeIds -> {None} \cup Challenges]
  BY DEF AccountInv, InvitesInv
<1>1. ASSUME NEW v \in Invitations, invitations' = [invitations EXCEPT ![i] = v], UNCHANGED challenges
      PROVE  InvitesInv'
  BY <1>0, <1>1 DEF InvitesInv
<1>2. CASE RevokeInvitation(i)
  <2>1. invitations[i] \in Invitations
    BY <1>0, <1>2 DEF RevokeInvitation, OpenInvitation
  <2>2. PICK v : v = [invitations[i] EXCEPT !.state = "revoked"]
    OBVIOUS
  <2>3. v \in Invitations /\ invitations' = [invitations EXCEPT ![i] = v] /\ UNCHANGED challenges
    BY <1>2, <2>1, <2>2 DEF Invitations, RevokeInvitation
  <2> QED
    BY <1>1, <2>3
<1>3. CASE ExpireInvitation(i)
  <2>1. invitations[i] \in Invitations
    BY <1>0, <1>3 DEF ExpireInvitation, Usable, OpenInvitation
  <2>2. PICK v : v = [invitations[i] EXCEPT !.expired = TRUE]
    OBVIOUS
  <2>3. v \in Invitations /\ invitations' = [invitations EXCEPT ![i] = v] /\ UNCHANGED challenges
    BY <1>3, <2>1, <2>2 DEF Invitations, ExpireInvitation
  <2> QED
    BY <1>1, <2>3
<1>4. ASSUME NEW c \in ChallengeIds, NEW right \in BOOLEAN, StartActivation(i, c, right) PROVE InvitesInv'
  <2>1. invitations[i] \in Invitations
    BY <1>0, <1>4 DEF StartActivation, Usable, OpenInvitation
  <2>2. PICK n \in Nat : n = invitations[i].attempts + 1
    BY <2>1 DEF Invitations
  <2>3. PICK v : v = [invitations[i] EXCEPT !.attempts = n]
    OBVIOUS
  <2>4. v \in Invitations /\ invitations' = [invitations EXCEPT ![i] = v]
    BY <1>4, <2>1, <2>2, <2>3 DEF Invitations, StartActivation
  <2>5. PICK h \in Challenges : h = [is |-> "challenge", invite |-> i]
    BY DEF Challenges
  <2>6. challenges' = [challenges EXCEPT ![c] = h] \/ UNCHANGED challenges
    BY <1>4, <2>5 DEF StartActivation
  <2> QED
    BY <1>0, <2>4, <2>6 DEF InvitesInv
<1>5. ASSUME NEW l \in Logins, NEW admin \in BOOLEAN, NEW bootstrap \in BOOLEAN, NEW t \in SUBSET Logins,
             CreateInvitation(i, l, admin, bootstrap, t)
      PROVE  InvitesInv'
  <2>1. PICK v : v = [is |-> "invitation", login |-> l, admin |-> admin, bootstrap |-> bootstrap,
                      teams |-> t, state |-> "open", expired |-> FALSE, attempts |-> 0]
    OBVIOUS
  <2>2. v \in Invitations
    BY <2>1 DEF Invitations
  <2>3. \A x \in Invitations : [x EXCEPT !.state = "revoked"] \in Invitations
    BY DEF Invitations
  <2>4. invitations' = [j \in InviteIds |->
                          IF j = i THEN v
                          ELSE IF OpenInvitation(j) /\ invitations[j].expired THEN [invitations[j] EXCEPT !.state = "revoked"]
                          ELSE invitations[j]]
    BY <1>5, <2>1 DEF CreateInvitation
  <2>5. ASSUME NEW j \in InviteIds PROVE invitations'[j] \in {None} \cup Invitations
    BY <1>0, <2>2, <2>3, <2>4 DEF OpenInvitation
  <2> QED
    BY <1>0, <1>5, <2>4, <2>5 DEF InvitesInv, CreateInvitation
<1> QED
  BY <1>2, <1>3, <1>4, <1>5 DEF InvitationStep

LEMMA AccountNextKeeps ==
    ASSUME AccountInv, AccountNext
    PROVE  AccountInv'
<1>1. ASSUME UNCHANGED <<accounts, revoked, creds, recoveries, caller, invitations, challenges>> PROVE AccountInv'
  BY <1>1, AccountsUnchanged, CallsStay, InvitesUnchanged, CredsUnchanged, SecretsUnchanged DEF AccountInv
<1>2. ASSUME NEW o \in Logins, OrganizationStep(o) PROVE AccountInv'
  BY <1>1, <1>2 DEF OrganizationStep, CreateOrganizationAs, AddOrganizationOwner, RemoveOrganizationOwner,
       CreateTeamAs, AddTeamMember, RemoveTeamMember
<1>3. ASSUME NEW i \in InviteIds, InvitationStep(i) PROVE AccountInv'
  <2>1. UNCHANGED <<accounts, revoked, creds, recoveries, caller>>
    BY <1>3 DEF InvitationStep, CreateInvitation, RevokeInvitation, ExpireInvitation, StartActivation
  <2> QED
    BY <1>3, <2>1, InvitationStepTypes, AccountsUnchanged, CallsStay, CredsUnchanged, SecretsUnchanged DEF AccountInv
<1>4. ASSUME NEW c \in ChallengeIds, CompleteActivation(c) PROVE AccountInv'
  <2>1. PICK i \in InviteIds : i = challenges[c].invite
    BY <1>4 DEF CompleteActivation, AccountInv, InvitesInv, Challenges
  <2>2. invitations[i] \in Invitations
    BY <1>4, <2>1 DEF CompleteActivation, MayActivate, Usable, OpenInvitation, AccountInv, InvitesInv
  <2>3. PICK l \in Logins, admin \in BOOLEAN : l = invitations[i].login /\ admin = invitations[i].admin
    BY <2>2 DEF Invitations
  <2>4. PICK a \in AccountRecords : /\ a = [NoAccount EXCEPT !.status = "PendingMfa", !.admin = admin]
                                    /\ a.status = "PendingMfa" /\ a.epoch = 0
    BY NoAccountIsARecord DEF Statuses
  <2>5. ~HasAccount(l) /\ accounts' = [accounts EXCEPT ![l] = a] /\ UNCHANGED <<creds, recoveries, caller, revoked>>
    BY <1>4, <2>1, <2>3, <2>4 DEF CompleteActivation, MayActivate
  <2>6. EpochsCount' /\ AccountsStay
    BY <2>4, <2>5, NewAccountCounts DEF AccountInv
  <2>7. InvitesInv'
    <3>1. PICK v : v = [invitations[i] EXCEPT !.state = "consumed"]
      OBVIOUS
    <3>2. v \in Invitations
      BY <2>2, <3>1 DEF Invitations
    <3>3. invitations' = [invitations EXCEPT ![i] = v] /\ challenges' = [challenges EXCEPT ![c] = None]
      BY <1>4, <2>1, <3>1 DEF CompleteActivation
    <3> QED
      BY <3>2, <3>3 DEF AccountInv, InvitesInv
  <2> QED
    BY <2>5, <2>6, <2>7, CallsStay, CredsUnchanged, SecretsUnchanged DEF AccountInv
<1>5. ASSUME NEW c \in CredIds, RevokeCredential(c) PROVE AccountInv'
  <2>1. CredsInv'
    BY <1>5 DEF RevokeCredential, AccountInv, CredsInv
  <2> QED
    BY <1>5, <2>1, AccountsUnchanged, CallsStay, InvitesUnchanged, SecretsUnchanged DEF AccountInv, RevokeCredential
<1> QED
  BY <1>2, <1>3, <1>4, <1>5, AccountStepKeeps, CredentialRequestKeeps, AccountRequestKeeps, SecretStepKeeps
     DEF AccountNext

\* A session, a token or a recovery secret that works was issued after the last
\* revocation of its account's credentials, whatever came between the lookup
\* and the insert (next_auth_epoch, create_session_with_ttl,
\* create_personal_access_token, issue_password_recovery, recover_password).
THEOREM CredentialsEndWithTheirEpoch == AccountSpec => []NoCredentialOutlivesARevocation
<1>1. AccountInv /\ [AccountNext]_accountVars => AccountInv'
  <2>1. AccountInv /\ UNCHANGED accountVars => AccountInv'
    BY AccountsUnchanged, CallsStay, InvitesUnchanged, CredsUnchanged, SecretsUnchanged DEF AccountInv, accountVars
  <2> QED
    BY <2>1, AccountNextKeeps
<1>2. AccountInv => NoCredentialOutlivesARevocation
  <2> SUFFICES ASSUME AccountInv PROVE NoCredentialOutlivesARevocation
    OBVIOUS
  <2>1. ASSUME NEW c \in CredIds, Authenticates(c) PROVE creds[c].born = revoked[creds[c].login]
    <3>1. creds[c].login \in Logins /\ creds[c].born = creds[c].epoch
      BY <2>1 DEF Authenticates, AccountInv, CredsInv, Credentials
    <3> QED
      BY <2>1, <3>1 DEF Authenticates, AccountInv, EpochsCount
  <2>2. ASSUME NEW s \in SecretIds, VerifySpend(s) PROVE recoveries[s].born = revoked[recoveries[s].login]
    <3>1. recoveries[s].login \in Logins /\ recoveries[s].born = recoveries[s].epoch
      BY <2>2 DEF VerifySpend, IsLive, AccountInv, SecretsInv, Secrets
    <3> QED
      BY <2>2, <3>1 DEF VerifySpend, AccountInv, EpochsCount
  <2> QED
    BY <2>1, <2>2 DEF NoCredentialOutlivesARevocation
<1> QED
  BY <1>1, <1>2, AccountInitHolds, PTL DEF AccountSpec

-----------------------------------------------------------------------------
(* Bots.  A team bot's grant stands where an administrator's decision does,    *)
(* because both are kept by the repository's id and go with it.                *)

GrantTable == [Bots \X RepoIds -> {NoGrant, "read", "write"}]

ReachInv ==
    /\ here \in [Places -> {NoRepo} \cup RepoIds]
    /\ botGrants \in GrantTable
    /\ reach \in [Bots -> Reaches \cup {NoReach}]
    /\ changes \in Nat \ {0}
    /\ \A b \in Bots, r \in RepoIds :
          botGrants[<<b, r>>] # NoGrant => <<b, r, botGrants[<<b, r>>]>> \in allowed

LEMMA ReachInitHolds == ReachInit => ReachInv
<1> SUFFICES ASSUME ReachInit PROVE ReachInv
  OBVIOUS
<1>1. 1 \in RepoIds
  BY BotReachAssumption DEF RepoIds
<1> QED
  BY <1>1 DEF ReachInit, ReachInv, GrantTable

LEMMA GrantKeeps ==
    ASSUME ReachInv, NEW a, NEW b \in Bots, NEW p \in Places, NEW access \in {"read", "write"},
           GrantBotRepository(a, b, p, access)
    PROVE  ReachInv'
<1>1. PICK id \in RepoIds : id = here[p]
  BY DEF ReachInv, GrantBotRepository, GrantingContext
<1>2. /\ botGrants' = [botGrants EXCEPT ![<<b, id>>] = access]
      /\ allowed' = {g \in allowed : g[1] # b \/ g[2] # id} \cup {<<b, id, access>>}
      /\ changes' = changes + 1 /\ UNCHANGED <<here, reach>>
  BY <1>1 DEF GrantBotRepository, Change
<1>3. /\ botGrants' \in GrantTable /\ botGrants'[<<b, id>>] = access
      /\ \A c \in Bots, r \in RepoIds : c # b \/ r # id => botGrants'[<<c, r>>] = botGrants[<<c, r>>]
  BY <1>2 DEF ReachInv, GrantTable
<1>4. ASSUME NEW c \in Bots, NEW r \in RepoIds, botGrants'[<<c, r>>] # NoGrant
      PROVE  <<c, r, botGrants'[<<c, r>>]>> \in allowed'
  <2>1. CASE c = b /\ r = id
    BY <1>2, <1>3, <2>1
  <2>2. CASE c # b \/ r # id
    <3>1. <<c, r, botGrants[<<c, r>>]>> \in allowed
      BY <1>3, <1>4, <2>2 DEF ReachInv
    <3> QED
      BY <1>2, <1>3, <2>2, <3>1
  <2> QED
    BY <2>1, <2>2
<1> QED
  BY <1>2, <1>3, <1>4 DEF ReachInv

LEMMA RevokeGrantKeeps ==
    ASSUME ReachInv, NEW a, NEW b \in Bots, NEW p \in Places, RevokeBotRepositoryGrant(a, b, p)
    PROVE  ReachInv'
<1>1. PICK id \in RepoIds : id = here[p]
  BY DEF ReachInv, RevokeBotRepositoryGrant, GrantingContext
<1>2. /\ botGrants' = [botGrants EXCEPT ![<<b, id>>] = NoGrant]
      /\ allowed' = {g \in allowed : g[1] # b \/ g[2] # id}
      /\ changes' = changes + 1 /\ UNCHANGED <<here, reach>>
  BY <1>1 DEF RevokeBotRepositoryGrant, Change
<1>3. /\ botGrants' \in GrantTable /\ botGrants'[<<b, id>>] = NoGrant
      /\ \A c \in Bots, r \in RepoIds : c # b \/ r # id => botGrants'[<<c, r>>] = botGrants[<<c, r>>]
  BY <1>2 DEF ReachInv, GrantTable
<1>4. ASSUME NEW c \in Bots, NEW r \in RepoIds, botGrants'[<<c, r>>] # NoGrant
      PROVE  <<c, r, botGrants'[<<c, r>>]>> \in allowed'
  <2>1. c # b \/ r # id
    BY <1>3, <1>4
  <2>2. <<c, r, botGrants[<<c, r>>]>> \in allowed
    BY <1>3, <1>4, <2>1 DEF ReachInv
  <2> QED
    BY <1>2, <1>3, <2>1, <2>2
<1> QED
  BY <1>2, <1>3, <1>4 DEF ReachInv

LEMMA DeleteRepoKeeps ==
    ASSUME ReachInv, NEW p \in Places, DeleteRepo(p)
    PROVE  ReachInv'
<1>1. PICK id \in RepoIds : id = here[p]
  BY DEF ReachInv, DeleteRepo
<1>2. /\ botGrants' = DropBotGrants(id) /\ allowed' = {g \in allowed : g[2] # id}
      /\ here' = [here EXCEPT ![p] = NoRepo] /\ changes' = changes + 1 /\ UNCHANGED reach
  BY <1>1 DEF DeleteRepo, Change
<1>3. /\ botGrants' \in GrantTable
      /\ \A c \in Bots : botGrants'[<<c, id>>] = NoGrant
      /\ \A c \in Bots, r \in RepoIds : r # id => botGrants'[<<c, r>>] = botGrants[<<c, r>>]
  BY <1>2 DEF ReachInv, GrantTable, DropBotGrants
<1>4. ASSUME NEW c \in Bots, NEW r \in RepoIds, botGrants'[<<c, r>>] # NoGrant
      PROVE  <<c, r, botGrants'[<<c, r>>]>> \in allowed'
  <2>1. r # id
    BY <1>3, <1>4
  <2>2. <<c, r, botGrants[<<c, r>>]>> \in allowed
    BY <1>3, <1>4, <2>1 DEF ReachInv
  <2> QED
    BY <1>2, <1>3, <2>1, <2>2
<1> QED
  BY <1>2, <1>3, <1>4 DEF ReachInv

LEMMA ReachNextKeeps ==
    ASSUME ReachInv, ReachNext
    PROVE  ReachInv'
<1>0. changes \in Nat \ {0} /\ here \in [Places -> {NoRepo} \cup RepoIds] /\ MaxChanges \in Nat
  BY BotReachAssumption DEF ReachInv
<1>1. ASSUME here' \in [Places -> {NoRepo} \cup RepoIds], changes' \in {changes, changes + 1},
             reach' \in [Bots -> Reaches \cup {NoReach}], UNCHANGED <<botGrants, allowed>>
      PROVE  ReachInv'
  BY <1>0, <1>1 DEF ReachInv
<1>2. ASSUME NEW a \in People, NEW p \in Places, NEW private \in BOOLEAN, CreateRepo(a, p, private) PROVE ReachInv'
  <2>1. changes' \in RepoIds
    BY <1>0, <1>2 DEF CreateRepo, Change, RepoIds
  <2> QED
    BY <1>0, <1>1, <1>2, <2>1 DEF CreateRepo, Change, ReachInv
<1>3. ASSUME NEW p \in Places, NEW q \in Places, RenameRepo(p, q) PROVE ReachInv'
  BY <1>0, <1>1, <1>3 DEF RenameRepo, Change, ReachInv
<1>4. ASSUME NEW b \in Bots, NEW o, NEW r \in Reaches, StoreEnrolledBot(b, o, r) PROVE ReachInv'
  <2>1. reach' \in [Bots -> Reaches \cup {NoReach}]
    BY <1>4 DEF StoreEnrolledBot, ReachInv
  <2> QED
    BY <1>0, <1>1, <1>4, <2>1 DEF StoreEnrolledBot, Change
<1>5. ASSUME NEW a \in People, NEW q \in People, NEW p \in Places, NEW access, GrantRepoAccess(a, q, p, access)
      PROVE  ReachInv'
  BY <1>0, <1>1, <1>5 DEF GrantRepoAccess, Change, ReachInv
<1>6. ASSUME NEW a \in People, ToggleAccount(a) PROVE ReachInv'
  BY <1>0, <1>1, <1>6 DEF ToggleAccount, Change, ReachInv
<1>7. ASSUME NEW b \in Bots, EndBot(b) PROVE ReachInv'
  BY <1>0, <1>1, <1>7 DEF EndBot, Change, ReachInv
<1>8. ASSUME NEW b \in Bots, NEW p \in Places, NEW effect, BotTouches(b, p, effect) PROVE ReachInv'
  BY <1>0, <1>1, <1>8 DEF BotTouches, ReachInv
<1> QED
  BY <1>2, <1>3, <1>4, <1>5, <1>6, <1>7, <1>8, GrantKeeps, RevokeGrantKeeps, DeleteRepoKeeps
     DEF ReachNext, EnrollBot, EnrollTeamBot

\* What is shown of a reach at a repository it covers names that repository only.
LEMMA ClippedReach ==
    ASSUME NEW p \in Places, NEW r \in Reaches \cup {NoReach}, r.mode \in {"general", "owners"} \/ p \in r.places
    PROVE  ClipReach(r, p).places \subseteq {p} /\ ClipReach(r, p).owners = {}
<1>1. /\ RepositoriesReach({p}).places = {p} /\ RepositoriesReach({p}).owners = {}
      /\ RepositoriesReach(r.places \cap {p}).places = r.places \cap {p}
      /\ RepositoriesReach(r.places \cap {p}).owners = {}
  BY DEF RepositoriesReach, NoReach
<1>2. CASE r \in {General, NoReach}
  BY <1>2 DEF ClipReach, General, NoReach
<1>3. ASSUME NEW q \in Places, r = OwnersReach({PlaceOwner(q)}) PROVE r.mode = "owners"
  BY <1>3 DEF OwnersReach, NoReach
<1>4. ASSUME NEW q \in Places, r = RepositoriesReach({q}) PROVE r.mode = "repositories"
  BY <1>4 DEF RepositoriesReach, NoReach
<1>5. ASSUME NEW q \in Places, r = TaskReach(q, 1)
      PROVE  r.mode = "task" /\ r.places = {q} /\ r.owners = {}
  BY <1>5 DEF TaskReach, NoReach
<1>6. CASE r \in {OwnersReach({PlaceOwner(q)}) : q \in Places}
  BY <1>1, <1>3, <1>6 DEF ClipReach
<1>7. CASE r \in {RepositoriesReach({q}) : q \in Places}
  BY <1>1, <1>4, <1>7 DEF ClipReach
<1>8. CASE r \in {TaskReach(q, 1) : q \in Places}
  <2>1. r.mode = "task" /\ r.places = {p} /\ r.owners = {}
    BY <1>5, <1>8
  <2> QED
    BY <2>1 DEF ClipReach
<1> QED
  BY <1>2, <1>6, <1>7, <1>8 DEF Reaches

\* A team bot writes only where a standing grant lets it and reads a private
\* repository only so, a person's bot does nothing its owner could not, and a
\* roster names no other place, whatever is renamed, deleted and created again
\* (authorize_bot_call, acting_repo_access, clip_reach, delete_repository).
THEOREM BotsKeepToTheirGrants == ReachSpec => []BotsStayWithinGrants
<1>1. ReachInv /\ [ReachNext]_reachVars => ReachInv'
  <2>1. ReachInv /\ UNCHANGED reachVars => ReachInv'
    BY DEF ReachInv, reachVars
  <2> QED
    BY <2>1, ReachNextKeeps
<1>2. ReachInv => BotsStayWithinGrants
  <2> SUFFICES ASSUME ReachInv PROVE BotsStayWithinGrants
    OBVIOUS
  <2>1. ASSUME NEW b \in Bots, NEW p \in Places, NEW effect \in {"read", "write"},
               Authorize(b, p, effect, 1) = "allowed"
        PROVE  IF botOwner[b] = Org
               THEN \/ effect = "read" /\ here[p] \notin hidden
                    \/ /\ \E g \in allowed : g[1] = b /\ g[2] = here[p] /\ (effect = "write" => g[3] = "write")
                       /\ effect = "write" => ActingRepoAccess(b, p) = "write"
               ELSE OwnerGrantAllows(botOwner[b], p, effect = "write")
    <3>1. /\ Enrolled(b) /\ BotAccountMatches(b)
          /\ effect = "write" => BotGrantAllows(b, p, TRUE)
          /\ effect = "read" => BotGrantAllows(b, p, FALSE)
      BY <2>1 DEF Authorize, ReachDenialCode
    <3>2. CASE botOwner[b] = Org
      <4>1. /\ here[p] # NoRepo
            /\ effect = "write" => GrantAccess(b, p) = "write"
            /\ effect = "read" => here[p] \notin hidden \/ GrantAccess(b, p) # NoGrant
        BY <3>1, <3>2 DEF BotGrantAllows, GrantAllows
      <4>2. here[p] \in RepoIds /\ GrantAccess(b, p) = botGrants[<<b, here[p]>>]
        BY <4>1 DEF ReachInv, GrantAccess
      <4>3. GrantAccess(b, p) # NoGrant => <<b, here[p], GrantAccess(b, p)>> \in allowed
        BY <4>2 DEF ReachInv
      <4>4. "write" # NoGrant
        BY DEF NoGrant
      <4> QED
        BY <3>1, <3>2, <4>1, <4>3, <4>4 DEF ActingRepoAccess
    <3>3. CASE botOwner[b] # Org
      BY <3>1, <3>3 DEF BotGrantAllows
    <3> QED
      BY <3>2, <3>3
  <2>2. ASSUME NEW p \in Places, NEW e \in ListRepositoryBots(p)
        PROVE  e.reach.places \cup e.last \subseteq {p} /\ e.reach.owners = {}
    <3>1. PICK b \in Bots : /\ Enrolled(b) /\ ReachListsRepo(b, p)
                            /\ e = [reach |-> ClipReach(reach[b], p), last |-> ClipActivity(b, p)]
      BY <2>2 DEF ListRepositoryBots
    <3>2. reach[b] \in Reaches \cup {NoReach} /\ (reach[b].mode \in {"general", "owners"} \/ p \in reach[b].places)
      BY <3>1 DEF ReachInv, ReachListsRepo
    <3> QED
      BY <3>1, <3>2, ClippedReach DEF ClipActivity
  <2> QED
    BY <2>1, <2>2 DEF BotsStayWithinGrants
<1> QED
  BY <1>1, <1>2, ReachInitHolds, PTL DEF ReachSpec

-----------------------------------------------------------------------------
(* Operations of bots.  Whoever runs one and has not outlived its reservation  *)
(* has the booking of its key: pruning leaves it, and while it is there no     *)
(* other caller is let in.                                                     *)

Somebody == Callers \union {Nobody}
Bookings == [digest : Digests \union {""}, by : Somebody, result : Somebody, late : BOOLEAN, created : Int]
FirstKey == CHOOSE k \in RequestKeys : TRUE
Asked == [at : {"idle", "running", "done"}, key : RequestKeys \union {FirstKey},
          digest : Digests \union {""}, since : Int]

OperationTypeOK ==
    /\ now \in Nat
    /\ booked \in [RequestKeys -> Bookings]
    /\ bookedFile \in [RequestKeys -> Bookings]
    /\ call \in [Callers -> Asked]

\* A result is of a call that was made, and of the request it is booked for.
ResultsAnswer(ops) ==
    \A k \in RequestKeys : ops[k].result # Nobody =>
        /\ call[ops[k].result].at # "idle"
        /\ ops[k].late \/ call[ops[k].result].digest = ops[k].digest

\* Who is not late has the booking of its key.
BookingsHold ==
    \A c \in Callers : call[c].at = "running" =>
        /\ call[c].key \in RequestKeys
        /\ ~Late(c) => /\ booked[call[c].key].by = c /\ booked[call[c].key].created = call[c].since
                       /\ booked[call[c].key].digest = call[c].digest

ReplaysAnswer ==
    \A r \in told : /\ r.from \in Callers /\ call[r.from].at # "idle"
                    /\ r.late \/ call[r.from].digest = r.asked

OperationInv ==
    /\ OperationTypeOK /\ BookingsHold /\ ReplaysAnswer
    /\ ResultsAnswer(booked) /\ ResultsAnswer(bookedFile)

\* An empty record is a record of nobody's.
LEMMA NoRecordIs ==
    /\ NoRecord \in Bookings /\ NoRecord.result = Nobody /\ NoRecord.by = Nobody /\ Nobody \notin Callers
  BY CallersAreSomebody DEF NoRecord, Bookings, Somebody

LEMMA OperationInitHolds == BotActivityInit => OperationInv
<1> SUFFICES ASSUME BotActivityInit PROVE OperationInv
  OBVIOUS
<1>1. /\ now = 0 /\ told = {} /\ booked = [k \in RequestKeys |-> NoRecord] /\ bookedFile = booked
      /\ call = [c \in Callers |-> [at |-> "idle", key |-> FirstKey, digest |-> "", since |-> 0]]
  BY DEF BotActivityInit, FirstKey
<1>2. OperationTypeOK
  <2>1. call \in [Callers -> Asked]
    <3>1. [at |-> "idle", key |-> FirstKey, digest |-> "", since |-> 0] \in Asked
      BY DEF Asked
    <3> QED
      BY <1>1, <3>1
  <2> QED
    BY <1>1, <2>1, NoRecordIs DEF OperationTypeOK
<1>3. BookingsHold /\ ReplaysAnswer
  BY <1>1 DEF BookingsHold, ReplaysAnswer
<1>4. ResultsAnswer(booked) /\ ResultsAnswer(bookedFile)
  BY <1>1, NoRecordIs DEF ResultsAnswer
<1> QED
  BY <1>2, <1>3, <1>4 DEF OperationInv

\* Pruning leaves the booking of whoever is not late.
LEMMA PrunedKeeps ==
    ASSUME OperationInv, NEW read \in 0 .. now
    PROVE  /\ Pruned(booked, read) \in [RequestKeys -> Bookings]
           /\ ResultsAnswer(Pruned(booked, read))
           /\ \A c \in Callers : call[c].at = "running" /\ ~Late(c) =>
                 Pruned(booked, read)[call[c].key] = booked[call[c].key] /\ booked[call[c].key] # NoRecord
<1>1. \A k \in RequestKeys : Pruned(booked, read)[k] = IF booked[k].created >= read - OperationTtl THEN booked[k] ELSE NoRecord
  BY DEF Pruned
<1>2. Pruned(booked, read) \in [RequestKeys -> Bookings]
  BY NoRecordIs DEF Pruned, OperationInv, OperationTypeOK
<1>3. ResultsAnswer(Pruned(booked, read))
  BY <1>1, NoRecordIs DEF ResultsAnswer, OperationInv
<1>4. ASSUME NEW c \in Callers, call[c].at = "running", ~Late(c)
      PROVE  Pruned(booked, read)[call[c].key] = booked[call[c].key] /\ booked[call[c].key] # NoRecord
  <2>1. /\ call[c].key \in RequestKeys /\ booked[call[c].key].by = c
        /\ booked[call[c].key].created = call[c].since
    BY <1>4 DEF OperationInv, BookingsHold
  <2>2. call[c].since \in Int /\ now \in Int /\ OperationTtl \in Int
    <3>1. OperationTtl \in Nat
      BY ActivityAssumption
    <3>2. call[c] \in Asked /\ now \in Nat
      BY DEF OperationInv, OperationTypeOK
    <3>3. call[c].since \in Int
      BY <3>2 DEF Asked
    <3> QED
      BY <3>1, <3>2, <3>3
  <2>3. call[c].since >= read - OperationTtl
    <3>1. read \in Int /\ read <= now
      BY <2>2
    <3> QED
      BY <1>4, <2>2, <3>1 DEF Late
  <2> QED
    BY <1>1, <2>1, <2>3, NoRecordIs
<1> QED
  BY <1>2, <1>3, <1>4

\* Why the gate answers as it does.
LEMMA GateMeans ==
    ASSUME NEW ops, NEW k, NEW digest
    PROVE  /\ Gate(ops, k, digest) = "start" => ops[k] = NoRecord
           /\ Gate(ops, k, digest) = "replay" => ops[k].digest = digest /\ ops[k].result # Nobody
  BY DEF Gate

\* What is booked, and who asked, are of their types.
LEMMA NewBooking ==
    ASSUME NEW c \in Callers, NEW k \in RequestKeys, NEW digest \in Digests, NEW t \in Nat
    PROVE  /\ [digest |-> digest, by |-> c, result |-> Nobody, late |-> FALSE, created |-> t] \in Bookings
           /\ [at |-> "running", key |-> k, digest |-> digest, since |-> t] \in Asked
<1>1. "" \in Digests \union {""} /\ digest \in Digests \union {""}
  OBVIOUS
<1>2. c \in Somebody /\ Nobody \in Somebody
  BY DEF Somebody
<1>3. t \in Int
  OBVIOUS
<1>4. [digest |-> digest, by |-> c, result |-> Nobody, late |-> FALSE, created |-> t] \in Bookings
  BY <1>1, <1>2, <1>3 DEF Bookings
<1>5. k \in RequestKeys \union {FirstKey}
  OBVIOUS
<1>6. [at |-> "running", key |-> k, digest |-> digest, since |-> t] \in Asked
  BY <1>1, <1>3, <1>5 DEF Asked
<1> QED
  BY <1>4, <1>6

LEMMA ReserveKeeps ==
    ASSUME OperationInv, NEW c \in Callers, NEW k \in RequestKeys, NEW digest \in Digests, NEW read \in 0 .. now,
           NEW refused \in BOOLEAN, ReserveBotOperation(c, k, digest, read, refused)
    PROVE  OperationInv'
<1> DEFINE ops == Pruned(booked, read)
           record == [digest |-> digest, by |-> c, result |-> Nobody, late |-> FALSE, created |-> read]
           asked == [at |-> "running", key |-> k, digest |-> digest, since |-> read]
<1>1. call[c].at = "idle" /\ now' = now /\ read \in Nat
  <2>1. now \in Nat
    BY DEF OperationInv, OperationTypeOK
  <2>2. call[c].at = "idle" /\ now' = now
    BY DEF ReserveBotOperation
  <2> QED
    BY <2>1, <2>2
<1>p. ASSUME booked' = ops, UNCHANGED <<bookedFile, call>>
      PROVE  OperationTypeOK' /\ BookingsHold' /\ ResultsAnswer(booked)' /\ ResultsAnswer(bookedFile)'
  <2> HIDE DEF ops
  <2>1. /\ ops \in [RequestKeys -> Bookings] /\ ResultsAnswer(ops)
        /\ \A d \in Callers : call[d].at = "running" /\ ~Late(d) => ops[call[d].key] = booked[call[d].key]
    BY PrunedKeeps DEF ops
  <2>2. \A d \in Callers : Late(d)' <=> Late(d)
    BY <1>1, <1>p DEF Late
  <2>3. OperationTypeOK' /\ ResultsAnswer(booked)' /\ ResultsAnswer(bookedFile)'
    BY <1>1, <1>p, <2>1 DEF OperationInv, OperationTypeOK, ResultsAnswer
  <2>4. BookingsHold'
    BY <1>p, <2>1, <2>2 DEF OperationInv, BookingsHold
  <2> QED
    BY <2>3, <2>4
<1>2. CASE UNCHANGED operationVars
  BY <1>1, <1>2 DEF operationVars, OperationInv, OperationTypeOK, BookingsHold, ReplaysAnswer, ResultsAnswer, Late
<1>3. CASE Gate(ops, k, digest) = "start" /\ booked' = [ops EXCEPT ![k] = record] /\ bookedFile' = booked'
            /\ call' = [call EXCEPT ![c] = asked] /\ told' = told
  <2>1. ops[k] = NoRecord
    BY <1>3, GateMeans
  <2>2. record \in Bookings /\ record.by = c /\ record.created = read /\ record.digest = digest /\ record.result = Nobody
    BY <1>1, NewBooking DEF NoRecord, OperationInv, OperationTypeOK
  <2>3. asked \in Asked /\ asked.at = "running" /\ asked.key = k /\ asked.digest = digest /\ asked.since = read
    BY <1>1, NewBooking DEF OperationInv, OperationTypeOK
  <2> HIDE DEF ops, record, asked
  <2>a. /\ ops \in [RequestKeys -> Bookings] /\ ResultsAnswer(ops)
        /\ \A d \in Callers : call[d].at = "running" /\ ~Late(d) =>
              ops[call[d].key] = booked[call[d].key] /\ booked[call[d].key] # NoRecord
    BY PrunedKeeps DEF ops
  <2>b. /\ call'[c] = asked /\ \A d \in Callers : d # c => call'[d] = call[d]
        /\ booked'[k] = record /\ \A j \in RequestKeys : j # k => booked'[j] = ops[j]
    BY <1>3, <2>a DEF OperationInv, OperationTypeOK
  <2>4. OperationTypeOK'
    BY <1>1, <1>3, <2>2, <2>3, <2>a DEF OperationInv, OperationTypeOK
  <2>5. ResultsAnswer(booked)'
    <3> SUFFICES ASSUME NEW j \in RequestKeys, booked'[j].result # Nobody
                 PROVE  /\ call'[booked'[j].result].at # "idle"
                        /\ booked'[j].late \/ call'[booked'[j].result].digest = booked'[j].digest
      BY DEF ResultsAnswer
    <3>1. j # k /\ booked'[j] = ops[j]
      BY <2>2, <2>b
    <3>2. /\ call[ops[j].result].at # "idle" /\ ops[j].result \in Callers
          /\ ops[j].late \/ call[ops[j].result].digest = ops[j].digest
      BY <2>a, <3>1 DEF ResultsAnswer, Bookings, Somebody
    <3> QED
      BY <1>1, <2>b, <3>1, <3>2
  <2>6. BookingsHold'
    <3> SUFFICES ASSUME NEW d \in Callers, call'[d].at = "running"
                 PROVE  /\ call'[d].key \in RequestKeys
                        /\ ~Late(d)' => /\ booked'[call'[d].key].by = d
                                        /\ booked'[call'[d].key].created = call'[d].since
                                        /\ booked'[call'[d].key].digest = call'[d].digest
      BY DEF BookingsHold
    <3>1. CASE d = c
      BY <2>2, <2>3, <2>b, <3>1
    <3>2. CASE d # c
      <4>1. call'[d] = call[d] /\ (Late(d)' <=> Late(d))
        BY <1>1, <2>b, <3>2 DEF Late
      <4>2. call[d].key \in RequestKeys
        BY <4>1 DEF OperationInv, BookingsHold
      <4>3. ~Late(d) => call[d].key # k /\ booked'[call[d].key] = booked[call[d].key]
        BY <2>1, <2>a, <2>b, <4>1, <4>2
      <4> QED
        BY <4>1, <4>2, <4>3 DEF OperationInv, BookingsHold
    <3> QED
      BY <3>1, <3>2
  <2>7. ReplaysAnswer'
    BY <1>1, <1>3, <2>b DEF OperationInv, ReplaysAnswer
  <2> QED
    BY <1>3, <2>4, <2>5, <2>6, <2>7 DEF OperationInv, ResultsAnswer
<1>4. CASE Gate(ops, k, digest) = "replay" /\ booked' = ops /\ UNCHANGED <<bookedFile, call>>
            /\ told' = told \union {[asked |-> digest, from |-> ops[k].result, late |-> ops[k].late]}
  <2>1. ops[k].digest = digest /\ ops[k].result # Nobody
    BY <1>4, GateMeans
  <2>2. /\ ops[k].result \in Callers /\ call[ops[k].result].at # "idle"
        /\ ops[k].late \/ call[ops[k].result].digest = digest
    BY <2>1, PrunedKeeps DEF ResultsAnswer, Bookings, Somebody
  <2> HIDE DEF ops
  <2>3. ReplaysAnswer'
    BY <1>4, <2>2 DEF OperationInv, ReplaysAnswer
  <2>4. OperationTypeOK' /\ BookingsHold' /\ ResultsAnswer(booked)' /\ ResultsAnswer(bookedFile)'
    BY <1>1, <1>4, <1>p
  <2> QED
    BY <2>3, <2>4 DEF OperationInv
<1>5. CASE booked' = ops /\ UNCHANGED <<bookedFile, call, told>>
  <2>1. ReplaysAnswer'
    BY <1>5 DEF OperationInv, ReplaysAnswer
  <2> QED
    BY <1>1, <1>5, <1>p, <2>1 DEF OperationInv
<1> QED
  BY <1>2, <1>3, <1>4, <1>5 DEF ReserveBotOperation

\* A booking with its result is what it was but for that.
LEMMA Settled ==
    ASSUME OperationTypeOK, NEW k \in RequestKeys, NEW c \in Callers, NEW late \in BOOLEAN, NEW settled,
           settled = [booked EXCEPT ![k].result = c, ![k].late = late]
    PROVE  /\ settled \in [RequestKeys -> Bookings]
           /\ settled[k].result = c /\ settled[k].late = late
           /\ settled[k].by = booked[k].by /\ settled[k].created = booked[k].created
           /\ settled[k].digest = booked[k].digest
           /\ \A j \in RequestKeys : j # k => settled[j] = booked[j]
<1>1. booked \in [RequestKeys -> Bookings] /\ booked[k] \in Bookings
  BY DEF OperationTypeOK
<1>2. c \in Somebody
  BY DEF Somebody
<1>3. settled[k] = [[booked[k] EXCEPT !.result = c] EXCEPT !.late = late]
  BY <1>1
<1>4. settled[k] \in Bookings
  BY <1>1, <1>2, <1>3 DEF Bookings
<1>5. \A j \in RequestKeys : j # k => settled[j] = booked[j]
  BY <1>1
<1>6. settled \in [RequestKeys -> Bookings]
  BY <1>1, <1>2 DEF Bookings
<1>7. /\ settled[k].result = c /\ settled[k].late = late
      /\ settled[k].by = booked[k].by /\ settled[k].created = booked[k].created
      /\ settled[k].digest = booked[k].digest
  BY <1>1, <1>3 DEF Bookings
<1> QED
  BY <1>5, <1>6, <1>7

LEMMA FinishKeeps ==
    ASSUME OperationInv, NEW c \in Callers, NEW refused \in BOOLEAN, FinishBotOperation(c, refused)
    PROVE  OperationInv'
<1> DEFINE k == call[c].key
<1>1. call[c].at = "running" /\ now' = now /\ told' = told /\ k \in RequestKeys
  BY DEF FinishBotOperation, OperationInv, BookingsHold
<1>2. call' \in [Callers -> Asked]
  BY DEF FinishBotOperation, OperationInv, OperationTypeOK, Asked
<1>3. /\ \A d \in Callers : d # c => call'[d] = call[d]
      /\ call'[c].at = "done" /\ call'[c].digest = call[c].digest
  BY DEF FinishBotOperation, OperationInv, OperationTypeOK, Asked
<1>4. \A d \in Callers : call'[d].digest = call[d].digest /\ (call[d].at # "idle" => call'[d].at # "idle")
  BY <1>1, <1>3
<1>5. \A d \in Callers : call'[d].at = "running" => d # c /\ call'[d] = call[d] /\ (Late(d)' <=> Late(d))
  BY <1>1, <1>3 DEF Late
<1>6. /\ booked' \in [RequestKeys -> Bookings] /\ bookedFile' \in [RequestKeys -> Bookings]
      /\ ResultsAnswer(booked)' /\ ResultsAnswer(bookedFile)'
      /\ \A j \in RequestKeys : /\ booked'[j].by = booked[j].by /\ booked'[j].created = booked[j].created
                                /\ booked'[j].digest = booked[j].digest
  <2>1. CASE UNCHANGED <<booked, bookedFile>>
    <3>1. \A j \in RequestKeys : booked[j].result \in Somebody /\ bookedFile[j].result \in Somebody
      BY DEF OperationInv, OperationTypeOK, Bookings
    <3> QED
      BY <1>4, <2>1, <3>1 DEF OperationInv, OperationTypeOK, ResultsAnswer, Somebody
  <2>2. CASE booked' = [booked EXCEPT ![k].result = c, ![k].late = Late(c)] /\ bookedFile' = booked'
    <3>1. Late(c) \in BOOLEAN
      BY DEF Late
    <3> DEFINE new == booked'
    <3> HIDE DEF new
    <3>2. /\ new \in [RequestKeys -> Bookings] /\ new[k].result = c /\ new[k].late = Late(c)
          /\ new[k].by = booked[k].by /\ new[k].created = booked[k].created /\ new[k].digest = booked[k].digest
          /\ \A j \in RequestKeys : j # k => new[j] = booked[j]
      <4>1. new = [booked EXCEPT ![k].result = c, ![k].late = Late(c)]
        BY <2>2 DEF new
      <4> QED
        BY <1>1, <3>1, <4>1, Settled DEF OperationInv
    <3>3. ~Late(c) => booked[k].digest = call[c].digest
      BY <1>1 DEF OperationInv, BookingsHold
    <3>4. ASSUME NEW j \in RequestKeys, new[j].result # Nobody
          PROVE  /\ call'[new[j].result].at # "idle"
                 /\ new[j].late \/ call'[new[j].result].digest = new[j].digest
      <4>1. CASE j = k
        BY <1>3, <3>2, <3>3, <4>1
      <4>2. CASE j # k
        <5>1. booked[j].result \in Callers /\ new[j] = booked[j]
          BY <3>2, <3>4, <4>2 DEF OperationInv, OperationTypeOK, Bookings, Somebody
        <5> QED
          BY <1>4, <3>4, <5>1 DEF OperationInv, ResultsAnswer
      <4> QED
        BY <4>1, <4>2
    <3>5. booked' = new /\ bookedFile' = new
      BY <2>2 DEF new
    <3> QED
      BY <3>2, <3>4, <3>5 DEF ResultsAnswer
  <2> QED
    BY <2>1, <2>2 DEF FinishBotOperation
<1>7. BookingsHold'
  BY <1>5, <1>6 DEF OperationInv, BookingsHold
<1>8. ReplaysAnswer'
  BY <1>1, <1>4 DEF OperationInv, ReplaysAnswer
<1>9. OperationTypeOK'
  BY <1>1, <1>2, <1>6 DEF OperationInv, OperationTypeOK
<1> QED
  BY <1>6, <1>7, <1>8, <1>9 DEF OperationInv

LEMMA OperationStepsKeep == OperationInv /\ [BotActivityNext]_botActivityVars => OperationInv'
<1> SUFFICES ASSUME OperationInv, [BotActivityNext]_botActivityVars PROVE OperationInv'
  OBVIOUS
<1>1. ASSUME UNCHANGED <<now, operationVars>> PROVE OperationInv'
  BY <1>1 DEF operationVars, OperationInv, OperationTypeOK, BookingsHold, ReplaysAnswer, ResultsAnswer, Late
<1>2. CASE Pass
  <2>1. now' \in Nat /\ now' = now + 1 /\ UNCHANGED operationVars
    BY <1>2 DEF Pass, OperationInv, OperationTypeOK
  <2>2. ASSUME NEW c \in Callers, ~Late(c)' PROVE ~Late(c)
    <3>1. now \in Nat /\ OperationTtl \in Nat /\ call[c] \in Asked /\ call' = call
      BY <2>1, ActivityAssumption DEF OperationInv, OperationTypeOK, operationVars
    <3>2. call[c].since \in Int
      BY <3>1 DEF Asked
    <3> QED
      BY <2>1, <2>2, <3>1, <3>2 DEF Late
  <2> QED
    BY <2>1, <2>2 DEF operationVars, OperationInv, OperationTypeOK, BookingsHold, ReplaysAnswer, ResultsAnswer
<1>3. CASE Reopen
  <2>1. /\ call' \in [Callers -> Asked] /\ booked' = bookedFile /\ UNCHANGED <<now, bookedFile, told>>
    BY <1>3 DEF Reopen, OperationInv, OperationTypeOK, Asked
  <2>2. \A c \in Callers : /\ call'[c].at # "running" /\ call'[c].digest = call[c].digest
                           /\ call[c].at # "idle" => call'[c].at # "idle"
    BY <1>3 DEF Reopen, OperationInv, OperationTypeOK, Asked
  <2>3. \A j \in RequestKeys : bookedFile[j].result \in Somebody
    BY DEF OperationInv, OperationTypeOK, Bookings
  <2>4. ResultsAnswer(booked)' /\ ResultsAnswer(bookedFile)'
    BY <2>1, <2>2, <2>3 DEF OperationInv, ResultsAnswer, Somebody
  <2> QED
    BY <2>1, <2>2, <2>4 DEF OperationInv, OperationTypeOK, BookingsHold, ReplaysAnswer
<1>4. CASE OperationNext
  BY <1>2, <1>3, <1>4, ReserveKeeps, FinishKeeps DEF OperationNext
<1>5. CASE HeartbeatNext \/ ObservationNext
  BY <1>1, <1>2, <1>3, <1>5 DEF HeartbeatNext, ObservationNext, Heartbeat, NoteBotObservation
<1>6. CASE UNCHANGED botActivityVars
  BY <1>1, <1>6 DEF botActivityVars
<1> QED
  BY <1>4, <1>5, <1>6 DEF BotActivityNext

\* One caller at a time runs an operation, but for one that outlived its
\* reservation, and a replay answers the request that asks for it, through
\* refused writes and restarts (reserve_bot_operation, finish_bot_operation).
THEOREM OperationsAreBooked == BotActivitySpec => []OperationsRunOnce
<1>1. OperationInv => OperationsRunOnce
  BY DEF OperationInv, BookingsHold, ReplaysAnswer, OperationsRunOnce
<1> QED
  BY <1>1, OperationInitHolds, OperationStepsKeep, PTL DEF BotActivitySpec

-----------------------------------------------------------------------------
(* Heartbeats.  A beat that is coalesced writes nothing and moves no anchor,    *)
(* and one that is written is later than the anchor.                           *)

\* What is in memory of heartbeats is in the file, and the latest reading
\* acknowledged is within the window of it.
BeatInv ==
    /\ now \in Nat
    /\ beat \in [Actors -> Int] /\ beatFile = beat
    /\ beaten \in [Actors -> Int]
    /\ \A b \in Actors : beaten[b] # Never => beaten[b] - beat[b] < CoalesceSecs

LEMMA Limits == CoalesceSecs \in Nat \ {0} /\ Never \in Int
  BY ActivityAssumption DEF Never

\* Operations leave heartbeats and observations alone.
LEMMA OperationsAside ==
    ASSUME NEW c \in Callers
    PROVE  /\ \A k \in RequestKeys, digest \in Digests, read \in 0 .. now, refused \in BOOLEAN :
                 ReserveBotOperation(c, k, digest, read, refused) => UNCHANGED <<now, activityVars>>
           /\ \A refused \in BOOLEAN : FinishBotOperation(c, refused) => UNCHANGED <<now, activityVars>>
<1>1. \A k, digest, read, refused :
         ReserveBotOperation(c, k, digest, read, refused) => UNCHANGED <<now, activityVars>>
  BY Zenon DEF ReserveBotOperation
<1>2. \A refused : FinishBotOperation(c, refused) => UNCHANGED <<now, activityVars>>
  BY Zenon DEF FinishBotOperation
<1> QED
  BY <1>1, <1>2

LEMMA BeatStepsKeep == BeatInv /\ [BotActivityNext]_botActivityVars => BeatInv'
<1> SUFFICES ASSUME BeatInv, [BotActivityNext]_botActivityVars PROVE BeatInv'
  OBVIOUS
<1>1. ASSUME now' \in Nat, UNCHANGED heartbeatVars PROVE BeatInv'
  BY <1>1 DEF BeatInv, heartbeatVars
<1>2. CASE Pass
  BY <1>1, <1>2 DEF Pass, BeatInv, activityVars
<1>3. CASE Reopen
  BY <1>3 DEF Reopen, BeatInv
<1>4. CASE OperationNext
  BY <1>1, <1>2, <1>3, <1>4, OperationsAside DEF OperationNext, BeatInv, activityVars
<1>5. ASSUME NEW b \in Actors, NEW read \in 0 .. now, NEW refused \in BOOLEAN, Heartbeat(b, read, refused)
      PROVE  BeatInv'
  <2> DEFINE heard == [beaten EXCEPT ![b] = IF read > @ THEN read ELSE @]
  <2>1. /\ now' = now /\ now \in Nat /\ read \in Nat /\ beat[b] \in Int /\ beaten[b] \in Int
        /\ CoalesceSecs \in Nat \ {0}
    BY <1>5, Limits DEF Heartbeat, BeatInv
  <2>2. /\ heard \in [Actors -> Int] /\ heard[b] = (IF read > beaten[b] THEN read ELSE beaten[b])
        /\ \A c \in Actors : c # b => heard[c] = beaten[c]
    BY <2>1 DEF BeatInv
  <2> HIDE DEF heard
  <2>3. CASE UNCHANGED heartbeatVars
    BY <1>1, <2>1, <2>3
  <2>4. beaten[b] = Never => read > beaten[b]
    BY <2>1 DEF Never
  <2>5. CASE read - beat[b] < CoalesceSecs /\ beat' = beat /\ beatFile' = beatFile /\ beaten' = heard
    <3>1. heard[b] - beat[b] < CoalesceSecs
      BY <2>1, <2>2, <2>4, <2>5 DEF BeatInv
    <3> QED
      BY <2>1, <2>2, <2>5, <3>1 DEF BeatInv
  <2>6. CASE /\ ~(read - beat[b] < CoalesceSecs) /\ beat' = [beat EXCEPT ![b] = read]
             /\ beatFile' = beat' /\ beaten' = heard
    <3>1. beat'[b] = read /\ beat' \in [Actors -> Int] /\ \A c \in Actors : c # b => beat'[c] = beat[c]
      BY <2>1, <2>6 DEF BeatInv
    <3>2. heard[b] - read < CoalesceSecs
      <4>1. CASE read > beaten[b]
        BY <2>1, <2>2, <4>1
      <4>2. CASE ~(read > beaten[b])
        <5>1. beaten[b] - beat[b] < CoalesceSecs
          BY <2>4, <4>2 DEF BeatInv
        <5> QED
          BY <2>1, <2>2, <2>6, <4>2, <5>1
      <4> QED
        BY <4>1, <4>2
    <3> QED
      BY <2>1, <2>2, <2>6, <3>1, <3>2 DEF BeatInv
  <2> QED
    BY <1>5, <2>3, <2>5, <2>6 DEF Heartbeat, WithinCoalesce, CoalescedBeat, heard
<1>6. CASE HeartbeatNext
  BY <1>2, <1>3, <1>5, <1>6 DEF HeartbeatNext
<1>7. CASE ObservationNext
  BY <1>1, <1>2, <1>3, <1>7 DEF ObservationNext, NoteBotObservation, BeatInv
<1>8. CASE UNCHANGED botActivityVars
  BY <1>1, <1>8 DEF botActivityVars, activityVars, BeatInv
<1> QED
  BY <1>4, <1>6, <1>7, <1>8 DEF BotActivityNext

\* The file holds a heartbeat less than a window older than the latest one
\* acknowledged, whoever overtakes whom (note_bot_observation).
THEOREM HeartbeatsLast == BotActivitySpec => []HeartbeatsAreKept
<1>1. BotActivityInit => BeatInv
  <2> SUFFICES ASSUME BotActivityInit PROVE BeatInv
    OBVIOUS
  <2>1. now = 0 /\ beat = [b \in Actors |-> Never] /\ beatFile = beat /\ beaten = beat
    BY DEF BotActivityInit, NoBeat
  <2>2. [b \in Actors |-> Never] \in [Actors -> Int]
    BY Limits
  <2> QED
    BY <2>1, <2>2 DEF BeatInv
<1>2. BeatInv => HeartbeatsAreKept
  BY DEF BeatInv, HeartbeatsAreKept
<1> QED
  BY <1>1, <1>2, BeatStepsKeep, PTL DEF BotActivitySpec

-----------------------------------------------------------------------------
(* What is left of a list.  The places that stay are counted off in order, so  *)
(* the k-th entry of what is left stood at the place of rank k.                *)

\* Ranks count the places off, from one to their number.
LEMMA RanksCount ==
    ASSUME NEW n \in Nat, NEW I \in SUBSET (1 .. n)
    PROVE  /\ IsFiniteSet(I) /\ Cardinality(I) \in Nat
           /\ \A i \in I : Rank(I, i) \in 1 .. Cardinality(I)
           /\ \A i, j \in I : i < j <=> Rank(I, i) < Rank(I, j)
           /\ \A k \in 1 .. Cardinality(I) : \E i \in I : Rank(I, i) = k
<1> DEFINE upTo(i) == {j \in I : j <= i}
           m == Cardinality(I)
           rank == [i \in I |-> Rank(I, i)]
<1>1. IsFiniteSet(I) /\ m \in Nat
  <2>1. IsFiniteSet(1 .. n)
    BY FS_Interval
  <2> QED
    BY <2>1, FS_Subset, FS_CardinalityType
<1>2. \A i \in I : i \in Int
  OBVIOUS
<1>3. \A i \in I : IsFiniteSet(upTo(i)) /\ Rank(I, i) \in 1 .. m
  <2> TAKE i \in I
  <2>1. IsFiniteSet(upTo(i)) /\ Cardinality(upTo(i)) <= m /\ Cardinality(upTo(i)) \in Nat
    <3>1. upTo(i) \in SUBSET I
      OBVIOUS
    <3> QED
      BY <1>1, <3>1, FS_Subset, FS_CardinalityType
  <2>2. Cardinality(upTo(i)) # 0
    <3>1. i \in upTo(i)
      BY <1>2
    <3> QED
      BY <2>1, <3>1, FS_EmptySet
  <2> QED
    BY <1>1, <2>1, <2>2 DEF Rank
<1>4. \A i \in I : Rank(I, i) \in Nat /\ i \in Int
  <2> TAKE i \in I
  <2>1. Rank(I, i) \in 1 .. m
    BY <1>3
  <2> HIDE DEF m
  <2> QED
    BY <1>1, <1>2, <2>1
<1>5. \A i, j \in I : i < j => Rank(I, i) < Rank(I, j)
  <2> TAKE i, j \in I
  <2> HAVE i < j
  <2>0. i \in Int /\ j \in Int /\ \A k \in I : k \in Int
    BY <1>2
  <2>1. upTo(i) \in SUBSET upTo(j) /\ j \in upTo(j) /\ j \notin upTo(i)
    <3>1. \A k \in I : k <= i => k <= j
      BY <2>0
    <3>2. j <= j /\ ~(j <= i)
      BY <2>0
    <3> QED
      BY <3>1, <3>2
  <2>2. Rank(I, i) <= Rank(I, j) /\ Rank(I, i) # Rank(I, j)
    <3> HIDE DEF upTo
    <3>1. Rank(I, i) = Cardinality(upTo(i)) /\ Rank(I, j) = Cardinality(upTo(j))
      BY DEF Rank, upTo
    <3> QED
      BY <1>3, <2>1, <3>1, FS_Subset
  <2>3. Rank(I, i) \in Nat /\ Rank(I, j) \in Nat
    BY <1>4
  <2> QED
    BY <2>2, <2>3
<1>6. \A i, j \in I : i < j <=> Rank(I, i) < Rank(I, j)
  <2> TAKE i, j \in I
  <2>1. i \in Int /\ j \in Int /\ Rank(I, i) \in Int /\ Rank(I, j) \in Int
    BY <1>4
  <2>2. (i < j => Rank(I, i) < Rank(I, j)) /\ (j < i => Rank(I, j) < Rank(I, i))
    BY <1>5
  <2>3. i = j => Rank(I, i) = Rank(I, j)
    OBVIOUS
  <2> QED
    BY <2>1, <2>2, <2>3
<1>7. rank \in Injection(I, 1 .. m)
  <2>1. rank \in [I -> 1 .. m]
    BY <1>3
  <2>2. \A i, j \in I : rank[i] = rank[j] => i = j
    <3> TAKE i, j \in I
    <3>1. i \in Int /\ j \in Int /\ Rank(I, i) \in Int /\ Rank(I, j) \in Int
      BY <1>4
    <3>2. (i < j <=> Rank(I, i) < Rank(I, j)) /\ (j < i <=> Rank(I, j) < Rank(I, i))
      BY <1>6
    <3> QED
      BY <3>1, <3>2
  <2> HIDE DEF rank
  <2> QED
    BY <2>1, <2>2 DEF Injection, IsInjective
<1>8. IsFiniteSet(1 .. m) /\ Cardinality(1 .. m) = m
  BY <1>1, FS_Interval
<1>9. rank \in Surjection(I, 1 .. m)
  <2> HIDE DEF rank
  <2> QED
    BY <1>7, <1>8, FS_Injection
<1>10. \A k \in 1 .. m : \E i \in I : Rank(I, i) = k
  BY <1>9 DEF Surjection
<1> QED
  BY <1>1, <1>3, <1>6, <1>10

\* Numbers in order: each once, ascending.
LEMMA InOrderPlaces ==
    ASSUME NEW n \in Nat, NEW I \in SUBSET (1 .. n)
    PROVE  /\ Cardinality(I) \in Nat
           /\ InOrder(I) \in [1 .. Cardinality(I) -> I]
           /\ \A k \in 1 .. Cardinality(I) : Rank(I, InOrder(I)[k]) = k
           /\ \A k, l \in 1 .. Cardinality(I) : k < l <=> InOrder(I)[k] < InOrder(I)[l]
           /\ \A i \in I : \E k \in 1 .. Cardinality(I) : InOrder(I)[k] = i
<1> DEFINE m == Cardinality(I)
           place(k) == CHOOSE i \in I : Rank(I, i) = k
           f == InOrder(I)
<1>1. /\ m \in Nat
      /\ \A i \in I : Rank(I, i) \in 1 .. m
      /\ \A i, j \in I : i < j <=> Rank(I, i) < Rank(I, j)
      /\ \A k \in 1 .. m : \E i \in I : Rank(I, i) = k
  BY RanksCount
<1>2. \A k \in 1 .. m : place(k) \in I /\ Rank(I, place(k)) = k
  BY <1>1
<1>3. f \in [1 .. m -> I] /\ \A k \in 1 .. m : f[k] = place(k)
  BY <1>2 DEF InOrder
<1> HIDE DEF place, f
<1>4. \A k \in 1 .. m : f[k] \in I /\ Rank(I, f[k]) = k
  BY <1>2, <1>3
<1>5. \A i \in I : i \in Int /\ Rank(I, i) \in Int
  <2>1. \A i \in I : i \in Int
    OBVIOUS
  <2>2. \A i \in I : Rank(I, i) \in 1 .. m
    BY <1>1
  <2> HIDE DEF m
  <2> QED
    BY <1>1, <2>1, <2>2
<1>6. \A k, l \in 1 .. m : k < l <=> f[k] < f[l]
  <2> TAKE k, l \in 1 .. m
  <2>1. f[k] < f[l] <=> Rank(I, f[k]) < Rank(I, f[l])
    BY <1>1, <1>4
  <2> QED
    BY <1>4, <2>1
<1>7. \A i \in I : \E k \in 1 .. m : f[k] = i
  <2> TAKE i \in I
  <2>1. PICK k \in 1 .. m : k = Rank(I, i)
    BY <1>1
  <2>2. f[k] \in I /\ Rank(I, f[k]) = Rank(I, i)
    BY <1>4, <2>1
  <2>3. i \in Int /\ f[k] \in Int /\ Rank(I, i) \in Int
    BY <1>5, <2>2
  <2>4. (i < f[k] <=> Rank(I, i) < Rank(I, f[k])) /\ (f[k] < i <=> Rank(I, f[k]) < Rank(I, i))
    BY <1>1, <2>2
  <2> QED
    BY <2>2, <2>3, <2>4
<1> QED
  BY <1>1, <1>3, <1>4, <1>6, <1>7 DEF f

\* Where each entry of what is left of a list stood.
Stood(f, S, s, I) ==
    LET m == Cardinality(I) IN
    /\ f \in [1 .. m -> I] /\ m \in Nat
    /\ Retained(s, I) \in Seq(S) /\ DOMAIN Retained(s, I) = 1 .. m
    /\ \A k \in 1 .. m : Retained(s, I)[k] = s[f[k]] /\ Rank(I, f[k]) = k
    /\ \A k, l \in 1 .. m : k < l <=> f[k] < f[l]
    /\ \A i \in I : \E k \in 1 .. m : f[k] = i

LEMMA RetainedPlaces ==
    ASSUME NEW S, NEW s \in Seq(S), NEW I \in SUBSET DOMAIN s
    PROVE  \E f : Stood(f, S, s, I)
<1> DEFINE m == Cardinality(I)
           f == InOrder(I)
<1>0. Len(s) \in Nat /\ I \in SUBSET (1 .. Len(s))
  OBVIOUS
<1>1. /\ m \in Nat /\ f \in [1 .. m -> I]
      /\ \A k \in 1 .. m : Rank(I, f[k]) = k
      /\ \A k, l \in 1 .. m : k < l <=> f[k] < f[l]
      /\ \A i \in I : \E k \in 1 .. m : f[k] = i
  BY <1>0, InOrderPlaces
<1>2. Retained(s, I) = [k \in 1 .. m |-> s[f[k]]]
  BY DEF Retained
<1> HIDE DEF f
<1>3. Retained(s, I) \in Seq(S) /\ DOMAIN Retained(s, I) = 1 .. m
  <2>1. \A i \in I : s[i] \in S
    OBVIOUS
  <2>2. \A k \in 1 .. m : s[f[k]] \in S
    BY <1>1, <2>1
  <2> HIDE DEF m
  <2> QED
    BY <1>1, <1>2, <2>2
<1>4. \A k \in 1 .. m : Retained(s, I)[k] = s[f[k]]
  BY <1>2
<1>5. Stood(f, S, s, I)
  BY <1>1, <1>3, <1>4 DEF Stood
<1> QED
  BY <1>5

\* The last of some numbers, and what it is to have been told of last.
LEMMA LastOfPlaces ==
    ASSUME NEW n \in Nat, NEW I \in SUBSET (1 .. n), I # {}
    PROVE  Max(I) \in I /\ \A i \in I : i <= Max(I)
<1> DEFINE m == Cardinality(I)
           last == InOrder(I)[m]
<1>1. /\ m \in Nat /\ InOrder(I) \in [1 .. m -> I]
      /\ \A k, l \in 1 .. m : k < l <=> InOrder(I)[k] < InOrder(I)[l]
      /\ \A i \in I : \E k \in 1 .. m : InOrder(I)[k] = i
  BY InOrderPlaces
<1>2. m \in 1 .. m
  <2>1. PICK i \in I : TRUE
    OBVIOUS
  <2>2. PICK k \in 1 .. m : InOrder(I)[k] = i
    BY <1>1
  <2> HIDE DEF m
  <2> QED
    BY <1>1, <2>2
<1>3. last \in I /\ \A i \in I : i \in Int
  BY <1>1, <1>2
<1>4. \A i \in I : last >= i
  <2> TAKE i \in I
  <2>1. PICK k \in 1 .. m : InOrder(I)[k] = i
    BY <1>1
  <2>2. ~(m < k)
    <3> HIDE DEF m
    <3> QED BY <1>1, <2>1
  <2>3. ~(InOrder(I)[m] < InOrder(I)[k])
    BY <1>1, <1>2, <2>1, <2>2
  <2>4. last \in Int /\ i \in Int
    BY <1>3
  <2> QED
    BY <2>1, <2>3, <2>4
<1> HIDE DEF last
<1>5. Max(I) \in I /\ \A i \in I : Max(I) >= i
  BY <1>3, <1>4 DEF Max
<1>6. \A i \in I : i \in Int
  OBVIOUS
<1> QED
  BY <1>5, <1>6

-----------------------------------------------------------------------------
(* Activity.  An event just noted stands at the last place, which neither the  *)
(* age limit nor the cap takes; what is taken away, and the order an open      *)
(* reads them in, leave a bot events it had, each at most once.                *)

Results == {"ok", "denied"}
Events == [bot : Actors, outcome : Results, at : Nat]
Logs == [outcome : [Actors -> {"none"} \cup Results], updated : [Actors -> Int], events : Seq(Events)]

\* The event behind an outcome; the newest of its bot, unless that was passed.
Shown(events, b, outcome, t, passed, i) ==
    /\ i \in EventsOf(events, b) /\ events[i].outcome = outcome /\ events[i].at = t
    /\ b \notin passed => \A j \in EventsOf(events, b) \ {i} : events[j].at < t

OwnKept(events, b, outcome, t, passed) ==
    /\ outcome = "none" => EventsOf(events, b) = {}
    /\ outcome # "none" => \E i \in EventsOf(events, b) : Shown(events, b, outcome, t, passed, i)

Capped(events, b) == Cardinality(EventsOf(events, b)) <= ActivityCap

Fresh(log, passed) ==
    /\ log \in Logs
    /\ \A b \in Actors : /\ OwnKept(log.events, b, log.outcome[b], log.updated[b], passed)
                         /\ Capped(log.events, b)

FreshInv == now \in Nat /\ Fresh(noted, overtaken) /\ Fresh(notedFile, overtaken)

\* The events of a bot in one list are events of it in another, each once.
Carries(g, new, old, b) ==
    /\ g \in [EventsOf(new, b) -> EventsOf(old, b)]
    /\ \A k \in EventsOf(new, b) : new[k] = old[g[k]]
    /\ \A k, l \in EventsOf(new, b) : g[k] = g[l] => k = l

\* All the events of a bot in one list, and no other, are its events in another.
CarriesAll(new, old, b) ==
    \E g : /\ Carries(g, new, old, b)
           /\ \A i \in EventsOf(old, b) : \E k \in EventsOf(new, b) : g[k] = i

\* The event behind an outcome is the last of its bot.
ShownLast(events, b, outcome, t, passed) ==
    \E i \in EventsOf(events, b) : /\ Shown(events, b, outcome, t, passed, i)
                                   /\ \A j \in EventsOf(events, b) : j <= i

\* The types of an event.
LEMMA EventTypes ==
    ASSUME NEW events \in Seq(Events)
    PROVE  /\ Len(events) \in Nat /\ DOMAIN events = 1 .. Len(events)
           /\ \A i \in DOMAIN events : events[i] \in Events /\ events[i].at \in Nat /\ events[i].bot \in Actors
           /\ \A b : EventsOf(events, b) \in SUBSET (1 .. Len(events))
<1>1. \A e \in Events : e.at \in Nat /\ e.bot \in Actors
  BY DEF Events
<1>2. \A i \in DOMAIN events : events[i] \in Events
  OBVIOUS
<1> QED
  BY <1>1, <1>2 DEF EventsOf

\* A bot has a number of events.
LEMMA EventsCount ==
    ASSUME NEW events \in Seq(Events), NEW b
    PROVE  IsFiniteSet(EventsOf(events, b)) /\ Cardinality(EventsOf(events, b)) \in Nat
<1>1. EventsOf(events, b) \in SUBSET (1 .. Len(events)) /\ Len(events) \in Nat
  BY EventTypes
<1> QED
  BY <1>1, RanksCount

LEMMA CarriedShows ==
    ASSUME NEW new, NEW old, NEW b, NEW g, Carries(g, new, old, b),
           NEW outcome, NEW t, NEW passed, NEW k \in EventsOf(new, b),
           Shown(old, b, outcome, t, passed, g[k])
    PROVE  Shown(new, b, outcome, t, passed, k)
<1>1. \A j \in EventsOf(new, b) : g[j] \in EventsOf(old, b) /\ new[j] = old[g[j]]
  BY DEF Carries
<1>2. \A j \in EventsOf(new, b) \ {k} : g[j] \in EventsOf(old, b) \ {g[k]}
  BY <1>1 DEF Carries
<1> QED
  BY <1>1, <1>2 DEF Shown

LEMMA CarriedCounts ==
    ASSUME NEW new \in Seq(Events), NEW old \in Seq(Events), NEW b, NEW g, Carries(g, new, old, b),
           NEW S, \A k \in EventsOf(new, b) : g[k] \in S, S \subseteq EventsOf(old, b)
    PROVE  Cardinality(EventsOf(new, b)) <= Cardinality(S)
<1> DEFINE own == EventsOf(new, b)
<1>1. IsFiniteSet(S)
  BY EventsCount, FS_Subset
<1>2. DOMAIN g = own /\ g \in [own -> S]
  BY DEF Carries
<1>3. \A k, l \in own : g[k] = g[l] => k = l
  BY DEF Carries
<1> HIDE DEF own
<1>4. g \in Injection(own, S)
  BY <1>2, <1>3 DEF Injection, IsInjective
<1>5. Cardinality(own) <= Cardinality(S)
  BY <1>1, <1>4, FS_Injection
<1> QED
  BY <1>5 DEF own

\* A list whose events of a bot are all those of another has what it has.
LEMMA CarriedKeeps ==
    ASSUME NEW new \in Seq(Events), NEW old \in Seq(Events), NEW b, CarriesAll(new, old, b),
           NEW outcome, NEW t, NEW passed, OwnKept(old, b, outcome, t, passed), Capped(old, b)
    PROVE  OwnKept(new, b, outcome, t, passed) /\ Capped(new, b)
<1>0. PICK g : /\ Carries(g, new, old, b)
               /\ \A i \in EventsOf(old, b) : \E k \in EventsOf(new, b) : g[k] = i
  BY DEF CarriesAll
<1>1. outcome = "none" => EventsOf(new, b) = {}
  BY <1>0 DEF OwnKept, Carries
<1>2. ASSUME outcome # "none"
      PROVE  \E k \in EventsOf(new, b) : Shown(new, b, outcome, t, passed, k)
  <2>1. PICK i \in EventsOf(old, b) : Shown(old, b, outcome, t, passed, i)
    BY <1>2 DEF OwnKept
  <2>2. PICK k \in EventsOf(new, b) : g[k] = i
    BY <1>0, <2>1
  <2>3. Shown(new, b, outcome, t, passed, k)
    BY <1>0, <2>1, <2>2, CarriedShows
  <2> QED
    BY <2>3
<1>3. Capped(new, b)
  <2> DEFINE S == EventsOf(old, b)
  <2>1. (\A k \in EventsOf(new, b) : g[k] \in S) /\ S \subseteq EventsOf(old, b)
    BY <1>0 DEF Carries
  <2>2. Cardinality(EventsOf(new, b)) <= Cardinality(S)
    BY <1>0, <2>1, CarriedCounts
  <2>3. /\ Cardinality(EventsOf(new, b)) \in Nat /\ Cardinality(EventsOf(old, b)) \in Nat
        /\ ActivityCap \in Nat
    BY EventsCount, ActivityAssumption
  <2> QED
    BY <2>2, <2>3 DEF Capped
<1> QED
  BY <1>1, <1>2, <1>3 DEF OwnKept

\* What is retained of a list was there, in the same order.
LEMMA RetainingCarries ==
    ASSUME NEW events \in Seq(Events), NEW I \in SUBSET DOMAIN events, NEW b
    PROVE  /\ Retained(events, I) \in Seq(Events)
           /\ \E g : /\ Carries(g, Retained(events, I), events, b)
                     /\ \A k \in EventsOf(Retained(events, I), b) : g[k] \in I
                     /\ \A i \in EventsOf(events, b) \cap I : \E k \in EventsOf(Retained(events, I), b) : g[k] = i
                     /\ \A k, l \in EventsOf(Retained(events, I), b) : k <= l <=> g[k] <= g[l]
<1> DEFINE m == Cardinality(I)
           left == Retained(events, I)
           own == EventsOf(left, b)
<1>0. PICK f : Stood(f, Events, events, I)
  BY RetainedPlaces
<1>1. /\ f \in [1 .. m -> I] /\ m \in Nat /\ left \in Seq(Events) /\ DOMAIN left = 1 .. m
      /\ \A k \in 1 .. m : left[k] = events[f[k]] /\ Rank(I, f[k]) = k
      /\ \A k, l \in 1 .. m : k < l <=> f[k] < f[l]
      /\ \A i \in I : \E k \in 1 .. m : f[k] = i
  BY <1>0 DEF Stood
<1> HIDE DEF m, left
<1>2. /\ \A i \in DOMAIN events : i \in Int
      /\ \A k \in 1 .. m : f[k] \in I /\ f[k] \in DOMAIN events
  <2>1. DOMAIN events = 1 .. Len(events) /\ Len(events) \in Nat
    BY EventTypes
  <2>2. \A k \in 1 .. m : f[k] \in I
    BY <1>1
  <2> QED
    BY <2>1, <2>2
<1>3. own = {k \in 1 .. m : f[k] \in EventsOf(events, b)}
  BY <1>1, <1>2 DEF EventsOf
<1> HIDE DEF own
<1> DEFINE g == [k \in own |-> f[k]]
<1>4. \A k \in own : g[k] = f[k] /\ g[k] \in EventsOf(events, b) /\ g[k] \in I /\ left[k] = events[g[k]]
  BY <1>1, <1>2, <1>3
<1>5. \A k, l \in own : g[k] = g[l] => k = l
  <2> TAKE k, l \in own
  <2>1. k \in 1 .. m /\ l \in 1 .. m
    BY <1>3
  <2>2. g[k] = f[k] /\ g[l] = f[l] /\ Rank(I, f[k]) = k /\ Rank(I, f[l]) = l
    BY <1>1, <2>1
  <2> QED
    BY <2>2
<1>6. \A i \in EventsOf(events, b) \cap I : \E k \in own : g[k] = i
  BY <1>1, <1>3
<1>7. \A k, l \in own : k <= l <=> g[k] <= g[l]
  <2> TAKE k, l \in own
  <2>1. k \in 1 .. m /\ l \in 1 .. m
    BY <1>3
  <2>2. g[k] = f[k] /\ g[l] = f[l] /\ f[k] \in Int /\ f[l] \in Int /\ (l < k <=> f[l] < f[k])
    BY <1>1, <1>2, <2>1
  <2> HIDE DEF g
  <2> QED
    BY <2>1, <2>2
<1>8. Carries(g, left, events, b)
  <2>1. g \in [own -> EventsOf(events, b)]
    BY <1>4
  <2> HIDE DEF g
  <2> QED
    BY <1>4, <1>5, <2>1 DEF Carries, own
<1> HIDE DEF g
<1> QED
  BY <1>1, <1>4, <1>6, <1>7, <1>8 DEF own, left

Appended(more, events, b, outcome, read) ==
    more = Append(events, [bot |-> b, outcome |-> outcome, at |-> read])

OthersListed(more, events, b) ==
    \A c \in Actors \ {b} : /\ EventsOf(more, c) = EventsOf(events, c)
                             /\ \A i \in EventsOf(events, c) : more[i] = events[i]

\* A new event is last, and newest if it is later than what was shown.
LEMMA AppendingShows ==
    ASSUME NEW events \in Seq(Events), NEW b \in Actors, NEW outcome \in Results, NEW read \in Nat,
           NEW was, NEW t \in Int, NEW passed, NEW after, NEW more,
           OwnKept(events, b, was, t, passed),
           b \notin after => b \notin passed /\ read > t,
           Appended(more, events, b, outcome, read)
    PROVE  /\ more \in Seq(Events) /\ ShownLast(more, b, outcome, read, after)
           /\ OthersListed(more, events, b)
<1> DEFINE e == [bot |-> b, outcome |-> outcome, at |-> read]
           n == Len(events) + 1
<1>1. /\ Len(events) \in Nat /\ DOMAIN events = 1 .. Len(events)
      /\ \A i \in DOMAIN events : events[i].at \in Nat
  BY EventTypes
<1>2. e \in Events /\ e.at = read /\ e.bot = b /\ e.outcome = outcome
  BY DEF Events
<1> HIDE DEF e
<1>3. /\ more \in Seq(Events) /\ DOMAIN more = 1 .. n /\ more[n] = e
      /\ \A i \in DOMAIN events : more[i] = events[i]
  BY <1>1, <1>2 DEF e, Appended
<1>4. \A i \in 1 .. n : i \in Int /\ i <= n /\ (i \in DOMAIN events \/ i = n) /\ ~(n \in DOMAIN events)
  BY <1>1
<1>5. n \in EventsOf(more, b) /\ more[n].outcome = outcome /\ more[n].at = read
  BY <1>1, <1>2, <1>3 DEF EventsOf
<1>6. \A j \in EventsOf(more, b) : j <= n
  BY <1>3, <1>4 DEF EventsOf
<1>7. \A c \in Actors \ {b} : /\ EventsOf(more, c) = EventsOf(events, c)
                              /\ \A i \in EventsOf(events, c) : more[i] = events[i]
  BY <1>1, <1>2, <1>3, <1>4 DEF EventsOf
<1>8. ASSUME b \notin after, NEW j \in EventsOf(more, b) \ {n}
      PROVE  more[j].at < read
  <2>1. j \in EventsOf(events, b) /\ more[j] = events[j] /\ events[j].at \in Nat
    BY <1>1, <1>3, <1>4 DEF EventsOf
  <2>2. was # "none"
    BY <2>1 DEF OwnKept
  <2>3. PICK i \in EventsOf(events, b) : Shown(events, b, was, t, passed, i)
    BY <2>2 DEF OwnKept
  <2>4. events[j].at = t \/ events[j].at < t
    BY <1>8, <2>1, <2>3 DEF Shown
  <2>5. \A x, y \in Nat, z \in Int : y > z /\ (x = z \/ x < z) => x < y
    OBVIOUS
  <2>6. events[j].at < read
    <3>1. read > t /\ t \in Int /\ read \in Nat
      BY <1>8
    <3> QED
      BY <2>1, <2>4, <2>5, <3>1
  <2> QED
    BY <2>1, <2>6
<1>9. Shown(more, b, outcome, read, after, n)
  BY <1>5, <1>8 DEF Shown
<1> QED
  BY <1>3, <1>5, <1>6, <1>7, <1>9 DEF ShownLast, OthersListed

\* The age limit spares what came with this reading, and the other bots.
LEMMA ExpiringShows ==
    ASSUME NEW events \in Seq(Events), NEW b \in Actors, NEW read \in Nat, NEW outcome, NEW passed,
           ShownLast(events, b, outcome, read, passed),
           NEW recent, recent = WithoutExpired(events, b, read)
    PROVE  /\ recent \in Seq(Events) /\ ShownLast(recent, b, outcome, read, passed)
           /\ \A c \in Actors \ {b} : CarriesAll(recent, events, c)
<1> DEFINE I == {i \in DOMAIN events : events[i].bot = b => events[i].at >= read - ActivityTtl}
<1>0. PICK n \in EventsOf(events, b) : /\ Shown(events, b, outcome, read, passed, n)
                                       /\ \A j \in EventsOf(events, b) : j <= n
  BY DEF ShownLast
<1>1. read >= read - ActivityTtl
  BY ActivityAssumption
<1>2. n \in EventsOf(events, b) \cap I
  BY <1>0, <1>1 DEF Shown, EventsOf
<1>3. I \in SUBSET DOMAIN events /\ recent = Retained(events, I)
  BY DEF WithoutExpired
<1>4. \A c \in Actors \ {b} : EventsOf(events, c) \subseteq I
  BY DEF EventsOf
<1> HIDE DEF I
<1>5. \A c : /\ recent \in Seq(Events)
             /\ \E g : /\ Carries(g, recent, events, c)
                       /\ \A i \in EventsOf(events, c) \cap I : \E k \in EventsOf(recent, c) : g[k] = i
                       /\ \A k, l \in EventsOf(recent, c) : k <= l <=> g[k] <= g[l]
  <2> TAKE c
  <2>1. /\ Retained(events, I) \in Seq(Events)
        /\ \E g : /\ Carries(g, Retained(events, I), events, c)
                  /\ \A k \in EventsOf(Retained(events, I), c) : g[k] \in I
                  /\ \A i \in EventsOf(events, c) \cap I : \E k \in EventsOf(Retained(events, I), c) : g[k] = i
                  /\ \A k, l \in EventsOf(Retained(events, I), c) : k <= l <=> g[k] <= g[l]
    BY <1>3, RetainingCarries
  <2> QED
    BY <1>3, <2>1
<1>6. PICK g : /\ Carries(g, recent, events, b)
               /\ \A i \in EventsOf(events, b) \cap I : \E k \in EventsOf(recent, b) : g[k] = i
               /\ \A k, l \in EventsOf(recent, b) : k <= l <=> g[k] <= g[l]
  BY <1>5
<1>7. PICK k \in EventsOf(recent, b) : g[k] = n
  BY <1>2, <1>6
<1>8. Shown(recent, b, outcome, read, passed, k)
  BY <1>0, <1>6, <1>7, CarriedShows
<1>9. \A j \in EventsOf(recent, b) : j <= k
  BY <1>0, <1>6, <1>7 DEF Carries
<1>10. ASSUME NEW c \in Actors \ {b}
       PROVE  CarriesAll(recent, events, c)
  <2>1. EventsOf(events, c) \cap I = EventsOf(events, c)
    BY <1>4
  <2>2. PICK h : /\ Carries(h, recent, events, c)
                 /\ \A i \in EventsOf(events, c) \cap I : \E l \in EventsOf(recent, c) : h[l] = i
    BY <1>5
  <2> QED
    BY <2>1, <2>2 DEF CarriesAll
<1>11. ShownLast(recent, b, outcome, read, passed)
  BY <1>8, <1>9 DEF ShownLast
<1> QED
  BY <1>5, <1>10, <1>11

\* The cap spares the last of a bot's events and the other bots, and leaves no
\* more than it says.
LEMMA CappingShows ==
    ASSUME NEW events \in Seq(Events), NEW b \in Actors, NEW t, NEW outcome, NEW passed,
           outcome # "none", ShownLast(events, b, outcome, t, passed),
           NEW left, left = CapBotActivity(events, b)
    PROVE  /\ left \in Seq(Events) /\ OwnKept(left, b, outcome, t, passed) /\ Capped(left, b)
           /\ \A c \in Actors \ {b} : CarriesAll(left, events, c)
<1> DEFINE own == EventsOf(events, b)
           count == Cardinality(own)
           dropped == count - ActivityCap
           I == {i \in DOMAIN events : i \in own => Rank(own, i) > dropped}
<1>0. PICK n \in EventsOf(events, b) : /\ Shown(events, b, outcome, t, passed, n)
                                       /\ \A j \in EventsOf(events, b) : j <= n
  BY DEF ShownLast
<1>1. own \in SUBSET (1 .. Len(events)) /\ Len(events) \in Nat
  BY EventTypes
<1> HIDE DEF own
<1>2. /\ IsFiniteSet(own) /\ count \in Nat
      /\ \A i \in own : Rank(own, i) \in 1 .. count
      /\ \A i, j \in own : i < j <=> Rank(own, i) < Rank(own, j)
      /\ \A k \in 1 .. count : \E i \in own : Rank(own, i) = k
  BY <1>1, RanksCount
<1> HIDE DEF count
<1>3. dropped \in Int /\ ActivityCap \in Nat \ {0} /\ count - dropped = ActivityCap
  BY <1>2, ActivityAssumption
<1>4. n \in own \cap I
  <2>1. n \in own /\ \A j \in own : j <= n
    BY <1>0 DEF own
  <2>2. count \in 1 .. count
    <3>1. count # 0
      BY <1>2, <2>1
    <3> QED
      BY <1>2, <3>1
  <2>3. PICK l \in own : Rank(own, l) = count
    BY <1>2, <2>2
  <2>4. l \in Int /\ n \in Int /\ l <= n /\ Rank(own, n) \in 1 .. count
    BY <1>1, <1>2, <2>1
  <2>5. Rank(own, n) = count
    <3>1. l < n => Rank(own, l) < Rank(own, n)
      BY <1>2, <2>1
    <3>2. l = n => Rank(own, n) = count
      BY <2>3
    <3> QED
      BY <1>2, <2>3, <2>4, <3>1, <3>2
  <2>6. Rank(own, n) > dropped
    BY <1>2, <1>3, <2>5
  <2> QED
    BY <2>1, <2>6 DEF EventsOf, own
<1>5. \A c \in Actors \ {b} : EventsOf(events, c) \subseteq I
  BY DEF EventsOf, own
<1>6. I \in SUBSET DOMAIN events /\ left = Retained(events, I)
  BY DEF CapBotActivity, own, count
<1>7. Cardinality(own \cap I) <= ActivityCap /\ Cardinality(own \cap I) \in Nat
  <2> DEFINE kept == own \cap I
             spare == dropped + 1 .. count
             g == [i \in kept |-> Rank(own, i)]
  <2>1. IsFiniteSet(spare) /\ Cardinality(spare) \in Nat
        /\ (dropped >= 0 => Cardinality(spare) = ActivityCap)
    <3>1. dropped + 1 \in Int /\ count \in Int
      BY <1>2, <1>3
    <3>2. IsFiniteSet(spare) /\ Cardinality(spare) = IF dropped + 1 > count THEN 0 ELSE count - (dropped + 1) + 1
      BY <3>1, FS_Interval
    <3> QED
      BY <1>2, <1>3, <3>1, <3>2
  <2>2. IsFiniteSet(kept) /\ Cardinality(kept) <= count /\ Cardinality(kept) \in Nat
    BY <1>2, FS_Intersection, FS_CardinalityType DEF count
  <2>3. g \in Injection(kept, spare)
    <3>1. \A i \in kept : i \in own /\ Rank(own, i) > dropped /\ Rank(own, i) \in 1 .. count
      BY <1>2
    <3>2. g \in [kept -> spare]
      <4>1. \A i \in kept : Rank(own, i) \in spare
        <5> TAKE i \in kept
        <5>1. Rank(own, i) > dropped /\ Rank(own, i) \in 1 .. count
          BY <3>1
        <5> QED
          BY <1>2, <1>3, <5>1
      <4> QED
        BY <4>1
    <3>3. \A i, j \in kept : g[i] = g[j] => i = j
      <4> TAKE i, j \in kept
      <4>1. i \in own /\ j \in own /\ i \in Int /\ j \in Int
        BY <1>1
      <4>2. (i < j <=> Rank(own, i) < Rank(own, j)) /\ (j < i <=> Rank(own, j) < Rank(own, i))
        BY <1>2, <4>1
      <4>3. Rank(own, i) \in Int /\ Rank(own, j) \in Int
        BY <1>2, <4>1
      <4> QED
        BY <4>1, <4>2, <4>3
    <3> HIDE DEF g, kept, spare
    <3> QED
      BY <3>2, <3>3 DEF Injection, IsInjective
  <2> HIDE DEF g, kept, spare
  <2>4. Cardinality(kept) <= Cardinality(spare)
    BY <2>1, <2>3, FS_Injection
  <2>5. Cardinality(kept) <= ActivityCap
    <3>1. dropped < 0 => count <= ActivityCap
      BY <1>2, <1>3
    <3> QED
      BY <1>2, <1>3, <2>1, <2>2, <2>4, <3>1
  <2> QED
    BY <2>2, <2>5 DEF kept
<1> HIDE DEF I
<1>8. \A c : /\ left \in Seq(Events)
             /\ \E g : /\ Carries(g, left, events, c)
                       /\ \A k \in EventsOf(left, c) : g[k] \in I
                       /\ \A i \in EventsOf(events, c) \cap I : \E k \in EventsOf(left, c) : g[k] = i
  <2> TAKE c
  <2>1. /\ Retained(events, I) \in Seq(Events)
        /\ \E g : /\ Carries(g, Retained(events, I), events, c)
                  /\ \A k \in EventsOf(Retained(events, I), c) : g[k] \in I
                  /\ \A i \in EventsOf(events, c) \cap I : \E k \in EventsOf(Retained(events, I), c) : g[k] = i
                  /\ \A k, l \in EventsOf(Retained(events, I), c) : k <= l <=> g[k] <= g[l]
    BY <1>6, RetainingCarries
  <2> QED
    BY <1>6, <2>1
<1>9. PICK g : /\ Carries(g, left, events, b)
               /\ \A k \in EventsOf(left, b) : g[k] \in I
               /\ \A i \in EventsOf(events, b) \cap I : \E k \in EventsOf(left, b) : g[k] = i
  BY <1>8
<1>10. PICK k \in EventsOf(left, b) : g[k] = n
  BY <1>4, <1>9 DEF own
<1>11. OwnKept(left, b, outcome, t, passed)
  <2>1. Shown(left, b, outcome, t, passed, k)
    BY <1>0, <1>9, <1>10, CarriedShows
  <2> QED
    BY <2>1 DEF OwnKept
<1>12. Capped(left, b)
  <2> DEFINE S == own \cap I
  <2>1. (\A l \in EventsOf(left, b) : g[l] \in S) /\ S \subseteq EventsOf(events, b)
    BY <1>9 DEF Carries, own
  <2> HIDE DEF S
  <2>2. left \in Seq(Events)
    BY <1>8
  <2>3. Cardinality(EventsOf(left, b)) <= Cardinality(S)
    BY <1>9, <2>1, <2>2, CarriedCounts
  <2>4. Cardinality(EventsOf(left, b)) \in Nat
    BY <2>2, EventsCount
  <2> QED
    BY <1>3, <1>7, <2>3, <2>4 DEF Capped, S
<1>13. ASSUME NEW c \in Actors \ {b}
       PROVE  CarriesAll(left, events, c)
  <2>1. EventsOf(events, c) \cap I = EventsOf(events, c)
    BY <1>5
  <2>2. PICK h : /\ Carries(h, left, events, c)
                 /\ \A i \in EventsOf(events, c) \cap I : \E l \in EventsOf(left, c) : h[l] = i
    BY <1>8
  <2> QED
    BY <2>1, <2>2 DEF CarriesAll
<1> QED
  BY <1>8, <1>11, <1>12, <1>13

NotedAs(new, log, b, outcome, read, kept) ==
    new = [log EXCEPT !.outcome[b] = outcome, !.updated[b] = read, !.events = kept]

\* A log after an observation is written.
LEMMA ObservationWritten ==
    ASSUME NEW log, NEW passed, Fresh(log, passed), NEW b \in Actors, NEW outcome \in Results, NEW read \in Nat,
           NEW more, NEW recent, NEW kept, NEW new, NEW after,
           b \notin after => b \notin passed /\ read > log.updated[b],
           \A c \in Actors \ {b} : c \notin after => c \notin passed,
           Appended(more, log.events, b, outcome, read),
           recent = WithoutExpired(more, b, read), kept = CapBotActivity(recent, b),
           NotedAs(new, log, b, outcome, read, kept)
    PROVE  Fresh(new, after)
<1>1. /\ log.events \in Seq(Events) /\ log.outcome \in [Actors -> {"none"} \cup Results]
      /\ log.updated \in [Actors -> Int] /\ log \in Logs
  BY DEF Fresh, Logs
<1>2. /\ more \in Seq(Events) /\ ShownLast(more, b, outcome, read, after)
      /\ \A c \in Actors \ {b} : /\ EventsOf(more, c) = EventsOf(log.events, c)
                                 /\ \A i \in EventsOf(log.events, c) : more[i] = log.events[i]
  <2>1. OwnKept(log.events, b, log.outcome[b], log.updated[b], passed) /\ log.updated[b] \in Int
    BY <1>1 DEF Fresh
  <2>2. PICK old, was, t : old = log.events /\ was = log.outcome[b] /\ t = log.updated[b]
    OBVIOUS
  <2>3. /\ old \in Seq(Events) /\ t \in Int
        /\ OwnKept(old, b, was, t, passed) /\ (b \notin after => b \notin passed /\ read > t)
        /\ Appended(more, old, b, outcome, read)
    BY <1>1, <2>1, <2>2
  <2>4. /\ more \in Seq(Events) /\ ShownLast(more, b, outcome, read, after) /\ OthersListed(more, old, b)
    BY <2>3, AppendingShows
  <2> QED
    BY <2>2, <2>4 DEF OthersListed
<1>3. /\ recent \in Seq(Events) /\ ShownLast(recent, b, outcome, read, after)
      /\ \A c \in Actors \ {b} : CarriesAll(recent, more, c)
  BY <1>2, ExpiringShows
<1>4. outcome # "none"
  BY DEF Results
<1>5. /\ kept \in Seq(Events) /\ OwnKept(kept, b, outcome, read, after) /\ Capped(kept, b)
      /\ \A c \in Actors \ {b} : CarriesAll(kept, recent, c)
  BY <1>3, <1>4, CappingShows
<1>7. /\ new \in Logs /\ new.events = kept
      /\ new.outcome[b] = outcome /\ new.updated[b] = read
      /\ \A c \in Actors \ {b} : new.outcome[c] = log.outcome[c] /\ new.updated[c] = log.updated[c]
  <2>1. PICK outcomes \in [Actors -> {"none"} \cup Results] : outcomes = [log.outcome EXCEPT ![b] = outcome]
    BY <1>1
  <2>2. PICK times \in [Actors -> Int] : times = [log.updated EXCEPT ![b] = read]
    <3>1. read \in Int
      OBVIOUS
    <3> QED
      BY <1>1, <3>1
  <2>3. new = [log EXCEPT !.outcome = outcomes, !.updated = times, !.events = kept]
    BY <2>1, <2>2 DEF NotedAs
  <2>4. new \in Logs /\ new.events = kept /\ new.outcome = outcomes /\ new.updated = times
    BY <1>1, <1>5, <2>1, <2>2, <2>3 DEF Logs
  <2> QED
    BY <1>1, <2>1, <2>2, <2>4
<1>10. ASSUME NEW c \in Actors \ {b}
       PROVE  OwnKept(kept, c, log.outcome[c], log.updated[c], after) /\ Capped(kept, c)
  <2>1. c \notin after => c \notin passed
    OBVIOUS
  <2>2. OwnKept(log.events, c, log.outcome[c], log.updated[c], after) /\ Capped(log.events, c)
    BY <2>1 DEF Fresh, OwnKept, Shown
  <2>3. /\ EventsOf(more, c) = EventsOf(log.events, c)
        /\ \A i \in EventsOf(log.events, c) : more[i] = log.events[i]
    BY <1>2
  <2>4. OwnKept(more, c, log.outcome[c], log.updated[c], after) /\ Capped(more, c)
    BY <2>2, <2>3 DEF OwnKept, Shown, Capped
  <2>5. OwnKept(recent, c, log.outcome[c], log.updated[c], after) /\ Capped(recent, c)
    <3>1. more \in Seq(Events) /\ recent \in Seq(Events) /\ CarriesAll(recent, more, c)
      BY <1>2, <1>3
    <3> QED
      BY <2>4, <3>1, CarriedKeeps
  <2>6. kept \in Seq(Events) /\ recent \in Seq(Events) /\ CarriesAll(kept, recent, c)
    BY <1>3, <1>5
  <2> QED
    BY <2>5, <2>6, CarriedKeeps
<1> QED
  BY <1>5, <1>7, <1>10 DEF Fresh

LEMMA ObservationKeeps ==
    ASSUME FreshInv, NEW b \in Actors, NEW outcome \in Results, NEW read \in 0 .. now,
           NEW refused, NoteBotObservation(b, outcome, read, refused)
    PROVE  FreshInv'
<1>1. now' = now /\ now \in Nat /\ read \in Nat /\ Fresh(noted, overtaken) /\ Fresh(notedFile, overtaken)
  BY DEF NoteBotObservation, FreshInv
<1>2. CASE UNCHANGED observationVars
  BY <1>1, <1>2 DEF FreshInv, observationVars, Fresh
<1>3. CASE ~ UNCHANGED observationVars
  <2> DEFINE more == Append(noted.events, [bot |-> b, outcome |-> outcome, at |-> read])
             recent == WithoutExpired(more, b, read)
             kept == CapBotActivity(recent, b)
             new == noted'
             after == overtaken'
  <2>1. /\ new = [noted EXCEPT !.outcome[b] = outcome, !.updated[b] = read, !.events = kept]
        /\ notedFile' = new
        /\ after = IF read > noted.updated[b] THEN overtaken ELSE overtaken \cup {b}
    BY <1>3 DEF NoteBotObservation
  <2>2. /\ b \notin after => b \notin overtaken /\ read > noted.updated[b]
        /\ \A c \in Actors \ {b} : c \notin after => c \notin overtaken
    BY <2>1
  <2>3. /\ more = Append(noted.events, [bot |-> b, outcome |-> outcome, at |-> read])
        /\ recent = WithoutExpired(more, b, read) /\ kept = CapBotActivity(recent, b)
    OBVIOUS
  <2> HIDE DEF new, after, kept, recent, more
  <2>4. Fresh(new, after)
    <3>1. NotedAs(new, noted, b, outcome, read, kept) /\ Appended(more, noted.events, b, outcome, read)
      BY <2>1, <2>3 DEF NotedAs, Appended
    <3>2. recent = WithoutExpired(more, b, read) /\ kept = CapBotActivity(recent, b)
      BY <2>3
    <3> QED
      BY <1>1, <2>2, <3>1, <3>2, ObservationWritten
  <2> QED
    BY <1>1, <2>1, <2>4 DEF FreshInv, new, after
<1> QED
  BY <1>2, <1>3

\* The order events are read in leaves each bot the events it had.
LEMMA ReopenKeepsEvents ==
    ASSUME FreshInv, Reopen
    PROVE  FreshInv'
<1>1. PICK events \in Loaded(notedFile.events) : noted' = [notedFile EXCEPT !.events = events]
  BY DEF Reopen
<1>2. UNCHANGED <<now, notedFile, overtaken>>
  BY DEF Reopen
<1> DEFINE old == notedFile.events
<1>3. notedFile \in Logs /\ old \in Seq(Events) /\ now \in Nat /\ Fresh(notedFile, overtaken)
  BY DEF FreshInv, Fresh, Logs
<1>4. PICK p \in Bijection(DOMAIN old, DOMAIN old) : events = [i \in DOMAIN old |-> old[p[i]]]
  BY <1>1 DEF Loaded
<1>5. /\ p \in [DOMAIN old -> DOMAIN old]
      /\ \A i, j \in DOMAIN old : p[i] = p[j] => i = j
      /\ \A j \in DOMAIN old : \E i \in DOMAIN old : p[i] = j
  BY <1>4 DEF Bijection, Injection, Surjection, IsInjective
<1>6. DOMAIN old = 1 .. Len(old) /\ Len(old) \in Nat /\ \A i \in DOMAIN old : old[i] \in Events
  BY <1>3, EventTypes
<1> HIDE DEF old
<1>7. events \in Seq(Events) /\ DOMAIN events = DOMAIN old /\ \A i \in DOMAIN old : events[i] = old[p[i]]
  <2>1. \A i \in 1 .. Len(old) : old[p[i]] \in Events
    BY <1>5, <1>6
  <2>2. events = [i \in 1 .. Len(old) |-> old[p[i]]]
    BY <1>4, <1>6
  <2>3. events \in Seq(Events)
    BY <1>6, <2>1, <2>2
  <2> QED
    BY <1>4, <2>3
<1>8. ASSUME NEW b \in Actors
      PROVE  CarriesAll(events, old, b)
  <2> DEFINE g == [k \in EventsOf(events, b) |-> p[k]]
  <2>1. \A k \in EventsOf(events, b) : /\ k \in DOMAIN old /\ g[k] = p[k] /\ p[k] \in EventsOf(old, b)
                                       /\ events[k] = old[g[k]]
    BY <1>5, <1>7 DEF EventsOf
  <2>2. g \in [EventsOf(events, b) -> EventsOf(old, b)]
    BY <2>1
  <2>3. \A k, l \in EventsOf(events, b) : g[k] = g[l] => k = l
    BY <1>5, <2>1
  <2>4. \A i \in EventsOf(old, b) : \E k \in EventsOf(events, b) : g[k] = i
    <3> TAKE i \in EventsOf(old, b)
    <3>1. i \in DOMAIN old /\ old[i].bot = b
      BY DEF EventsOf
    <3>2. PICK k \in DOMAIN old : p[k] = i
      BY <1>5, <3>1
    <3>3. k \in EventsOf(events, b)
      BY <1>7, <3>1, <3>2 DEF EventsOf
    <3> QED
      BY <3>2, <3>3
  <2> HIDE DEF g
  <2>5. Carries(g, events, old, b)
    BY <2>1, <2>2, <2>3 DEF Carries
  <2> QED
    BY <2>4, <2>5 DEF CarriesAll
<1>9. /\ noted' \in Logs /\ noted'.events = events
      /\ noted'.outcome = notedFile.outcome /\ noted'.updated = notedFile.updated
  BY <1>1, <1>3, <1>7 DEF Logs
<1>10. Fresh(noted', overtaken)
  <2>1. ASSUME NEW b \in Actors
        PROVE  /\ OwnKept(events, b, notedFile.outcome[b], notedFile.updated[b], overtaken)
               /\ Capped(events, b)
    <3>1. old \in Seq(Events) /\ CarriesAll(events, old, b) /\ Capped(old, b)
          /\ OwnKept(old, b, notedFile.outcome[b], notedFile.updated[b], overtaken)
      BY <1>3, <1>8 DEF Fresh, old
    <3> QED
      BY <1>7, <3>1, CarriedKeeps
  <2> QED
    BY <1>9, <2>1 DEF Fresh
<1> QED
  BY <1>2, <1>3, <1>10 DEF FreshInv

LEMMA FreshStepsKeep == FreshInv /\ [BotActivityNext]_botActivityVars => FreshInv'
<1> SUFFICES ASSUME FreshInv, [BotActivityNext]_botActivityVars PROVE FreshInv'
  OBVIOUS
<1>1. ASSUME now' \in Nat, UNCHANGED observationVars PROVE FreshInv'
  BY <1>1 DEF FreshInv, observationVars
<1>2. CASE Pass
  BY <1>1, <1>2 DEF Pass, FreshInv, activityVars
<1>3. CASE OperationNext
  <2>1. ASSUME UNCHANGED <<now, activityVars>> PROVE FreshInv'
    BY <1>1, <2>1 DEF FreshInv, activityVars
  <2> QED
    BY <1>2, <1>3, <2>1, OperationsAside, ReopenKeepsEvents DEF OperationNext
<1>4. CASE HeartbeatNext
  <2>1. ASSUME NEW b \in Actors, NEW read \in 0 .. now, NEW refused \in BOOLEAN, Heartbeat(b, read, refused)
        PROVE  FreshInv'
    BY <1>1, <2>1 DEF Heartbeat, FreshInv
  <2> QED
    BY <1>2, <1>4, <2>1, ReopenKeepsEvents DEF HeartbeatNext
<1>5. CASE ObservationNext
  BY <1>2, <1>5, ObservationKeeps, ReopenKeepsEvents DEF ObservationNext, Results
<1>6. CASE UNCHANGED botActivityVars
  BY <1>1, <1>6 DEF botActivityVars, activityVars, FreshInv
<1> QED
  BY <1>3, <1>4, <1>5, <1>6 DEF BotActivityNext

LEMMA FreshInitHolds == BotActivityInit => FreshInv
<1> SUFFICES ASSUME BotActivityInit PROVE FreshInv
  OBVIOUS
<1>1. now = 0 /\ noted = NoActivity /\ notedFile = NoActivity
  BY DEF BotActivityInit
<1>2. NoActivity \in Logs /\ NoActivity.events = <<>> /\ \A b \in Actors : NoActivity.outcome[b] = "none"
  <2>1. Never \in Int
    BY ActivityAssumption DEF Never
  <2>2. <<>> \in Seq(Events)
    OBVIOUS
  <2> QED
    BY <2>1, <2>2 DEF NoActivity, Logs
<1>3. \A b : EventsOf(<<>>, b) = {}
  BY DEF EventsOf
<1>4. Cardinality({}) <= ActivityCap
  BY FS_EmptySet, ActivityAssumption
<1> QED
  BY <1>1, <1>2, <1>3, <1>4 DEF FreshInv, Fresh, OwnKept, Capped

LEMMA FreshInvGives == FreshInv => ActivityIsFresh
<1> SUFFICES ASSUME FreshInv, NEW log \in {noted, notedFile}, NEW b \in Actors
             PROVE  /\ Cardinality(EventsOf(log.events, b)) <= ActivityCap
                    /\ log.outcome[b] # "none" =>
                          \E i \in EventsOf(log.events, b) :
                             /\ log.events[i].outcome = log.outcome[b]
                             /\ log.events[i].at = log.updated[b]
                             /\ b \notin overtaken =>
                                   \A j \in EventsOf(log.events, b) \ {i} : log.events[j].at < log.events[i].at
  BY DEF ActivityIsFresh
<1>1. /\ Capped(log.events, b)
      /\ OwnKept(log.events, b, log.outcome[b], log.updated[b], overtaken)
  BY DEF FreshInv, Fresh
<1> QED
  BY <1>1 DEF Capped, OwnKept, Shown

\* The event behind a bot's last outcome is kept in memory and in the file, its
\* events stay within the cap, however busy the others are, and it is the newest
\* of them unless an observation overtook a later one (note_bot_observation,
\* cap_bot_activity, load_bot_activity).
THEOREM NewestEventsAreKept == BotActivitySpec => []ActivityIsFresh
<1> QED
  BY FreshInitHolds, FreshStepsKeep, FreshInvGives, PTL DEF BotActivitySpec

\* Operations run once, heartbeats and the newest events are kept, for any
\* callers, bots and limits.
THEOREM ActivityHolds == BotActivitySpec => []ActivityIsTrue
<1>1. OperationsRunOnce /\ HeartbeatsAreKept /\ ActivityIsFresh => ActivityIsTrue
  BY DEF ActivityIsTrue
<1> QED
  BY <1>1, OperationsAreBooked, HeartbeatsLast, NewestEventsAreKept, PTL

-----------------------------------------------------------------------------
(* Records with a cap.  A score just recorded is the last of the list, or was  *)
(* older than all that are kept; the newest time ever recorded is kept while   *)
(* no commit was rewound.                                                      *)

Scores == [sha : Shas, time : Nat]

OneEach(s) == \A i, j \in DOMAIN s : s[i].sha = s[j].sha => i = j

\* A score recorded is last of a list, or older than all of it.
HoldsOrPassed(s, r) ==
    /\ r \in Scores /\ s # <<>>
    /\ s[Len(s)] = r \/ \A i \in DOMAIN s : s[i].time > r.time

NoneAfter(s, t) == \A i \in DOMAIN s : s[i].time <= t
HasTime(s, t) == \E i \in DOMAIN s : s[i].time = t

BoundedInv ==
    /\ clock \in Nat
    /\ scores \in Seq(Scores) /\ OneEach(scores) /\ Len(scores) <= MaxScoresPerBranch
    /\ \A r \in lastScored : HoldsOrPassed(scores, r)
    /\ newest \in Nat /\ rewound \in BOOLEAN
    /\ NoneAfter(scores, newest)
    /\ scores = <<>> => newest = 0
    /\ scores # <<>> /\ ~rewound => HasTime(scores, newest)
    /\ waitlist \subseteq {w \in Written : ~w.upper}
    /\ IsFiniteSet(waitlist) /\ Cardinality(waitlist) <= MaxWaitlist

LEMMA ScoreTypes ==
    ASSUME NEW s \in Seq(Scores)
    PROVE  /\ Len(s) \in Nat /\ DOMAIN s = 1 .. Len(s) /\ \A i \in DOMAIN s : i \in Nat
           /\ \A i \in DOMAIN s : s[i] \in Scores /\ s[i].time \in Nat /\ s[i].sha \in Shas
<1>1. \A x \in Scores : x.time \in Nat /\ x.sha \in Shas
  BY DEF Scores
<1>2. Len(s) \in Nat /\ DOMAIN s = 1 .. Len(s) /\ \A i \in DOMAIN s : s[i] \in Scores
  OBVIOUS
<1> QED
  BY <1>1, <1>2

LEMMA LeastOf ==
    ASSUME NEW T, T \subseteq Nat, T # {}
    PROVE  \E x \in T : \A y \in T : x <= y
<1> DEFINE Smaller == { ss \in Nat \X Nat : ss[1] < ss[2] }
<1>1. IsWellFoundedOn(Smaller, Nat)
  BY NatLessThanWellFounded, Zenon DEF OpToRel
<1>2. PICK x \in T : \A y \in T : ~ (<<y, x>> \in Smaller)
  BY <1>1, WFMin
<1>3. ASSUME NEW y \in T, y < x
      PROVE  FALSE
  <2>1. PICK pair : pair = <<y, x>>
    OBVIOUS
  <2>2. pair \in Nat \X Nat /\ pair[1] < pair[2]
    BY <1>3, <2>1
  <2> QED
    BY <1>2, <2>1, <2>2
<1> QED
  BY <1>3

\* A list has an oldest score, the first of those as old, and OldestOf is one.
LEMMA OldestIsOne ==
    ASSUME NEW s \in Seq(Scores), s # <<>>
    PROVE  /\ OldestOf(s) \in DOMAIN s
           /\ \A j \in DOMAIN s : \/ s[j].time > s[OldestOf(s)].time
                                  \/ s[j].time = s[OldestOf(s)].time /\ j >= OldestOf(s)
<1> DEFINE Oldest(i) == \A j \in DOMAIN s : s[j].time > s[i].time \/ (s[j].time = s[i].time /\ j >= i)
           times == {s[i].time : i \in DOMAIN s}
<1>1. DOMAIN s # {} /\ \A i \in DOMAIN s : i \in Nat /\ s[i].time \in Nat
  BY ScoreTypes
<1>2. PICK t \in times : \A u \in times : t <= u
  <2>1. times \subseteq Nat /\ times # {}
    BY <1>1
  <2> HIDE DEF times
  <2> QED
    BY <2>1, LeastOf
<1> DEFINE first == {i \in DOMAIN s : s[i].time = t}
<1>3. PICK f \in first : \A i \in first : f <= i
  <2>1. first \subseteq Nat /\ first # {}
    BY <1>1, <1>2
  <2> HIDE DEF first
  <2> QED
    BY <2>1, LeastOf
<1>4. f \in DOMAIN s /\ s[f].time = t /\ t \in Nat /\ f \in Nat
  BY <1>1, <1>3
<1>5. Oldest(f)
  <2> TAKE j \in DOMAIN s
  <2>1. t <= s[j].time /\ s[j].time \in Nat /\ j \in Nat
    BY <1>1, <1>2
  <2>2. s[j].time = t => f <= j
    BY <1>3
  <2> QED
    BY <1>4, <2>1, <2>2
<1>6. OldestOf(s) = CHOOSE i \in DOMAIN s : Oldest(i)
  BY DEF OldestOf
<1>7. OldestOf(s) \in DOMAIN s /\ Oldest(OldestOf(s))
  <2> HIDE DEF Oldest
  <2> QED
    BY <1>4, <1>5, <1>6
<1> QED
  BY <1>7

\* A list has a latest score, the last of those as late, and LatestScore is one.
LEMMA LatestIsOne ==
    ASSUME BoundedInv, scores # <<>>
    PROVE  /\ LatestScore \in DOMAIN scores
           /\ \A j \in DOMAIN scores : \/ scores[j].time < scores[LatestScore].time
                                       \/ scores[j].time = scores[LatestScore].time /\ j <= LatestScore
<1> DEFINE Latest(i) == \A j \in DOMAIN scores :
                          scores[j].time < scores[i].time \/ (scores[j].time = scores[i].time /\ j <= i)
           ages == {newest - scores[i].time : i \in DOMAIN scores}
<1>1. /\ scores \in Seq(Scores) /\ newest \in Nat /\ DOMAIN scores # {}
      /\ \A i \in DOMAIN scores : scores[i].time <= newest
  BY DEF BoundedInv, NoneAfter
<1>2. Len(scores) \in Nat /\ \A i \in DOMAIN scores : i \in 1 .. Len(scores) /\ scores[i].time \in Nat
  BY <1>1, ScoreTypes
<1>3. PICK a \in ages : \A u \in ages : a <= u
  <2>1. ages \subseteq Nat /\ ages # {}
    BY <1>1, <1>2
  <2> HIDE DEF ages
  <2> QED
    BY <2>1, LeastOf
<1> DEFINE left == {Len(scores) - i : i \in {k \in DOMAIN scores : newest - scores[k].time = a}}
<1>4. PICK d \in left : \A u \in left : d <= u
  <2>1. left \subseteq Nat /\ left # {}
    BY <1>2, <1>3
  <2> HIDE DEF left
  <2> QED
    BY <2>1, LeastOf
<1>5. PICK l \in DOMAIN scores : newest - scores[l].time = a /\ d = Len(scores) - l
  BY <1>4
<1>6. Latest(l)
  <2> TAKE j \in DOMAIN scores
  <2>1. newest - scores[l].time <= newest - scores[j].time
    BY <1>3, <1>5
  <2>2. newest - scores[j].time = a => Len(scores) - l <= Len(scores) - j
    BY <1>4, <1>5
  <2>3. /\ l \in Nat /\ j \in Nat /\ scores[j].time \in Nat /\ scores[l].time \in Nat /\ Len(scores) \in Nat
        /\ newest \in Nat /\ newest - scores[l].time = a
    BY <1>1, <1>2, <1>5
  <2>4. \A x, y, n, i, k, m \in Nat : /\ n - x <= n - y
                                      /\ n - y = n - x => m - i <= m - k
                                      => y < x \/ (y = x /\ k <= i)
    OBVIOUS
  <2> QED
    BY <2>1, <2>2, <2>3, <2>4
<1>7. LatestScore = CHOOSE i \in DOMAIN scores : Latest(i)
  BY DEF LatestScore
<1>8. LatestScore \in DOMAIN scores /\ Latest(LatestScore)
  <2> HIDE DEF Latest
  <2> QED
    BY <1>5, <1>6, <1>7
<1> QED
  BY <1>8

\* What is left of such a list is one.
LEMMA ScoresLeft ==
    ASSUME NEW s \in Seq(Scores), NEW I \in SUBSET DOMAIN s
    PROVE  /\ Retained(s, I) \in Seq(Scores) /\ Len(Retained(s, I)) = Cardinality(I)
           /\ Cardinality(I) \in Nat /\ Cardinality(I) <= Len(s)
           /\ OneEach(s) => OneEach(Retained(s, I))
           /\ \A k \in DOMAIN Retained(s, I) : \E i \in I : Retained(s, I)[k] = s[i]
           /\ \A i \in I : \E k \in DOMAIN Retained(s, I) : Retained(s, I)[k] = s[i]
           /\ Len(s) \in I => Retained(s, I) # <<>> /\ Retained(s, I)[Len(Retained(s, I))] = s[Len(s)]
<1> DEFINE m == Cardinality(I)
           left == Retained(s, I)
<1>0. PICK f : Stood(f, Scores, s, I)
  BY RetainedPlaces
<1>1. /\ f \in [1 .. m -> I] /\ m \in Nat /\ left \in Seq(Scores) /\ DOMAIN left = 1 .. m
      /\ \A k \in 1 .. m : left[k] = s[f[k]] /\ Rank(I, f[k]) = k
      /\ \A k, l \in 1 .. m : k < l <=> f[k] < f[l]
      /\ \A i \in I : \E k \in 1 .. m : f[k] = i
  BY <1>0 DEF Stood
<1>2. Cardinality(I) <= Len(s)
  <2>1. PICK n \in Nat : n = Len(s) /\ DOMAIN s = 1 .. n
    BY ScoreTypes
  <2>2. IsFiniteSet(1 .. n) /\ Cardinality(1 .. n) = n
    BY FS_Interval
  <2> QED
    BY <2>1, <2>2, FS_Subset
<1> HIDE DEF m, left
<1>3. Len(left) = m
  BY <1>1
<1>4. /\ \A k \in 1 .. m : f[k] \in I /\ f[k] \in DOMAIN s /\ f[k] \in Int
      /\ \A i \in DOMAIN s : i \in Int
  BY <1>1, ScoreTypes
<1>5. \A i \in I : \E k \in DOMAIN left : left[k] = s[i]
  BY <1>1
<1>6. ASSUME OneEach(s) PROVE OneEach(left)
  <2> SUFFICES ASSUME NEW k \in 1 .. m, NEW l \in 1 .. m, left[k].sha = left[l].sha
               PROVE  k = l
    BY <1>1 DEF OneEach
  <2>1. f[k] = f[l]
    BY <1>1, <1>4, <1>6 DEF OneEach
  <2>2. Rank(I, f[k]) = k /\ Rank(I, f[l]) = l
    BY <1>1
  <2> QED
    BY <2>1, <2>2
<1>7. ASSUME Len(s) \in I PROVE left # <<>> /\ left[m] = s[Len(s)]
  <2>1. PICK k \in 1 .. m : f[k] = Len(s)
    BY <1>1, <1>7
  <2>2. k = m
    <3>1. m \in 1 .. m /\ f[m] \in 1 .. Len(s) /\ Len(s) \in Nat
      BY <1>1, <1>4, <2>1, ScoreTypes
    <3>2. ~(k < m)
      BY <1>1, <2>1, <3>1
    <3> QED
      BY <1>1, <3>2
  <2>3. left[m] = s[Len(s)] /\ DOMAIN left # {}
    BY <1>1, <2>1, <2>2
  <2> QED
    BY <2>3
<1> QED
  BY <1>1, <1>2, <1>3, <1>4, <1>5, <1>6, <1>7 DEF left, m

\* A list before the cap: one score per commit, the recorded one last, and the
\* newest time there unless a commit was rewound.
Full(s, row, t, wound) ==
    /\ s \in Seq(Scores) /\ OneEach(s) /\ s # <<>> /\ s[Len(s)] = row
    /\ NoneAfter(s, t)
    /\ ~wound => HasTime(s, t)

\* The cap takes neither the row just recorded, unless all others are newer,
\* nor the last of the newest.
LEMMA CapTakesTheOldest ==
    ASSUME NEW s, NEW row, NEW t \in Nat, NEW wound \in BOOLEAN, Full(s, row, t, wound),
           NEW n \in Nat, n >= 1, Len(s) = n + 1,
           NEW left, left = Retained(s, DOMAIN s \ {OldestOf(s)})
    PROVE  /\ left \in Seq(Scores) /\ OneEach(left) /\ Len(left) = n /\ left # <<>>
           /\ HoldsOrPassed(left, row)
           /\ NoneAfter(left, t)
           /\ ~wound => HasTime(left, t)
<1> DEFINE o == OldestOf(s)
           stay == DOMAIN s \ {OldestOf(s)}
<1>0. left = Retained(s, stay)
  OBVIOUS
<1>1. /\ s \in Seq(Scores) /\ OneEach(s) /\ s # <<>> /\ s[n + 1] = row /\ DOMAIN s = 1 .. (n + 1)
      /\ \A i \in DOMAIN s : s[i].time <= t /\ s[i].time \in Nat /\ i \in Nat /\ s[i] \in Scores
  BY ScoreTypes DEF Full, NoneAfter
<1>2. o \in DOMAIN s /\ \A j \in DOMAIN s : s[j].time > s[o].time \/ (s[j].time = s[o].time /\ j >= o)
  BY <1>1, OldestIsOne
<1>3. stay \in SUBSET DOMAIN s /\ stay = DOMAIN s \ {o}
  OBVIOUS
<1> HIDE DEF o, stay
<1>4. Cardinality(stay) = n
  <2>1. IsFiniteSet(DOMAIN s) /\ Cardinality(DOMAIN s) = n + 1
    BY <1>1, FS_Interval
  <2>2. Cardinality(stay) = Cardinality(DOMAIN s) - 1
    BY <1>2, <1>3, <2>1, FS_RemoveElement
  <2> QED
    BY <2>1, <2>2
<1>5. /\ left \in Seq(Scores) /\ Len(left) = n /\ OneEach(left)
      /\ \A k \in DOMAIN left : \E i \in stay : left[k] = s[i]
      /\ \A i \in stay : \E k \in DOMAIN left : left[k] = s[i]
      /\ n + 1 \in stay => left[Len(left)] = s[n + 1]
  <2>1. left \in Seq(Scores) /\ Len(left) = Cardinality(stay) /\ OneEach(left)
    BY <1>0, <1>1, <1>3, ScoresLeft
  <2>2. /\ \A k \in DOMAIN left : \E i \in stay : left[k] = s[i]
        /\ \A i \in stay : \E k \in DOMAIN left : left[k] = s[i]
    <3>1. s \in Seq(Scores) /\ stay \in SUBSET DOMAIN s
      BY <1>1, <1>3
    <3>2. /\ \A k \in DOMAIN Retained(s, stay) : \E i \in stay : Retained(s, stay)[k] = s[i]
          /\ \A i \in stay : \E k \in DOMAIN Retained(s, stay) : Retained(s, stay)[k] = s[i]
      BY <3>1, ScoresLeft
    <3> QED
      BY <1>0, <3>2
  <2>3. Len(s) \in stay => left[Len(left)] = s[Len(s)]
    BY <1>0, <1>1, <1>3, ScoresLeft
  <2> QED
    BY <1>1, <1>4, <2>1, <2>2, <2>3
<1>6. left # <<>> /\ DOMAIN left = 1 .. n
  BY <1>5, ScoreTypes
<1>7. HoldsOrPassed(left, row)
  <2>1. row \in Scores
    BY <1>1
  <2>2. CASE o # n + 1
    <3>1. n + 1 \in stay
      BY <1>1, <1>3, <2>2
    <3> QED
      BY <1>1, <1>5, <1>6, <2>1, <3>1 DEF HoldsOrPassed
  <2>3. CASE o = n + 1
    <3>1. ASSUME NEW i \in stay PROVE s[i].time > row.time
      <4>1. i \in 1 .. (n + 1) /\ i # n + 1
        BY <1>1, <1>3, <2>3
      <4>2. ~(i >= n + 1)
        BY <4>1
      <4>3. s[i].time > s[o].time \/ (s[i].time = s[o].time /\ i >= o)
        BY <1>1, <1>2, <4>1
      <4> QED
        BY <1>1, <2>3, <4>2, <4>3
    <3>2. \A k \in DOMAIN left : left[k].time > row.time
      BY <1>5, <3>1
    <3> QED
      BY <1>6, <2>1, <3>2 DEF HoldsOrPassed
  <2> QED
    BY <2>2, <2>3
<1>8. NoneAfter(left, t)
  BY <1>1, <1>3, <1>5 DEF NoneAfter
<1>9. ASSUME ~wound PROVE HasTime(left, t)
  <2>1. PICK i \in DOMAIN s : s[i].time = t
    BY <1>9 DEF Full, HasTime
  <2>2. PICK j \in stay : s[j].time = t
    <3>1. CASE i # o
      BY <1>3, <2>1, <3>1
    <3>2. CASE i = o
      <4>1. PICK j \in DOMAIN s : j # o
        <5>1. 1 \in DOMAIN s /\ n + 1 \in DOMAIN s /\ 1 # n + 1
          BY <1>1
        <5> QED
          BY <5>1
      <4>2. s[j].time <= t /\ s[j].time \in Nat /\ (s[j].time > t \/ s[j].time = t)
        BY <1>1, <1>2, <2>1, <3>2
      <4>3. s[j].time = t /\ j \in stay
        BY <1>3, <4>1, <4>2
      <4> QED
        BY <4>3
    <3> QED
      BY <3>1, <3>2
  <2>3. PICK k \in DOMAIN left : left[k] = s[j]
    BY <1>5
  <2> QED
    BY <2>2, <2>3 DEF HasTime
<1> QED
  BY <1>5, <1>6, <1>7, <1>8, <1>9

\* With the score of its commit before it dropped, a score makes such a list.
LEMMA ScoreMakesFull ==
    ASSUME BoundedInv, NEW sha \in Shas, NEW read \in Nat,
           NEW row, row = [sha |-> sha, time |-> read],
           NEW t, t = IF read > newest THEN read ELSE newest,
           NEW wound \in BOOLEAN,
           ~wound => ~rewound /\ \A i \in DOMAIN scores : scores[i].sha = sha => scores[i].time <= read
    PROVE  LET kept == Append(WithoutCommit(scores, sha), row) IN
           /\ Full(kept, row, t, wound) /\ t \in Nat
           /\ \E n \in Nat : Len(kept) = n + 1 /\ n <= MaxScoresPerBranch
<1> DEFINE others == {i \in DOMAIN scores : scores[i].sha # sha}
           without == WithoutCommit(scores, sha)
           kept == Append(without, row)
           n == Len(without)
<1>1. /\ scores \in Seq(Scores) /\ OneEach(scores) /\ newest \in Nat
      /\ Len(scores) <= MaxScoresPerBranch /\ Len(scores) \in Nat /\ MaxScoresPerBranch \in Nat
      /\ \A i \in DOMAIN scores : scores[i].time <= newest /\ scores[i].time \in Nat
  BY ScoreTypes, RecordsAssumption DEF BoundedInv, NoneAfter
<1>2. t \in Nat /\ newest <= t /\ read <= t
  BY <1>1
<1>3. /\ without \in Seq(Scores) /\ OneEach(without) /\ n <= Len(scores) /\ n \in Nat /\ DOMAIN without = 1 .. n
      /\ \A k \in DOMAIN without : without[k].sha # sha /\ without[k].time <= newest /\ without[k].time \in Nat
      /\ \A i \in others : \E k \in DOMAIN without : without[k] = scores[i]
  <2>1. others \in SUBSET DOMAIN scores /\ without = Retained(scores, others)
    BY DEF WithoutCommit
  <2>2. \A i \in others : scores[i].sha # sha
    OBVIOUS
  <2> HIDE DEF others, without
  <2>3. /\ without \in Seq(Scores) /\ n = Cardinality(others) /\ Cardinality(others) \in Nat
        /\ Cardinality(others) <= Len(scores) /\ OneEach(without)
        /\ \A k \in DOMAIN without : \E i \in others : without[k] = scores[i]
        /\ \A i \in others : \E k \in DOMAIN without : without[k] = scores[i]
    BY <1>1, <2>1, ScoresLeft
  <2>4. DOMAIN without = 1 .. n
    BY <2>3, ScoreTypes
  <2> QED
    BY <1>1, <2>1, <2>2, <2>3, <2>4
<1>4. row \in Scores /\ row.sha = sha /\ row.time = read
  BY DEF Scores
<1>5. others = {i \in DOMAIN scores : scores[i].sha # sha}
  OBVIOUS
<1> HIDE DEF without, others
<1>6. /\ kept \in Seq(Scores) /\ Len(kept) = n + 1 /\ DOMAIN kept = 1 .. (n + 1)
      /\ \A i \in 1 .. n : kept[i] = without[i]
      /\ kept[n + 1] = row
  BY <1>3, <1>4
<1> HIDE DEF n, kept
<1>7. \A i \in DOMAIN kept : i \in 1 .. n \/ i = n + 1
  BY <1>3, <1>6
<1>8. NoneAfter(kept, t)
  <2>1. ASSUME NEW i \in DOMAIN kept PROVE kept[i].time <= t
    <3>1. CASE i \in 1 .. n
      <4>1. kept[i].time <= newest /\ kept[i].time \in Nat
        BY <1>3, <1>6, <3>1
      <4> QED
        BY <1>1, <1>2, <4>1
    <3>2. CASE i = n + 1
      BY <1>2, <1>4, <1>6, <3>2
    <3> QED
      BY <1>7, <3>1, <3>2
  <2> QED
    BY <2>1 DEF NoneAfter
<1>9. OneEach(kept)
  <2>1. \A i \in 1 .. n : kept[i].sha # sha
    BY <1>3, <1>6
  <2>2. \A i, j \in 1 .. n : kept[i].sha = kept[j].sha => i = j
    BY <1>3, <1>6 DEF OneEach
  <2> QED
    BY <1>4, <1>6, <1>7, <2>1, <2>2 DEF OneEach
<1>10. ASSUME ~wound PROVE HasTime(kept, t)
  <2>1. n + 1 \in DOMAIN kept
    BY <1>3, <1>6
  <2>2. CASE t = read
    BY <1>4, <1>6, <2>1, <2>2 DEF HasTime
  <2>3. CASE t # read
    <3>1. t = newest /\ read < newest /\ newest # 0
      BY <1>1, <2>3
    <3>2. PICK i \in DOMAIN scores : scores[i].time = newest
      BY <1>10, <3>1 DEF BoundedInv, HasTime
    <3>3. i \in others
      BY <1>1, <1>5, <1>10, <3>1, <3>2
    <3>4. PICK k \in DOMAIN without : without[k] = scores[i]
      BY <1>3, <3>3
    <3>5. k \in DOMAIN kept /\ kept[k].time = newest
      BY <1>3, <1>6, <3>2, <3>4
    <3> QED
      BY <3>1, <3>5 DEF HasTime
  <2> QED
    BY <2>2, <2>3
<1>11. Full(kept, row, t, wound)
  <2>1. kept # <<>>
    BY <1>3, <1>6
  <2> QED
    BY <1>6, <1>8, <1>9, <1>10, <2>1 DEF Full
<1>12. n <= MaxScoresPerBranch /\ n \in Nat
  BY <1>1, <1>3
<1> QED
  BY <1>2, <1>6, <1>11, <1>12 DEF kept, without

LEMMA ScoreRecorded ==
    ASSUME BoundedInv, NEW sha \in Shas, NEW read \in 0 .. clock, RecordJankuraiScore(sha, read)
    PROVE  BoundedInv'
<1> DEFINE row == [sha |-> sha, time |-> read]
           kept == Append(WithoutCommit(scores, sha), row)
<1>1. /\ scores' = IF Len(kept) > MaxScoresPerBranch THEN Retained(kept, DOMAIN kept \ {OldestOf(kept)}) ELSE kept
      /\ lastScored' = {row} /\ newest' = (IF read > newest THEN read ELSE newest)
      /\ rewound' = (rewound \/ \E i \in DOMAIN scores : scores[i].sha = sha /\ scores[i].time > read)
      /\ waitlist' = waitlist /\ clock' = clock
  BY DEF RecordJankuraiScore
<1>2. /\ read \in Nat /\ clock \in Nat /\ rewound \in BOOLEAN /\ scores \in Seq(Scores)
      /\ \A i \in DOMAIN scores : scores[i].time \in Nat
  BY ScoreTypes DEF BoundedInv
<1>3. rewound' \in BOOLEAN
  <2>1. CASE \E i \in DOMAIN scores : scores[i].sha = sha /\ scores[i].time > read
    BY <1>1, <2>1
  <2>2. CASE ~ \E i \in DOMAIN scores : scores[i].sha = sha /\ scores[i].time > read
    <3>1. rewound' = rewound
      BY <1>1, <1>2, <2>2
    <3> QED
      BY <1>2, <3>1
  <2> QED
    BY <2>1, <2>2
<1>4. ASSUME ~rewound'
      PROVE  ~rewound /\ \A i \in DOMAIN scores : scores[i].sha = sha => scores[i].time <= read
  <2>1. ~ \E i \in DOMAIN scores : scores[i].sha = sha /\ scores[i].time > read
    BY <1>1, <1>4
  <2>2. ~rewound
    BY <1>1, <1>4
  <2>3. ASSUME NEW i \in DOMAIN scores, scores[i].sha = sha PROVE scores[i].time <= read
    BY <1>2, <2>1, <2>3
  <2> QED
    BY <2>2, <2>3
<1>5. row = [sha |-> sha, time |-> read]
  OBVIOUS
<1> HIDE DEF row
<1>6. /\ Full(kept, row, newest', rewound') /\ newest' \in Nat
      /\ \E n \in Nat : Len(kept) = n + 1 /\ n <= MaxScoresPerBranch
  BY <1>1, <1>2, <1>3, <1>4, <1>5, ScoreMakesFull
<1> HIDE DEF kept
<1>7. PICK n \in Nat : Len(kept) = n + 1 /\ n <= MaxScoresPerBranch
  BY <1>6
<1>8. MaxScoresPerBranch \in Nat \ {0}
  BY RecordsAssumption
<1>9. /\ scores' \in Seq(Scores) /\ OneEach(scores') /\ Len(scores') <= MaxScoresPerBranch /\ scores' # <<>>
      /\ HoldsOrPassed(scores', row) /\ NoneAfter(scores', newest')
      /\ ~rewound' => HasTime(scores', newest')
  <2>1. CASE ~(Len(kept) > MaxScoresPerBranch)
    <3>1. scores' = kept
      BY <1>1, <2>1
    <3>2. Len(kept) <= MaxScoresPerBranch
      BY <1>7, <1>8, <2>1
    <3>3. row \in Scores
      <4>1. kept \in Seq(Scores) /\ kept # <<>> /\ kept[Len(kept)] = row
        BY <1>6 DEF Full
      <4>2. Len(kept) \in DOMAIN kept
        BY <4>1, <1>7, ScoreTypes
      <4> QED
        BY <4>1, <4>2, ScoreTypes
    <3> QED
      BY <1>6, <3>1, <3>2, <3>3 DEF Full, HoldsOrPassed
  <2>2. CASE Len(kept) > MaxScoresPerBranch
    <3>1. scores' = Retained(kept, DOMAIN kept \ {OldestOf(kept)})
      BY <1>1, <2>2
    <3>2. n >= 1 /\ n <= MaxScoresPerBranch
      BY <1>7, <1>8, <2>2
    <3>3. newest' \in Nat /\ rewound' \in BOOLEAN /\ Full(kept, row, newest', rewound')
      BY <1>3, <1>6
    <3>4. /\ scores' \in Seq(Scores) /\ OneEach(scores') /\ Len(scores') = n /\ scores' # <<>>
          /\ HoldsOrPassed(scores', row) /\ NoneAfter(scores', newest')
          /\ ~rewound' => HasTime(scores', newest')
      BY <1>7, <3>1, <3>2, <3>3, CapTakesTheOldest
    <3> QED
      BY <3>2, <3>4
  <2> QED
    BY <2>1, <2>2
<1>10. \A r \in lastScored' : HoldsOrPassed(scores', r)
  BY <1>1, <1>9
<1> QED
  BY <1>1, <1>3, <1>6, <1>9, <1>10 DEF BoundedInv

LEMMA BoundedStepsKeep == BoundedInv /\ [RecordNext]_recordVars => BoundedInv'
<1> SUFFICES ASSUME BoundedInv, [RecordNext]_recordVars PROVE BoundedInv'
  OBVIOUS
<1>1. CASE UNCHANGED <<scoreVars, waitlist, clock>>
  BY <1>1 DEF BoundedInv, scoreVars
<1>2. ASSUME NEW w \in Written, JoinWaitlist(w) PROVE BoundedInv'
  <2> DEFINE email == NormalizeEmail(w)
  <2>1. email \in Written /\ ~email.upper
    BY DEF NormalizeEmail, Written
  <2>2. /\ email \notin waitlist /\ Cardinality(waitlist) < MaxWaitlist /\ waitlist' = waitlist \cup {email}
        /\ UNCHANGED <<scoreVars, clock>>
    BY <1>2 DEF JoinWaitlist
  <2> HIDE DEF email
  <2>3. IsFiniteSet(waitlist') /\ Cardinality(waitlist') <= MaxWaitlist
    <3>1. IsFiniteSet(waitlist') /\ Cardinality(waitlist') = Cardinality(waitlist) + 1
      BY <2>2, FS_AddElement DEF BoundedInv
    <3>2. PICK k \in Nat : k = Cardinality(waitlist)
      BY FS_CardinalityType DEF BoundedInv
    <3>3. MaxWaitlist \in Nat
      BY RecordsAssumption
    <3> QED
      BY <2>2, <3>1, <3>2, <3>3
  <2>4. waitlist' \subseteq {x \in Written : ~x.upper}
    BY <2>1, <2>2 DEF BoundedInv
  <2> QED
    BY <2>2, <2>3, <2>4 DEF BoundedInv, scoreVars
<1>3. ASSUME Tick PROVE BoundedInv'
  BY <1>3 DEF Tick, BoundedInv, scoreVars
<1>4. CASE DeployNext
  BY <1>1, <1>4 DEF DeployNext, CreateDeployment, CreateDeploymentStatus, RenameDeployed, TransferDeployed,
                    StopForge, StartForge
<1>5. CASE UNCHANGED recordVars
  BY <1>1, <1>5 DEF recordVars
<1> QED
  BY <1>2, <1>3, <1>4, <1>5, ScoreRecorded DEF RecordNext, BoundedNext

LEMMA BoundedGives == BoundedInv => BoundedRecordsKeepTheNewest
<1> SUFFICES ASSUME BoundedInv PROVE BoundedRecordsKeepTheNewest
  OBVIOUS
<1>1. scores \in Seq(Scores) /\ OneEach(scores) /\ newest \in Nat /\ NoneAfter(scores, newest)
  BY DEF BoundedInv
<1>2. /\ Len(scores) \in Nat /\ DOMAIN scores = 1 .. Len(scores)
      /\ \A i \in DOMAIN scores : scores[i].time \in Nat /\ i \in Nat
  BY <1>1, ScoreTypes
<1> DEFINE l == LatestScore
<1>3. scores # <<>> =>
        /\ l \in DOMAIN scores
        /\ \A j \in DOMAIN scores : scores[j].time < scores[l].time \/ (scores[j].time = scores[l].time /\ j <= l)
  BY LatestIsOne
<1>4. l = LatestScore
  OBVIOUS
<1> HIDE DEF l
<1>5. ASSUME NEW r \in lastScored
      PROVE  /\ scores # <<>> /\ scores[l].time >= r.time
             /\ scores[l].time = r.time => scores[l] = r
  <2>1. /\ r \in Scores /\ scores # <<>>
        /\ scores[Len(scores)] = r \/ \A i \in DOMAIN scores : scores[i].time > r.time
    BY DEF BoundedInv, HoldsOrPassed
  <2>2. r.time \in Nat /\ l \in DOMAIN scores /\ scores[l].time \in Nat
    BY <1>2, <1>3, <2>1 DEF Scores
  <2>3. CASE scores[Len(scores)] = r
    <3>1. Len(scores) \in DOMAIN scores /\ l <= Len(scores)
      BY <1>2, <2>1, <2>2
    <3>2. r.time < scores[l].time \/ (r.time = scores[l].time /\ Len(scores) <= l)
      BY <1>3, <2>1, <2>3, <3>1
    <3>3. r.time = scores[l].time => l = Len(scores)
      BY <1>2, <2>2, <3>1, <3>2
    <3> QED
      BY <2>1, <2>2, <2>3, <3>2, <3>3
  <2>4. CASE \A i \in DOMAIN scores : scores[i].time > r.time
    BY <2>1, <2>2, <2>4
  <2> QED
    BY <2>1, <2>3, <2>4
<1>6. ASSUME scores # <<>>, ~rewound PROVE scores[l].time = newest
  <2>1. PICK i \in DOMAIN scores : scores[i].time = newest
    BY <1>6 DEF BoundedInv, HasTime
  <2>2. l \in DOMAIN scores /\ newest <= scores[l].time /\ scores[l].time <= newest
    BY <1>1, <1>2, <1>3, <1>6, <2>1 DEF NoneAfter
  <2> QED
    BY <1>1, <1>2, <2>2
<1>7. \A x, y \in waitlist : x.email = y.email => x = y
  <2>1. \A x, y \in Written : x.email = y.email /\ ~x.upper /\ ~y.upper => x = y
    BY DEF Written
  <2> QED
    BY <2>1 DEF BoundedInv
<1>8. /\ \A i, j \in DOMAIN scores : scores[i].sha = scores[j].sha => i = j
      /\ Len(scores) <= MaxScoresPerBranch /\ Cardinality(waitlist) <= MaxWaitlist
  BY DEF BoundedInv, OneEach
<1> QED
  BY <1>4, <1>5, <1>6, <1>7, <1>8 DEF BoundedRecordsKeepTheNewest

LEMMA BoundedStarts == RecordInit => BoundedInv
<1> SUFFICES ASSUME RecordInit PROVE BoundedInv
  OBVIOUS
<1>1. scores = <<>> /\ lastScored = {} /\ newest = 0 /\ rewound = FALSE /\ waitlist = {} /\ clock = 0
  BY DEF RecordInit
<1>2. scores \in Seq(Scores) /\ OneEach(scores) /\ Len(scores) = 0 /\ NoneAfter(scores, newest)
  BY <1>1 DEF OneEach, NoneAfter
<1>3. IsFiniteSet(waitlist) /\ Cardinality(waitlist) = 0
  BY <1>1, FS_EmptySet
<1>4. MaxWaitlist \in Nat /\ MaxScoresPerBranch \in Nat
  BY RecordsAssumption
<1>5. waitlist \subseteq {w \in Written : ~w.upper} /\ \A r \in lastScored : HoldsOrPassed(scores, r)
  BY <1>1
<1>6. newest \in Nat /\ rewound \in BOOLEAN /\ clock \in Nat
  BY <1>1
<1> QED
  BY <1>1, <1>2, <1>3, <1>4, <1>5, <1>6 DEF BoundedInv

(* What is shown as the latest score of a branch is the one recorded last or   *)
(* newer, and the newest ever unless a commit was rewound, whatever is dropped *)
(* at the cap and whoever overtakes whom; and the waitlist has one row per     *)
(* address and none over its cap (record_jankurai_score, join_waitlist).       *)
THEOREM NewestRecordsAreKept == RecordSpec => []BoundedRecordsKeepTheNewest
<1> QED BY BoundedStarts, BoundedStepsKeep, BoundedGives, PTL DEF RecordSpec

-----------------------------------------------------------------------------
(* Deployments.  Ids are given without a gap, so the i-th status has the id i  *)
(* and the file has the history in the order it was told.  The history goes by *)
(* a row's id, environment and transience; its slug is nowhere in it.          *)

DeploymentRows == [id : Nat \ {0}, env : Environments, transient : BOOLEAN, slug : Names]
StatusRows == [id : Nat, deployment : Nat, state : {"success", "failure", "inactive"}]

\* Rows as they were under the first name, whatever the name is now.
Core(rows) == RefreshedSlugs(rows, "old")

OneId(rows) == \A x, y \in rows : x.id = y.id => x = y
Numbered(rows) == \E n \in Nat : IdsOf(rows) = 1 .. n

\* Of a history: what was told of a deployment, its successes, and where it stands.
Told(h, d) == {i \in DOMAIN h : h[i].deployment = d}
Won(h, d) == {i \in Told(h, d) : h[i].state = "success"}
Stands(h, d, state) == \E i \in Told(h, d) : h[i].state = state /\ \A j \in Told(h, d) : j <= i

\* Who is retired lost to a later success in its environment; where every
\* success was careful, who is live is alone and won last.
Beaten(h, rows) ==
    \A x \in rows : Stands(h, x.id, "inactive") =>
        \E y \in rows : y.env = x.env /\ \E j \in Won(h, y.id) : \A i \in Won(h, x.id) : i < j

OneLive(h, rows) ==
    /\ \A x \in rows : x.transient => Won(h, x.id) = {}
    /\ \A x, y \in rows : x.env = y.env /\ Stands(h, x.id, "success") =>
          /\ Stands(h, y.id, "success") => x = y
          /\ \A j \in Won(h, y.id) : \E i \in Won(h, x.id) : j <= i

Trail(h, rows, carefully) ==
    /\ h \in Seq(StatusRows)
    /\ \A i \in DOMAIN h : h[i].id = i /\ h[i].deployment \in IdsOf(rows)
    /\ Beaten(h, rows)
    /\ carefully => OneLive(h, rows)

DeployInv ==
    /\ running \in BOOLEAN /\ slug \in Names /\ careful \in BOOLEAN
    /\ storedDeployments \subseteq DeploymentRows /\ OneId(storedDeployments) /\ Numbered(storedDeployments)
    /\ \E h : /\ Trail(h, Core(storedDeployments), careful) /\ storedStatuses = RowsOf(h)
              /\ running => statuses = h
    /\ running =>
          /\ deployments \subseteq DeploymentRows /\ OneId(deployments)
          /\ Core(deployments) = Core(storedDeployments)
          /\ ~stale => \A d \in deployments : d.slug = slug

\* A new name changes nothing else.
LEMMA SlugsOnly ==
    ASSUME NEW rows \in SUBSET DeploymentRows, NEW name \in Names
    PROVE  /\ RefreshedSlugs(rows, name) \subseteq DeploymentRows
           /\ \A x \in RefreshedSlugs(rows, name) :
                 /\ x.slug = name
                 /\ \E y \in rows : x.id = y.id /\ x.env = y.env /\ x.transient = y.transient
           /\ \A y \in rows : \E x \in RefreshedSlugs(rows, name) :
                 x.id = y.id /\ x.env = y.env /\ x.transient = y.transient
           /\ IdsOf(RefreshedSlugs(rows, name)) = IdsOf(rows)
           /\ Core(RefreshedSlugs(rows, name)) = Core(rows)
           /\ OneId(rows) => OneId(RefreshedSlugs(rows, name))
<1> DEFINE under(d) == [d EXCEPT !.slug = name]
<1>1. \A d \in rows : d \in DeploymentRows
  OBVIOUS
<1>2. \A d \in rows : /\ under(d) \in DeploymentRows
                      /\ under(d).id = d.id /\ under(d).env = d.env /\ under(d).transient = d.transient
                      /\ under(d).slug = name
                      /\ [under(d) EXCEPT !.slug = "old"] = [d EXCEPT !.slug = "old"]
  BY <1>1 DEF DeploymentRows
<1>3. \A x : x \in RefreshedSlugs(rows, name) <=> \E d \in rows : x = under(d)
  BY DEF RefreshedSlugs
<1> HIDE DEF under
<1>4. IdsOf(RefreshedSlugs(rows, name)) = IdsOf(rows)
  <2>1. ASSUME NEW d \in rows PROVE d.id \in IdsOf(RefreshedSlugs(rows, name))
    <3>1. under(d) \in RefreshedSlugs(rows, name) /\ under(d).id = d.id
      BY <1>2, <1>3
    <3> QED
      BY <3>1 DEF IdsOf
  <2>2. ASSUME NEW x \in RefreshedSlugs(rows, name) PROVE x.id \in IdsOf(rows)
    <3>1. PICK d \in rows : x = under(d)
      BY <1>3
    <3> QED
      BY <1>2, <3>1 DEF IdsOf
  <2> QED
    BY <2>1, <2>2 DEF IdsOf
<1>5. Core(RefreshedSlugs(rows, name)) = Core(rows)
  <2> DEFINE old(d) == [d EXCEPT !.slug = "old"]
  <2>1. \A x : x \in Core(RefreshedSlugs(rows, name)) <=> \E y \in RefreshedSlugs(rows, name) : x = old(y)
    BY DEF Core, RefreshedSlugs
  <2>2. \A x : x \in Core(rows) <=> \E d \in rows : x = old(d)
    BY DEF Core, RefreshedSlugs
  <2>3. \A d \in rows : old(under(d)) = old(d)
    BY <1>2
  <2> HIDE DEF old
  <2> QED
    BY <1>3, <2>1, <2>2, <2>3
<1>6. ASSUME OneId(rows) PROVE OneId(RefreshedSlugs(rows, name))
  <2> SUFFICES ASSUME NEW x \in RefreshedSlugs(rows, name), NEW y \in RefreshedSlugs(rows, name), x.id = y.id
               PROVE  x = y
    BY DEF OneId
  <2>1. PICK d \in rows, e \in rows : x = under(d) /\ y = under(e)
    BY <1>3
  <2>2. x.id = d.id /\ y.id = e.id
    BY <1>2, <2>1
  <2>3. d = e
    BY <1>6, <2>2 DEF OneId
  <2> QED
    BY <2>1, <2>3
<1>7. ASSUME NEW x \in RefreshedSlugs(rows, name)
      PROVE  /\ x \in DeploymentRows /\ x.slug = name
             /\ \E y \in rows : x.id = y.id /\ x.env = y.env /\ x.transient = y.transient
  <2>1. PICK y \in rows : x = under(y)
    BY <1>3
  <2> QED
    BY <1>2, <2>1
<1>8. ASSUME NEW y \in rows
      PROVE  \E x \in RefreshedSlugs(rows, name) : x.id = y.id /\ x.env = y.env /\ x.transient = y.transient
  BY <1>2, <1>3
<1> QED
  BY <1>4, <1>5, <1>6, <1>7, <1>8

\* A history in the file is read back as it was told.
LEMMA ReadBack ==
    ASSUME NEW h \in Seq(StatusRows), \A i \in DOMAIN h : h[i].id = i
    PROVE  ById(RowsOf(h)) = h
<1> DEFINE I == IdsOf(RowsOf(h))
<1>1. PICK n \in Nat : n = Len(h) /\ DOMAIN h = 1 .. n
  OBVIOUS
<1>2. I = 1 .. n
  BY <1>1 DEF IdsOf, RowsOf
<1>3. IsFiniteSet(I) /\ Cardinality(I) = n /\ I \in SUBSET (1 .. n)
  BY <1>2, FS_Interval
<1>4. DOMAIN InOrder(I) = 1 .. n /\ \A k \in 1 .. n : InOrder(I)[k] \in I /\ Rank(I, InOrder(I)[k]) = k
  BY <1>3, InOrderPlaces
<1>5. \A i \in 1 .. n : Rank(I, i) = i
  <2> TAKE i \in 1 .. n
  <2>1. {j \in I : j <= i} = 1 .. i
    BY <1>2
  <2>2. Cardinality(1 .. i) = i
    BY FS_Interval
  <2> QED
    BY <2>1, <2>2 DEF Rank
<1>6. \A k \in 1 .. n : InOrder(I)[k] = k
  BY <1>2, <1>4, <1>5
<1>7. \A k \in 1 .. n : (CHOOSE r \in RowsOf(h) : r.id = k) = h[k]
  BY <1>1 DEF RowsOf
<1>8. ById(RowsOf(h)) = [k \in 1 .. n |-> h[k]]
  BY <1>4, <1>6, <1>7 DEF ById
<1> QED
  BY <1>1, <1>8

LEMMA NextIds ==
    ASSUME NEW n \in Nat
    PROVE  Max({0} \cup 1 .. n) = n
<1>1. n \in {0} \cup 1 .. n /\ \A i \in {0} \cup 1 .. n : n >= i /\ i \in Int
  OBVIOUS
<1> QED
  BY <1>1 DEF Max

\* A history told further: of a deployment nothing, or one thing, is new.
LEMMA NothingTold ==
    ASSUME NEW h, NEW more, NEW d, Told(more, d) = Told(h, d),
           \A i \in Told(h, d) : more[i].state = h[i].state
    PROVE  Won(more, d) = Won(h, d) /\ \A state : Stands(more, d, state) <=> Stands(h, d, state)
BY DEF Won, Stands

LEMMA NewlyStands ==
    ASSUME NEW more, NEW d, NEW p, p \in Told(more, d), \A i \in Told(more, d) : i \in Nat /\ (i # p => i < p)
    PROVE  \A state : Stands(more, d, state) <=> more[p].state = state
<1>1. \A i \in Told(more, d) : i <= p /\ (p <= i => i = p)
  OBVIOUS
<1> QED
  BY <1>1 DEF Stands

\* Where the entries of two lists are.
LEMMA Concatenated ==
    ASSUME NEW S, NEW a \in Seq(S), NEW b \in Seq(S)
    PROVE  /\ a \o b \in Seq(S) /\ Len(a) \in Nat /\ Len(b) \in Nat /\ Len(a \o b) = Len(a) + Len(b)
           /\ DOMAIN (a \o b) = 1 .. (Len(a) + Len(b))
           /\ \A i \in 1 .. Len(a) : (a \o b)[i] = a[i]
           /\ \A k \in 1 .. Len(b) : (a \o b)[Len(a) + k] = b[k]
  OBVIOUS

\* A status, and the retirements it brings, at the end of a history.
GoesOn(rows, h, x0, state, auto, replaced, n, m, r, more) ==
    /\ x0 \in rows /\ OneId(rows) /\ replaced \in SUBSET IdsOf(rows)
    /\ \A d \in replaced : \E z \in rows :
          z.id = d /\ z.id # x0.id /\ z.env = x0.env /\ ~z.transient /\ state = "success"
    /\ state = "success" /\ auto =>
          \A z \in rows : /\ z.id # x0.id /\ z.env = x0.env /\ ~z.transient /\ Stands(h, z.id, "success")
                         => z.id \in replaced
    /\ n \in Nat /\ DOMAIN h = 1 .. n /\ m \in Nat /\ r \in [1 .. m -> replaced]
    /\ \A k, l \in 1 .. m : r[k] = r[l] => k = l
    /\ \A d \in replaced : \E k \in 1 .. m : r[k] = d
    /\ more \in Seq(StatusRows) /\ DOMAIN more = 1 .. (n + 1 + m)
    /\ \A i \in 1 .. n : more[i] = h[i]
    /\ more[n + 1] = [id |-> n + 1, deployment |-> x0.id, state |-> state]
    /\ \A k \in 1 .. m : more[n + 1 + k] = [id |-> n + 1 + k, deployment |-> r[k], state |-> "inactive"]

LEMMA TrailGoesOn ==
    ASSUME NEW rows \in SUBSET DeploymentRows, NEW h, NEW carefully \in BOOLEAN, Trail(h, rows, carefully),
           NEW x0, NEW state \in {"success", "failure"}, NEW auto \in BOOLEAN,
           NEW replaced, NEW n, NEW m, NEW r, NEW more,
           GoesOn(rows, h, x0, state, auto, replaced, n, m, r, more)
    PROVE  Trail(more, rows, carefully /\ (state = "success" => auto /\ ~x0.transient))
<1> SUFFICES ASSUME
           x0 \in rows, OneId(rows), replaced \in SUBSET IdsOf(rows),
           \A d \in replaced : \E z \in rows :
              z.id = d /\ z.id # x0.id /\ z.env = x0.env /\ ~z.transient /\ state = "success",
           state = "success" /\ auto =>
              \A z \in rows : /\ z.id # x0.id /\ z.env = x0.env /\ ~z.transient /\ Stands(h, z.id, "success")
                             => z.id \in replaced,
           n \in Nat, DOMAIN h = 1 .. n, m \in Nat, r \in [1 .. m -> replaced],
           \A k, l \in 1 .. m : r[k] = r[l] => k = l,
           \A d \in replaced : \E k \in 1 .. m : r[k] = d,
           more \in Seq(StatusRows), DOMAIN more = 1 .. (n + 1 + m),
           \A i \in 1 .. n : more[i] = h[i],
           more[n + 1] = [id |-> n + 1, deployment |-> x0.id, state |-> state],
           \A k \in 1 .. m : more[n + 1 + k] = [id |-> n + 1 + k, deployment |-> r[k], state |-> "inactive"]
    PROVE  Trail(more, rows, carefully /\ (state = "success" => auto /\ ~x0.transient))
  BY DEF GoesOn
<1>1. /\ h \in Seq(StatusRows) /\ n \in Nat /\ DOMAIN h = 1 .. n
      /\ \A i \in DOMAIN h : h[i].id = i /\ h[i].deployment \in IdsOf(rows)
  BY DEF Trail
<1>2. /\ replaced \in SUBSET IdsOf(rows) /\ x0.id \notin replaced
      /\ x0.id \in IdsOf(rows)
  BY DEF IdsOf
<1>4. /\ m \in Nat /\ r \in [1 .. m -> replaced]
      /\ \A k, l \in 1 .. m : r[k] = r[l] => k = l
      /\ \A d \in replaced : \E k \in 1 .. m : r[k] = d
  OBVIOUS
<1>8. /\ more \in Seq(StatusRows) /\ DOMAIN more = 1 .. (n + 1 + m)
      /\ \A i \in 1 .. n : more[i] = h[i]
  OBVIOUS
<1>7. /\ more[n + 1].id = n + 1 /\ more[n + 1].deployment = x0.id /\ more[n + 1].state = state
      /\ \A k \in 1 .. m : /\ more[n + 1 + k].id = n + 1 + k /\ more[n + 1 + k].deployment = r[k]
                           /\ more[n + 1 + k].state = "inactive"
  <2>1. more[n + 1].id = n + 1 /\ more[n + 1].deployment = x0.id /\ more[n + 1].state = state
    OBVIOUS
  <2>2. ASSUME NEW k \in 1 .. m
        PROVE  /\ more[n + 1 + k].id = n + 1 + k /\ more[n + 1 + k].deployment = r[k]
               /\ more[n + 1 + k].state = "inactive"
    <3>1. more[n + 1 + k] = [id |-> n + 1 + k, deployment |-> r[k], state |-> "inactive"]
      OBVIOUS
    <3> QED
      BY ONLY <3>1
  <2> QED
    BY <2>1, <2>2
<1>9. \A i \in DOMAIN more : i \in 1 .. n \/ i = n + 1 \/ \E k \in 1 .. m : i = n + 1 + k
  <2> TAKE i \in DOMAIN more
  <2>1. CASE i <= n + 1
    BY <1>1, <1>8, <2>1
  <2>2. CASE i > n + 1
    <3>1. i - (n + 1) \in 1 .. m /\ i = n + 1 + (i - (n + 1))
      BY <1>1, <1>4, <1>8, <2>2
    <3> QED
      BY <3>1
  <2>3. i \in Int /\ n + 1 \in Int
    BY <1>1, <1>8
  <2> QED
    BY <2>1, <2>2, <2>3
<1>10. \A d : \A i \in Told(h, d) : i \in 1 .. n /\ i \in Nat /\ i < n + 1
  BY <1>1 DEF Told
<1>11. /\ Told(more, x0.id) = Told(h, x0.id) \cup {n + 1}
       /\ Won(more, x0.id) = Won(h, x0.id) \cup (IF state = "success" THEN {n + 1} ELSE {})
       /\ \A s : Stands(more, x0.id, s) <=> s = state
  <2>1. \A i \in DOMAIN more : more[i].deployment = x0.id <=> i \in Told(h, x0.id) \/ i = n + 1
    <3> TAKE i \in DOMAIN more
    <3>1. CASE i \in 1 .. n
      BY <1>1, <1>8, <3>1 DEF Told
    <3>2. CASE i = n + 1
      BY <1>7, <1>8, <3>2
    <3>3. ASSUME NEW k \in 1 .. m, i = n + 1 + k PROVE more[i].deployment # x0.id /\ i \notin 1 .. n /\ i # n + 1
      <4>1. more[i].deployment = r[k] /\ r[k] \in replaced
        BY <1>4, <1>7, <1>8, <3>3
      <4>2. i \notin 1 .. n /\ i # n + 1
        BY <1>1, <1>4, <3>3
      <4> QED
        BY <1>2, <4>1, <4>2
    <3> QED
      BY <1>1, <1>9, <1>10, <3>1, <3>2, <3>3
  <2>2. n + 1 \in DOMAIN more /\ 1 .. n \subseteq DOMAIN more
    BY <1>1, <1>4, <1>8
  <2>3. Told(more, x0.id) = Told(h, x0.id) \cup {n + 1}
    BY <1>10, <2>1, <2>2 DEF Told
  <2>4. \A i \in Told(h, x0.id) : more[i].state = h[i].state /\ i \in Nat /\ i < n + 1
    BY <1>8, <1>10
  <2>5. ASSUME NEW d, d = x0.id, NEW p, p = n + 1
        PROVE  /\ \A i : i \in Won(more, d) <=> i \in Won(h, d) \/ (i = p /\ more[p].state = "success")
               /\ \A s : Stands(more, d, s) <=> more[p].state = s
    <3>1. Told(more, d) = Told(h, d) \cup {p}
      BY <2>3, <2>5
    <3>2. p \in Nat /\ \A i \in Told(h, d) : more[i].state = h[i].state /\ i \in Nat /\ i < p
      BY <1>1, <2>4, <2>5
    <3>3. p \in Told(more, d) /\ \A i \in Told(more, d) : i \in Nat /\ (i # p => i < p)
      BY <3>1, <3>2
    <3>4. \A i \in Told(h, d) : more[i].state = h[i].state /\ i # p
      BY <3>2
    <3>5. \A i : i \in Won(more, d) <=> i \in Won(h, d) \/ (i = p /\ more[p].state = "success")
      BY <3>1, <3>4 DEF Won
    <3>6. \A s : Stands(more, d, s) <=> more[p].state = s
      BY <3>3, NewlyStands
    <3> QED
      BY <3>5, <3>6
  <2>6. /\ \A i : i \in Won(more, x0.id) <=> i \in Won(h, x0.id) \/ (i = n + 1 /\ state = "success")
        /\ \A s : Stands(more, x0.id, s) <=> s = state
    <3>1. PICK p \in Nat : p = n + 1
      BY <1>1
    <3>2. more[p].state = state
      BY <1>7, <3>1
    <3>3. /\ \A i : i \in Won(more, x0.id) <=> i \in Won(h, x0.id) \/ (i = p /\ more[p].state = "success")
          /\ \A s : Stands(more, x0.id, s) <=> more[p].state = s
      BY <2>5, <3>1
    <3> QED
      BY <3>1, <3>2, <3>3
  <2>7. Won(more, x0.id) = Won(h, x0.id) \cup (IF state = "success" THEN {n + 1} ELSE {})
    BY <2>6
  <2> QED
    BY <2>3, <2>6, <2>7
<1>12. ASSUME NEW d \in replaced
       PROVE  Won(more, d) = Won(h, d) /\ \A s : Stands(more, d, s) <=> s = "inactive"
  <2>1. PICK k \in 1 .. m : r[k] = d
    BY <1>4
  <2> DEFINE p == n + 1 + k
  <2>2. p \in Nat /\ n < p /\ n + 1 < p /\ p \in DOMAIN more
    BY <1>1, <1>4, <1>8
  <2>3. more[p].deployment = d /\ more[p].state = "inactive"
    BY <1>7, <1>8, <2>1
  <2>4. ASSUME NEW l \in 1 .. m, more[n + 1 + l].deployment = d PROVE n + 1 + l = p
    <3>1. r[l] = r[k]
      BY <1>7, <2>1, <2>4
    <3> QED
      BY <1>4, <3>1
  <2> HIDE DEF p
  <2>5. \A i \in DOMAIN more : more[i].deployment = d <=> i \in Told(h, d) \/ i = p
    <3> TAKE i \in DOMAIN more
    <3>1. CASE i \in 1 .. n
      BY <1>1, <1>8, <2>2, <3>1 DEF Told
    <3>2. CASE i = n + 1
      <4>1. more[i].deployment # d /\ i # p
        BY <1>1, <1>2, <1>7, <1>8, <2>2, <3>2
      <4>2. i \notin Told(h, d)
        BY <1>1, <1>10, <3>2
      <4> QED
        BY <4>1, <4>2
    <3>3. CASE \E l \in 1 .. m : i = n + 1 + l
      <4>1. i \notin Told(h, d)
        BY <1>1, <1>10, <3>3
      <4> QED
        BY <2>3, <2>4, <3>3, <4>1
    <3> QED
      BY <1>9, <3>1, <3>2, <3>3
  <2>6. 1 .. n \subseteq DOMAIN more
    BY <1>1, <1>4, <1>8
  <2>7. Told(more, d) = Told(h, d) \cup {p}
    BY <1>10, <2>2, <2>5, <2>6 DEF Told
  <2>8. \A i \in Told(h, d) : more[i].state = h[i].state /\ i \in Nat /\ i < p
    <3> TAKE i \in Told(h, d)
    <3>1. i \in 1 .. n
      BY <1>10
    <3> QED
      BY <1>1, <1>8, <2>2, <3>1
  <2>9. /\ \A i : i \in Won(more, d) <=> i \in Won(h, d) \/ (i = p /\ more[p].state = "success")
        /\ \A s : Stands(more, d, s) <=> more[p].state = s
    <3>1. p \in Told(more, d) /\ \A i \in Told(more, d) : i \in Nat /\ (i # p => i < p)
      BY <2>2, <2>7, <2>8
    <3>2. \A i \in Told(h, d) : more[i].state = h[i].state /\ i # p
      BY <2>2, <2>8
    <3>3. \A i : i \in Won(more, d) <=> i \in Won(h, d) \/ (i = p /\ more[p].state = "success")
      BY <2>7, <3>2 DEF Won
    <3>4. \A s : Stands(more, d, s) <=> more[p].state = s
      BY <3>1, NewlyStands
    <3> QED
      BY <3>3, <3>4
  <2> QED
    BY <2>3, <2>9
<1>13. ASSUME NEW d, d # x0.id, d \notin replaced
       PROVE  Won(more, d) = Won(h, d) /\ \A s : Stands(more, d, s) <=> Stands(h, d, s)
  <2>1. \A i \in DOMAIN more : more[i].deployment = d <=> i \in Told(h, d)
    <3> TAKE i \in DOMAIN more
    <3>1. CASE i \in 1 .. n
      BY <1>1, <1>8, <3>1 DEF Told
    <3>2. CASE i = n + 1
      BY <1>1, <1>7, <1>8, <1>10, <1>13, <3>2
    <3>3. ASSUME NEW k \in 1 .. m, i = n + 1 + k PROVE more[i].deployment # d /\ i \notin Told(h, d)
      <4>1. more[i].deployment = r[k] /\ r[k] \in replaced
        BY <1>4, <1>7, <1>8, <3>3
      <4>2. i \notin 1 .. n
        BY <1>1, <1>4, <3>3
      <4> QED
        BY <1>10, <1>13, <4>1, <4>2
    <3> QED
      BY <1>9, <3>1, <3>2, <3>3
  <2>2. 1 .. n \subseteq DOMAIN more
    BY <1>1, <1>4, <1>8
  <2>3. Told(more, d) = Told(h, d)
    BY <1>10, <2>1, <2>2 DEF Told
  <2>4. \A i \in Told(h, d) : more[i].state = h[i].state
    BY <1>8, <1>10
  <2> QED
    BY <2>3, <2>4, NothingTold
<1>14. \A i \in DOMAIN more : more[i].id = i /\ more[i].deployment \in IdsOf(rows)
  <2> TAKE i \in DOMAIN more
  <2>1. CASE i \in 1 .. n
    BY <1>1, <1>8, <2>1
  <2>2. CASE i = n + 1
    BY <1>2, <1>7, <1>8, <2>2
  <2>3. ASSUME NEW k \in 1 .. m, i = n + 1 + k PROVE more[i].id = i /\ more[i].deployment \in IdsOf(rows)
    BY <1>2, <1>4, <1>7, <1>8, <2>3
  <2> QED
    BY <1>9, <2>1, <2>2, <2>3
<1>15. \A d : Won(h, d) \subseteq Won(more, d) /\ \A i \in Won(h, d) : i < n + 1 /\ i \in Nat
  <2>1. \A d : Won(h, d) \subseteq Told(h, d)
    BY DEF Won
  <2> QED
    BY <1>10, <1>11, <1>12, <1>13, <2>1
<1>16. \A d \in replaced : \E z \in rows : z.id = d /\ z.env = x0.env /\ ~z.transient /\ state = "success" /\ d # x0.id
  OBVIOUS
<1>17. Beaten(more, rows)
  <2> SUFFICES ASSUME NEW x \in rows, Stands(more, x.id, "inactive")
               PROVE  \E y \in rows : y.env = x.env /\ \E j \in Won(more, y.id) : \A i \in Won(more, x.id) : i < j
    BY DEF Beaten
  <2>1. x.id # x0.id
    BY <1>11
  <2>2. CASE x.id \in replaced
    <3>1. x.env = x0.env /\ state = "success"
      BY <1>16, <2>2 DEF OneId
    <3>2. n + 1 \in Won(more, x0.id) /\ Won(more, x.id) = Won(h, x.id)
      BY <1>11, <1>12, <2>2, <3>1
    <3>3. \A i \in Won(more, x.id) : i < n + 1
      BY <1>15, <3>2
    <3> QED
      BY <3>1, <3>2, <3>3
  <2>3. CASE x.id \notin replaced
    <3>1. Won(more, x.id) = Won(h, x.id) /\ Stands(h, x.id, "inactive")
      BY <1>13, <2>1, <2>3
    <3>2. PICK y \in rows : y.env = x.env /\ \E j \in Won(h, y.id) : \A i \in Won(h, x.id) : i < j
      BY <3>1 DEF Trail, Beaten
    <3>3. Won(h, y.id) \subseteq Won(more, y.id)
      BY <1>15
    <3> QED
      BY <3>1, <3>2, <3>3
  <2> QED
    BY <2>2, <2>3
<1>18. ASSUME carefully, state = "success" => auto /\ ~x0.transient
       PROVE  OneLive(more, rows)
  <2>1. OneLive(h, rows)
    BY <1>18 DEF Trail
  <2>2. ASSUME NEW x \in rows, x.transient PROVE Won(more, x.id) = {}
    <3>1. Won(h, x.id) = {}
      BY <2>1, <2>2 DEF OneLive
    <3>2. x.id \notin replaced
      <4> SUFFICES ASSUME x.id \in replaced PROVE FALSE
        OBVIOUS
      <4>1. PICK z \in rows : z.id = x.id /\ ~z.transient
        BY <1>16
      <4>2. z = x
        BY <4>1 DEF OneId
      <4> QED
        BY <2>2, <4>1, <4>2, Zenon
    <3>3. CASE x.id = x0.id
      BY <1>11, <1>18, <2>2, <3>1, <3>3 DEF OneId
    <3>4. CASE x.id # x0.id
      BY <1>13, <3>1, <3>2, <3>4
    <3> QED
      BY <3>3, <3>4
  <2>3. ASSUME NEW x \in rows, NEW y \in rows, x.env = y.env, Stands(more, x.id, "success")
        PROVE  /\ Stands(more, y.id, "success") => x = y
               /\ \A j \in Won(more, y.id) : \E i \in Won(more, x.id) : j <= i
    <3>1. x.id \notin replaced /\ (Stands(more, y.id, "success") => y.id \notin replaced)
      BY <1>12, <2>3
    <3>2. CASE state = "success"
      <4>1. ASSUME NEW z \in rows, z.env = x0.env, Stands(more, z.id, "success") PROVE z = x0
        <5> SUFFICES ASSUME z.id # x0.id PROVE FALSE
          BY DEF OneId
        <5>1. z.id \notin replaced
          BY <1>12, <4>1
        <5>2. Stands(h, z.id, "success")
          BY <1>13, <4>1, <5>1
        <5>3. Won(h, z.id) # {}
          BY <5>2 DEF Stands, Won
        <5>4. ~z.transient
          BY <2>1, <5>3 DEF OneLive
        <5> QED
          BY <1>18, <3>2, <4>1, <5>1, <5>2, <5>4
      <4>2. CASE x.env = x0.env
        <5>1. x = x0 /\ (Stands(more, y.id, "success") => y = x0)
          BY <2>3, <4>1, <4>2
        <5>2. n + 1 \in Won(more, x.id)
          BY <1>11, <3>2, <5>1
        <5>3. \A j \in Won(more, y.id) : j <= n + 1
          <6> TAKE j \in Won(more, y.id)
          <6>1. j \in Won(h, y.id) \/ j = n + 1
            BY <1>11, <1>12, <1>13
          <6> QED
            BY <1>1, <1>15, <6>1
        <5> QED
          BY <5>1, <5>2, <5>3
      <4>3. CASE x.env # x0.env
        <5>1. x.id # x0.id /\ y.id # x0.id
          BY <2>3, <4>3 DEF OneId
        <5>2. y.id \notin replaced
          BY <1>16, <2>3, <4>3 DEF OneId
        <5>3. /\ Won(more, x.id) = Won(h, x.id) /\ Won(more, y.id) = Won(h, y.id)
              /\ Stands(h, x.id, "success") /\ (Stands(more, y.id, "success") => Stands(h, y.id, "success"))
          BY <1>13, <2>3, <3>1, <5>1, <5>2
        <5> QED
          BY <2>1, <2>3, <5>3 DEF OneLive
      <4> QED
        BY <4>2, <4>3
    <3>3. CASE state # "success"
      <4>1. replaced = {} /\ \A d : Won(more, d) = Won(h, d)
        BY <1>11, <1>13, <3>3
      <4>2. \A d : Stands(more, d, "success") => Stands(h, d, "success")
        BY <1>11, <1>13, <3>3, <4>1
      <4> QED
        BY <2>1, <2>3, <4>1, <4>2 DEF OneLive
    <3> QED
      BY <3>2, <3>3
  <2> QED
    BY <2>2, <2>3 DEF OneLive
<1> QED
  BY <1>8, <1>14, <1>17, <1>18 DEF Trail

\* What the calls read of a history is what was told.
LEMMA ReadsHistory ==
    ASSUME statuses \in Seq(StatusRows), \A i \in DOMAIN statuses : statuses[i].id = i, NEW d
    PROVE  /\ \A state \in {"success", "inactive"} : LatestState(d) = state <=> Stands(statuses, d, state)
           /\ LastSuccess(d) \in Nat /\ (LastSuccess(d) > 0 => LastSuccess(d) \in Won(statuses, d))
           /\ \A i \in Won(statuses, d) : i \in Nat /\ 0 < i /\ i <= LastSuccess(d)
           /\ Stands(statuses, d, "success") => LatestId(d) \in Nat
<1>1. PICK n \in Nat : DOMAIN statuses = 1 .. n
  OBVIOUS
<1>2. StatusesOf(d) = Told(statuses, d) /\ StatusesOf(d) \in SUBSET (1 .. n)
  BY <1>1 DEF StatusesOf, Told
<1>3. StatusesOf(d) # {} => Max(StatusesOf(d)) \in StatusesOf(d) /\ \A i \in StatusesOf(d) : i <= Max(StatusesOf(d))
  BY <1>2, LastOfPlaces
<1>4. ASSUME NEW state \in {"success", "inactive"}
      PROVE  LatestState(d) = state <=> Stands(statuses, d, state)
  <2>1. CASE StatusesOf(d) = {}
    BY <1>2, <2>1 DEF LatestState, Stands
  <2>2. CASE StatusesOf(d) # {}
    <3> DEFINE last == Max(StatusesOf(d))
    <3>1. last \in Told(statuses, d) /\ \A i \in Told(statuses, d) : i <= last /\ i \in Int
      BY <1>2, <1>3, <2>2
    <3>2. LatestState(d) = statuses[last].state
      BY <2>2 DEF LatestState
    <3> HIDE DEF last
    <3>3. \A i \in Told(statuses, d) : last <= i => i = last
      BY <3>1
    <3> QED
      BY <3>1, <3>2, <3>3 DEF Stands
  <2> QED
    BY <2>1, <2>2
<1>5. Won(statuses, d) \in SUBSET (1 .. n)
  BY <1>1 DEF Won, Told
<1>6. LastSuccess(d) = IF Won(statuses, d) = {} THEN 0 ELSE Max(Won(statuses, d))
  <2>1. {i \in StatusesOf(d) : statuses[i].state = "success"} = Won(statuses, d)
    BY <1>2 DEF Won
  <2>2. Won(statuses, d) # {} => Max(Won(statuses, d)) \in DOMAIN statuses
    BY <1>1, <1>5, LastOfPlaces
  <2> QED
    BY <2>1, <2>2 DEF LastSuccess
<1>7. Won(statuses, d) # {} =>
        Max(Won(statuses, d)) \in Won(statuses, d) /\ \A i \in Won(statuses, d) : i <= Max(Won(statuses, d))
  BY <1>5, LastOfPlaces
<1>8. Stands(statuses, d, "success") => LatestId(d) \in Nat
  <2>1. Stands(statuses, d, "success") => StatusesOf(d) # {}
    BY <1>2 DEF Stands
  <2>2. StatusesOf(d) # {} => Max(StatusesOf(d)) \in DOMAIN statuses
    BY <1>1, <1>2, <1>3
  <2> QED
    BY <1>1, <2>1, <2>2 DEF LatestId
<1>9. \A i \in Won(statuses, d) : i \in Nat /\ 0 < i
  BY <1>5
<1> QED
  BY <1>4, <1>6, <1>7, <1>8, <1>9

\* What a deployment in memory is in the history.
LEMMA InHistory ==
    ASSUME NEW rows \in SUBSET DeploymentRows
    PROVE  /\ Core(rows) \in SUBSET DeploymentRows /\ IdsOf(Core(rows)) = IdsOf(rows)
           /\ OneId(rows) => OneId(Core(rows))
           /\ \A x \in Core(rows) : \E y \in rows : x.id = y.id /\ x.env = y.env /\ x.transient = y.transient
           /\ \A y \in rows : \E x \in Core(rows) : x.id = y.id /\ x.env = y.env /\ x.transient = y.transient
<1>1. "old" \in Names
  BY DEF Names
<1> QED
  BY <1>1, SlugsOnly DEF Core

LEMMA DeployGives == DeployInv => DeployTrailIsTrue
<1> SUFFICES ASSUME DeployInv, running PROVE DeployTrailIsTrue
  BY DEF DeployTrailIsTrue
<1> DEFINE rows == Core(deployments)
           ls(d) == LastSuccess(d)
<1>1. /\ Trail(statuses, rows, careful) /\ RowsOf(statuses) = storedStatuses
      /\ Core(deployments) = Core(storedDeployments)
      /\ OneId(deployments) /\ deployments \in SUBSET DeploymentRows
      /\ ~stale => \A d \in deployments : d.slug = slug
  BY DEF DeployInv
<1>2. /\ rows \in SUBSET DeploymentRows
      /\ \A x \in rows : \E y \in deployments : x.id = y.id /\ x.env = y.env
      /\ \A y \in deployments : \E x \in rows : x.id = y.id /\ x.env = y.env
  BY <1>1, InHistory
<1> HIDE DEF rows
<1>3. \A env, d : d \in In(env) <=> \E x \in rows : x.id = d /\ x.env = env
  BY <1>2 DEF In, IdsOf
<1>4. statuses \in Seq(StatusRows) /\ \A i \in DOMAIN statuses : statuses[i].id = i
  BY <1>1 DEF Trail
<1>5. \A d : /\ LatestState(d) = "success" <=> Stands(statuses, d, "success")
             /\ LatestState(d) = "inactive" <=> Stands(statuses, d, "inactive")
             /\ ls(d) \in Nat /\ (ls(d) > 0 => ls(d) \in Won(statuses, d))
             /\ \A i \in Won(statuses, d) : i \in Nat /\ 0 < i /\ i <= ls(d)
             /\ Stands(statuses, d, "success") => LatestId(d) \in Nat
  BY <1>4, ReadsHistory
<1> HIDE DEF ls
<1>6. \A i, j \in DOMAIN statuses : i < j => statuses[i].id < statuses[j].id
  BY <1>4
<1>7. ASSUME NEW env, careful
      PROVE  /\ \A d, e \in Live(env) : d = e
             /\ Current(env) # NoDeployment => \A d \in In(env) : ls(d) <= ls(Current(env))
  <2>1. OneLive(statuses, rows)
    BY <1>1, <1>7 DEF Trail
  <2>2. ASSUME NEW d \in Live(env)
        PROVE  d \in In(env) /\ Stands(statuses, d, "success")
    BY <1>5 DEF Live
  <2>3. ASSUME NEW d \in Live(env), NEW e \in Live(env) PROVE d = e
    <3>1. PICK x \in rows : x.id = d /\ x.env = env
      BY <1>3, <2>2
    <3>2. PICK y \in rows : y.id = e /\ y.env = env
      BY <1>3, <2>2
    <3>3. x = y
      BY <2>1, <2>2, <3>1, <3>2 DEF OneLive
    <3> QED
      BY <3>1, <3>2, <3>3
  <2>4. ASSUME Current(env) # NoDeployment, NEW d \in In(env) PROVE ls(d) <= ls(Current(env))
    <3> DEFINE c == Current(env)
    <3>1. c \in Live(env)
      <4>1. PICK e \in Live(env) : TRUE
        BY <2>4 DEF Current
      <4>2. \A l \in Live(env) : LatestId(l) <= LatestId(e)
        <5> TAKE l \in Live(env)
        <5>1. l = e /\ LatestId(e) \in Nat
          BY <1>5, <2>2, <2>3
        <5> QED
          BY <5>1
      <4> QED
        BY <2>4, <4>2 DEF Current
    <3> HIDE DEF c
    <3>2. PICK x \in rows : x.id = c /\ x.env = env
      BY <1>3, <2>2, <3>1
    <3>3. PICK y \in rows : y.id = d /\ y.env = env
      BY <1>3, <2>4
    <3>4. \A j \in Won(statuses, d) : \E i \in Won(statuses, c) : j <= i
      BY <2>1, <2>2, <3>1, <3>2, <3>3 DEF OneLive
    <3>5. ls(d) <= ls(c)
      <4>1. CASE ls(d) > 0
        <5>1. ls(d) \in Won(statuses, d)
          BY <1>5, <4>1
        <5>2. PICK i \in Won(statuses, c) : ls(d) <= i
          BY <3>4, <5>1
        <5>3. i \in Nat /\ i <= ls(c) /\ ls(c) \in Nat /\ ls(d) \in Nat
          BY <1>5
        <5> QED
          BY <5>2, <5>3
      <4>2. CASE ~(ls(d) > 0)
        <5>1. ls(d) \in Nat /\ ls(c) \in Nat
          BY <1>5
        <5> QED
          BY <4>2, <5>1
      <4> QED
        BY <4>1, <4>2
    <3> QED
      BY <3>5 DEF c
  <2> QED
    BY <2>3, <2>4
<1>8. ASSUME NEW env, NEW d \in In(env), LatestState(d) = "inactive"
      PROVE  \E e \in In(env) : ls(e) > ls(d)
  <2>1. PICK x \in rows : x.id = d /\ x.env = env
    BY <1>3, <1>8
  <2>2. PICK y \in rows : y.env = env /\ \E j \in Won(statuses, y.id) : \A i \in Won(statuses, d) : i < j
    BY <1>1, <1>5, <1>8, <2>1 DEF Trail, Beaten
  <2>3. PICK e : e = y.id
    OBVIOUS
  <2>4. e \in In(env)
    BY <1>3, <2>2, <2>3
  <2>5. PICK j \in Won(statuses, e) : \A i \in Won(statuses, d) : i < j
    BY <2>2, <2>3
  <2>6. j \in Nat /\ 0 < j /\ j <= ls(e) /\ ls(e) \in Nat /\ ls(d) \in Nat /\ (ls(d) > 0 => ls(d) < j)
    BY <1>5, <2>5
  <2>7. ls(e) > ls(d)
    BY <2>6
  <2> QED
    BY <2>4, <2>7
<1>9. ASSUME NEW env, Previous(env) # NoDeployment,
             NEW d \in In(env), d # Current(env), d # Previous(env)
      PROVE  ls(d) < ls(Previous(env))
  <2> DEFINE before == {e \in In(env) \ {Current(env)} : ls(e) > 0}
             p == Previous(env)
             wins == {ls(e) : e \in before}
  <2>1. before # {} /\ p = CHOOSE e \in before : \A l \in before : ls(l) <= ls(e)
    BY <1>9 DEF Previous, ls
  <2>2. PICK n \in Nat : DOMAIN statuses = 1 .. n
    BY <1>4
  <2>3. wins \in SUBSET (1 .. n) /\ wins # {}
    <3>1. \A e \in before : ls(e) \in 1 .. n
      <4> TAKE e \in before
      <4>1. ls(e) \in Won(statuses, e)
        BY <1>5
      <4> QED
        BY <2>2, <4>1 DEF Won, Told
    <3> QED
      BY <2>1, <3>1
  <2>4. PICK e \in before : \A l \in before : ls(l) <= ls(e)
    <3>1. Max(wins) \in wins /\ \A i \in wins : i <= Max(wins)
      BY <2>3, LastOfPlaces
    <3>2. PICK e \in before : Max(wins) = ls(e)
      BY <3>1
    <3> QED
      BY <3>1, <3>2
  <2>5. p \in before /\ \A l \in before : ls(l) <= ls(p)
    BY <2>1, <2>4
  <2> HIDE DEF p
  <2>6. ls(p) > 0 /\ ls(p) \in Nat /\ ls(d) \in Nat
    BY <1>5, <2>5
  <2>7. CASE ls(d) > 0
    <3>1. ls(d) <= ls(p)
      BY <1>9, <2>5, <2>7
    <3>2. ls(d) # ls(p)
      <4> SUFFICES ASSUME ls(d) = ls(p) PROVE FALSE
        OBVIOUS
      <4>1. ls(p) \in Won(statuses, d) /\ ls(p) \in Won(statuses, p)
        BY <1>5, <2>6, <2>7
      <4>2. d = p
        BY <4>1 DEF Won, Told
      <4> QED
        BY <1>9, <4>2 DEF p
    <3> QED
      BY <2>6, <3>1, <3>2 DEF p
  <2> QED
    BY <2>6, <2>7 DEF p
<1> QED
  BY <1>1, <1>6, <1>7, <1>8, <1>9 DEF DeployTrailIsTrue, Core, OneId, ls

\* The next id is one more than there are.
LEMMA NextIdsAre ==
    ASSUME DeployInv, running
    PROVE  /\ \E n \in Nat : IdsOf(storedDeployments) = 1 .. n /\ NextDeploymentId = n + 1
           /\ NextStatusId = Len(statuses) + 1
<1>1. PICK n \in Nat : IdsOf(storedDeployments) = 1 .. n
  BY DEF DeployInv, Numbered
<1>2. IdsOf(deployments) = IdsOf(storedDeployments)
  <2>1. deployments \in SUBSET DeploymentRows /\ storedDeployments \in SUBSET DeploymentRows
    BY DEF DeployInv
  <2>2. Core(deployments) = Core(storedDeployments)
    BY DEF DeployInv
  <2> QED
    BY <2>1, <2>2, InHistory
<1>3. NextDeploymentId = n + 1
  BY <1>1, <1>2, NextIds DEF NextDeploymentId
<1>4. statuses \in Seq(StatusRows) /\ \A i \in DOMAIN statuses : statuses[i].id = i
  BY DEF DeployInv, Trail
<1>5. IdsOf(RowsOf(statuses)) = 1 .. Len(statuses) /\ Len(statuses) \in Nat
  BY <1>4 DEF IdsOf, RowsOf
<1>6. NextStatusId = Len(statuses) + 1
  BY <1>5, NextIds DEF NextStatusId
<1> QED
  BY <1>1, <1>3, <1>6

\* A row that nothing was told of changes no history.
LEMMA TrailWithMore ==
    ASSUME NEW rows \in SUBSET DeploymentRows, NEW h, NEW carefully \in BOOLEAN, Trail(h, rows, carefully),
           NEW x0, x0.id \notin IdsOf(rows)
    PROVE  Trail(h, rows \cup {x0}, carefully)
<1>1. \A i \in DOMAIN h : h[i].deployment \in IdsOf(rows)
  BY DEF Trail
<1>2. Told(h, x0.id) = {} /\ Won(h, x0.id) = {} /\ \A state : ~Stands(h, x0.id, state)
  BY <1>1 DEF Told, Won, Stands
<1>3. IdsOf(rows) \subseteq IdsOf(rows \cup {x0})
  BY DEF IdsOf
<1>4. Beaten(h, rows \cup {x0})
  <2>1. Beaten(h, rows)
    BY DEF Trail
  <2> QED
    BY <1>2, <2>1 DEF Beaten
<1>5. carefully => OneLive(h, rows \cup {x0})
  <2>1. carefully => OneLive(h, rows)
    BY DEF Trail
  <2> QED
    BY <1>2, <2>1 DEF OneLive
<1> QED
  BY <1>3, <1>4, <1>5 DEF Trail

LEMMA CreateDeploymentKeeps ==
    ASSUME DeployInv, NEW env \in Environments, NEW transient \in BOOLEAN, NEW refused \in BOOLEAN,
           CreateDeployment(env, transient, refused)
    PROVE  DeployInv'
<1>1. running /\ running' /\ UNCHANGED <<slug, statuses, storedStatuses, careful, stale>> /\ slug \in Names
  BY DEF CreateDeployment, DeployInv
<1>2. CASE refused
  BY <1>1, <1>2 DEF CreateDeployment, DeployInv
<1>3. CASE ~refused
  <2>1. PICK n \in Nat : IdsOf(storedDeployments) = 1 .. n /\ NextDeploymentId = n + 1
    BY <1>1, NextIdsAre
  <2>2. PICK d : d = [id |-> NextDeploymentId, env |-> env, transient |-> transient, slug |-> slug]
    OBVIOUS
  <2>3. storedDeployments' = storedDeployments \cup {d} /\ deployments' = deployments \cup {d}
    BY <1>3, <2>2 DEF CreateDeployment
  <2>4. d \in DeploymentRows /\ d.id = n + 1 /\ d.slug = slug
    <3>1. n + 1 \in Nat \ {0}
      BY <2>1
    <3> QED
      BY <1>1, <2>1, <2>2, <3>1 DEF DeploymentRows
  <2>5. /\ storedDeployments \in SUBSET DeploymentRows /\ OneId(storedDeployments)
        /\ deployments \in SUBSET DeploymentRows /\ OneId(deployments)
        /\ Core(deployments) = Core(storedDeployments)
        /\ ~stale => \A x \in deployments : x.slug = slug
    BY <1>1 DEF DeployInv
  <2>6. d.id \notin IdsOf(storedDeployments) /\ d.id \notin IdsOf(deployments)
    <3>1. IdsOf(deployments) = IdsOf(storedDeployments)
      BY <2>5, InHistory
    <3> QED
      BY <2>1, <2>4, <3>1
  <2>7. OneId(storedDeployments') /\ OneId(deployments')
    BY <2>3, <2>5, <2>6 DEF OneId, IdsOf
  <2>8. Numbered(storedDeployments')
    <3>1. IdsOf(storedDeployments') = (1 .. n) \cup {n + 1}
      BY <2>1, <2>3, <2>4 DEF IdsOf
    <3>2. (1 .. n) \cup {n + 1} = 1 .. (n + 1) /\ n + 1 \in Nat
      OBVIOUS
    <3> QED
      BY <3>1, <3>2 DEF Numbered
  <2> DEFINE old == [d EXCEPT !.slug = "old"]
  <2>9. /\ Core(storedDeployments') = Core(storedDeployments) \cup {old}
        /\ Core(deployments') = Core(deployments) \cup {old}
    BY <2>3 DEF Core, RefreshedSlugs
  <2>10. old.id = d.id
    BY <2>4 DEF DeploymentRows
  <2> HIDE DEF old
  <2>11. PICK h : Trail(h, Core(storedDeployments), careful) /\ storedStatuses = RowsOf(h) /\ statuses = h
    BY <1>1 DEF DeployInv
  <2>12. Trail(h, Core(storedDeployments'), careful)
    <3>1. Core(storedDeployments) \in SUBSET DeploymentRows /\ old.id \notin IdsOf(Core(storedDeployments))
      BY <2>5, <2>6, <2>10, InHistory
    <3>2. careful \in BOOLEAN
      BY DEF DeployInv
    <3> QED
      BY <2>9, <2>11, <3>1, <3>2, TrailWithMore
  <2>13. storedDeployments' \subseteq DeploymentRows /\ deployments' \subseteq DeploymentRows
    BY <2>3, <2>4, <2>5
  <2>14. Core(deployments') = Core(storedDeployments')
    BY <2>5, <2>9
  <2>15. ~stale => \A x \in deployments' : x.slug = slug
    BY <2>3, <2>4, <2>5
  <2> QED
    BY <1>1, <2>7, <2>8, <2>11, <2>12, <2>13, <2>14, <2>15 DEF DeployInv, Core
<1> QED
  BY <1>2, <1>3

LEMMA RowsOfBoth ==
    ASSUME NEW S, NEW a \in Seq(S), NEW b \in Seq(S)
    PROVE  RowsOf(a \o b) = RowsOf(a) \cup RowsOf(b)
<1>1. PICK n \in Nat, m \in Nat : n = Len(a) /\ m = Len(b)
  OBVIOUS
<1>2. DOMAIN a = 1 .. n /\ DOMAIN b = 1 .. m /\ DOMAIN (a \o b) = 1 .. (n + m)
      /\ (\A i \in 1 .. n : (a \o b)[i] = a[i]) /\ \A k \in 1 .. m : (a \o b)[n + k] = b[k]
  BY <1>1, Concatenated
<1>3. \A i \in 1 .. (n + m) : i \in 1 .. n \/ \E k \in 1 .. m : i = n + k
  <2> TAKE i \in 1 .. (n + m)
  <2>1. i > n => i - n \in 1 .. m /\ i = n + (i - n)
    OBVIOUS
  <2> QED
    BY <2>1
<1>4. (\A i \in 1 .. n : i \in 1 .. (n + m)) /\ \A k \in 1 .. m : n + k \in 1 .. (n + m)
  OBVIOUS
<1> DEFINE c == a \o b
<1>5. DOMAIN c = 1 .. (n + m) /\ (\A i \in 1 .. n : c[i] = a[i]) /\ \A k \in 1 .. m : c[n + k] = b[k]
  BY <1>2
<1> HIDE DEF c
<1>6. /\ \A x : x \in RowsOf(a) <=> \E i \in 1 .. n : x = a[i]
      /\ \A x : x \in RowsOf(b) <=> \E i \in 1 .. m : x = b[i]
      /\ \A x : x \in RowsOf(c) <=> \E i \in 1 .. (n + m) : x = c[i]
  BY <1>2, <1>5 DEF RowsOf
<1>7. ASSUME NEW x \in RowsOf(c) PROVE x \in RowsOf(a) \cup RowsOf(b)
  <2>1. PICK i \in 1 .. (n + m) : x = c[i]
    BY <1>6
  <2>2. CASE i \in 1 .. n
    BY <1>5, <1>6, <2>1, <2>2
  <2>3. CASE \E k \in 1 .. m : i = n + k
    BY <1>5, <1>6, <2>1, <2>3
  <2> QED
    BY <1>3, <2>2, <2>3
<1>8. ASSUME NEW x \in RowsOf(a) \cup RowsOf(b) PROVE x \in RowsOf(c)
  BY <1>4, <1>5, <1>6
<1> QED
  BY <1>7, <1>8 DEF c

\* A status and the retirements after a history.
LEMMA Batched ==
    \A S : \A a, rest \in Seq(S), one \in S, n, m \in Nat :
       n = Len(a) /\ m = Len(rest) =>
          /\ <<one>> \o rest \in Seq(S) /\ a \o (<<one>> \o rest) \in Seq(S)
          /\ DOMAIN (a \o (<<one>> \o rest)) = 1 .. (n + 1 + m)
          /\ \A i \in 1 .. n : (a \o (<<one>> \o rest))[i] = a[i]
          /\ (a \o (<<one>> \o rest))[n + 1] = one
          /\ \A k \in 1 .. m : (a \o (<<one>> \o rest))[n + 1 + k] = rest[k]
<1> SUFFICES ASSUME NEW S, NEW a \in Seq(S), NEW rest \in Seq(S), NEW one \in S,
                    NEW n \in Nat, NEW m \in Nat, n = Len(a), m = Len(rest)
             PROVE  /\ <<one>> \o rest \in Seq(S) /\ a \o (<<one>> \o rest) \in Seq(S)
                    /\ DOMAIN (a \o (<<one>> \o rest)) = 1 .. (n + 1 + m)
                    /\ \A i \in 1 .. n : (a \o (<<one>> \o rest))[i] = a[i]
                    /\ (a \o (<<one>> \o rest))[n + 1] = one
                    /\ \A k \in 1 .. m : (a \o (<<one>> \o rest))[n + 1 + k] = rest[k]
  OBVIOUS
<1> DEFINE batch == <<one>> \o rest
<1>1. /\ batch \in Seq(S) /\ Len(batch) = 1 + m /\ batch[1] = one
      /\ \A k \in 1 .. m : batch[1 + k] = rest[k]
  OBVIOUS
<1> HIDE DEF batch
<1>2. PICK p \in Nat : p = 1 + m
  OBVIOUS
<1>7. batch \in Seq(S) /\ Len(batch) = p
  BY <1>1, <1>2
<1>8. /\ a \o batch \in Seq(S) /\ DOMAIN (a \o batch) = 1 .. (n + p)
      /\ \A i \in 1 .. n : (a \o batch)[i] = a[i]
      /\ \A k \in 1 .. p : (a \o batch)[n + k] = batch[k]
  <2>1. a \o batch \in Seq(S) /\ DOMAIN (a \o batch) = 1 .. (n + p)
    BY <1>7
  <2>2. \A i \in 1 .. n : (a \o batch)[i] = a[i]
    BY <1>7
  <2>3. \A k \in 1 .. p : (a \o batch)[n + k] = batch[k]
    BY <1>7
  <2> QED
    BY <2>1, <2>2, <2>3
<1> DEFINE more == a \o batch
<1>3. /\ more \in Seq(S) /\ DOMAIN more = 1 .. (n + (1 + m))
      /\ \A i \in 1 .. n : more[i] = a[i]
      /\ \A k \in 1 .. (1 + m) : more[n + k] = batch[k]
  BY <1>2, <1>8
<1> HIDE DEF more
<1>4. n + (1 + m) = n + 1 + m /\ 1 \in 1 .. (1 + m)
  OBVIOUS
<1>5. \A k \in 1 .. m : 1 + k \in 1 .. (1 + m) /\ n + (1 + k) = n + 1 + k
  OBVIOUS
<1>6. /\ batch \in Seq(S) /\ more \in Seq(S) /\ DOMAIN more = 1 .. (n + 1 + m)
      /\ \A i \in 1 .. n : more[i] = a[i]
      /\ more[n + 1] = one
      /\ \A k \in 1 .. m : more[n + 1 + k] = rest[k]
  BY <1>1, <1>3, <1>4, <1>5
<1> QED
  BY <1>6 DEF more, batch

LEMMA CreateStatusKeeps ==
    ASSUME DeployInv, NEW d \in deployments, NEW state \in {"success", "failure"},
           NEW auto \in BOOLEAN, NEW refused \in BOOLEAN, CreateDeploymentStatus(d, state, auto, refused)
    PROVE  DeployInv'
<1>1. running /\ running' /\ UNCHANGED <<slug, deployments, storedDeployments, stale>>
  BY DEF CreateDeploymentStatus
<1>2. CASE refused
  BY <1>1, <1>2 DEF CreateDeploymentStatus, DeployInv
<1>3. CASE ~refused
  <2> DEFINE rows == Core(storedDeployments)
             replaced == IF state = "success" /\ auto THEN Superseded(d) ELSE {}
             r == InOrder(replaced)
             n == Len(statuses)
             m == Cardinality(replaced)
             one == [id |-> n + 1, deployment |-> d.id, state |-> state]
             retired(k) == [id |-> n + 1 + k, deployment |-> r[k], state |-> "inactive"]
             rest == [k \in DOMAIN r |-> retired(k)]
             batch == <<one>> \o rest
             more == statuses \o batch
  <2>1. /\ Trail(statuses, rows, careful) /\ RowsOf(statuses) = storedStatuses
        /\ Core(deployments) = rows /\ deployments \in SUBSET DeploymentRows
        /\ storedDeployments \in SUBSET DeploymentRows /\ OneId(storedDeployments) /\ Numbered(storedDeployments)
        /\ careful \in BOOLEAN
    BY <1>1 DEF DeployInv
  <2>2. /\ rows \in SUBSET DeploymentRows /\ OneId(rows) /\ IdsOf(rows) = IdsOf(storedDeployments)
        /\ \A x \in rows : \E y \in deployments : x.id = y.id /\ x.env = y.env /\ x.transient = y.transient
        /\ \A y \in deployments : \E x \in rows : x.id = y.id /\ x.env = y.env /\ x.transient = y.transient
    <3>1. /\ Core(storedDeployments) \in SUBSET DeploymentRows /\ OneId(Core(storedDeployments))
          /\ IdsOf(Core(storedDeployments)) = IdsOf(storedDeployments)
      BY <2>1, InHistory
    <3>2. /\ \A x \in Core(deployments) : \E y \in deployments :
                x.id = y.id /\ x.env = y.env /\ x.transient = y.transient
          /\ \A y \in deployments : \E x \in Core(deployments) :
                x.id = y.id /\ x.env = y.env /\ x.transient = y.transient
      BY <2>1, InHistory
    <3> QED
      BY <2>1, <3>1, <3>2
  <2> HIDE DEF rows
  <2>3. PICK x0 \in rows : x0.id = d.id /\ x0.env = d.env /\ x0.transient = d.transient
    BY <2>2
  <2>4. statuses \in Seq(StatusRows) /\ n \in Nat /\ DOMAIN statuses = 1 .. n
        /\ \A i \in DOMAIN statuses : statuses[i].id = i
    BY <2>1 DEF Trail
  <2>5. \A e : LatestState(e) = "success" <=> Stands(statuses, e, "success")
    BY <2>4, ReadsHistory
  <2>6. \A e : e \in Superseded(d) <=> \E z \in rows :
           z.id = e /\ z.id # x0.id /\ z.env = x0.env /\ ~z.transient /\ Stands(statuses, z.id, "success")
    <3>1. \A e : e \in Superseded(d) <=> \E y \in deployments :
             y.id = e /\ y.id # d.id /\ y.env = d.env /\ ~y.transient /\ Stands(statuses, y.id, "success")
      BY <2>5 DEF Superseded, IdsOf
    <3> QED
      BY <2>2, <2>3, <3>1
  <2>7. /\ replaced \in SUBSET IdsOf(rows)
        /\ \A e \in replaced : \E z \in rows :
              z.id = e /\ z.id # x0.id /\ z.env = x0.env /\ ~z.transient /\ state = "success"
        /\ state = "success" /\ auto =>
              \A z \in rows : /\ z.id # x0.id /\ z.env = x0.env /\ ~z.transient /\ Stands(statuses, z.id, "success")
                             => z.id \in replaced
    BY <2>6 DEF IdsOf
  <2> HIDE DEF replaced
  <2>8. PICK top \in Nat : IdsOf(rows) = 1 .. top
    BY <2>1, <2>2 DEF Numbered
  <2>9. /\ m \in Nat /\ r \in [1 .. m -> replaced] /\ (\A k \in 1 .. m : Rank(replaced, r[k]) = k)
        /\ \A e \in replaced : \E k \in 1 .. m : r[k] = e
    <3>1. replaced \in SUBSET (1 .. top)
      BY <2>7, <2>8
    <3> QED
      BY <3>1, InOrderPlaces
  <2> HIDE DEF n, m, r
  <2>10. /\ \A k, l \in 1 .. m : r[k] = r[l] => k = l
         /\ \A k \in 1 .. m : r[k] \in replaced
    BY <2>9
  <2>11. one \in StatusRows /\ \A k \in 1 .. m : retired(k) \in StatusRows
    <3>1. d.id \in Nat /\ \A e \in IdsOf(rows) : e \in Nat
      BY <2>1, <2>8 DEF DeploymentRows
    <3>2. n + 1 \in Nat /\ \A k \in 1 .. m : n + 1 + k \in Nat
      BY <2>4
    <3>3. \A k \in 1 .. m : r[k] \in Nat
      BY <2>7, <2>10, <3>1
    <3> QED
      BY <3>1, <3>2, <3>3 DEF StatusRows
  <2>12. rest = [k \in 1 .. m |-> retired(k)]
    BY <2>9
  <2> HIDE DEF one, retired
  <2>13. rest \in Seq(StatusRows) /\ Len(rest) = m /\ \A k \in 1 .. m : rest[k] = retired(k)
    BY <2>9, <2>11, <2>12
  <2> HIDE DEF rest
  <2>15. batch \in Seq(StatusRows)
    BY <2>4, <2>9, <2>11, <2>13, Batched DEF n
  <2>16. /\ more \in Seq(StatusRows) /\ DOMAIN more = 1 .. (n + 1 + m)
         /\ \A i \in 1 .. n : more[i] = statuses[i]
         /\ more[n + 1] = one
         /\ \A k \in 1 .. m : more[n + 1 + k] = retired(k)
    <3>1. n \in Nat /\ m \in Nat /\ n = Len(statuses) /\ m = Len(rest)
      BY <2>4, <2>9, <2>13 DEF n
    <3>2. /\ more \in Seq(StatusRows) /\ DOMAIN more = 1 .. (n + 1 + m)
          /\ \A i \in 1 .. n : more[i] = statuses[i]
          /\ more[n + 1] = one
          /\ \A k \in 1 .. m : more[n + 1 + k] = rest[k]
      BY <2>4, <2>11, <2>13, <3>1, Batched
    <3> HIDE DEF more
    <3> QED
      BY <2>13, <3>2
  <2> HIDE DEF batch, more
  <2>17. NextStatusId = n + 1
    BY <1>1, NextIdsAre DEF n
  <2>18. /\ statuses' = more /\ storedStatuses' = storedStatuses \cup RowsOf(batch)
         /\ careful' = (careful /\ (state = "success" => auto /\ ~d.transient))
    BY <1>3, <2>17 DEF CreateDeploymentStatus, more, batch, rest, one, retired, r, replaced
  <2>19. storedStatuses' = RowsOf(more)
    BY <2>1, <2>4, <2>15, <2>18, RowsOfBoth DEF more
  <2>20. Trail(more, rows, careful /\ (state = "success" => auto /\ ~x0.transient))
    <3>1. /\ more[n + 1] = [id |-> n + 1, deployment |-> x0.id, state |-> state]
          /\ \A k \in 1 .. m : more[n + 1 + k] = [id |-> n + 1 + k, deployment |-> r[k], state |-> "inactive"]
      BY <2>3, <2>16 DEF one, retired
    <3> QED
      <4>1. GoesOn(rows, statuses, x0, state, auto, replaced, n, m, r, more)
        BY <2>2, <2>4, <2>7, <2>9, <2>10, <2>16, <3>1 DEF GoesOn
      <4> QED
        BY <2>1, <2>2, <4>1, TrailGoesOn
  <2>21. Trail(more, rows, careful') /\ careful' \in BOOLEAN
    BY <2>3, <2>18, <2>20
  <2>22. rows' = rows /\ Core(storedDeployments') = rows
    BY <1>1 DEF rows
  <2> QED
    BY <1>1, <2>18, <2>19, <2>21, <2>22 DEF DeployInv
<1> QED
  BY <1>2, <1>3

\* A refresh of the slugs, by a rename or an open, touches no history.
LEMMA RenameDeployedKeeps ==
    ASSUME DeployInv, NEW name \in Names, RenameDeployed(name)
    PROVE  DeployInv'
<1>1. /\ running /\ running' /\ slug' = name /\ deployments' = RefreshedSlugs(deployments, name)
      /\ UNCHANGED <<statuses, storedDeployments, storedStatuses, careful>>
  BY DEF RenameDeployed
<1>2. /\ deployments \in SUBSET DeploymentRows /\ OneId(deployments)
      /\ Core(deployments) = Core(storedDeployments)
  BY <1>1 DEF DeployInv
<1>3. /\ deployments' \in SUBSET DeploymentRows /\ OneId(deployments')
      /\ Core(deployments') = Core(storedDeployments)
      /\ \A x \in deployments' : x.slug = name
  BY <1>1, <1>2, SlugsOnly
<1> QED
  BY <1>1, <1>3 DEF DeployInv, Core

LEMMA TransferDeployedKeeps ==
    ASSUME DeployInv, NEW name \in Names, TransferDeployed(name)
    PROVE  DeployInv'
<1>1. /\ running /\ running' /\ slug' = name /\ stale' = (deployments # {})
      /\ UNCHANGED <<deployments, statuses, storedDeployments, storedStatuses, careful>>
  BY DEF TransferDeployed
<1>2. ~stale' => \A x \in deployments' : x.slug = slug'
  BY <1>1
<1> QED
  BY <1>1, <1>2 DEF DeployInv, Core

LEMMA StopForgeKeeps ==
    ASSUME DeployInv, StopForge
    PROVE  DeployInv'
  BY DEF StopForge, DeployInv, Core

LEMMA StartForgeKeeps ==
    ASSUME DeployInv, StartForge
    PROVE  DeployInv'
<1>1. /\ running' = TRUE /\ deployments' = RefreshedSlugs(storedDeployments, slug)
      /\ statuses' = ById(storedStatuses)
      /\ UNCHANGED <<slug, storedDeployments, storedStatuses, careful>>
  BY DEF StartForge
<1>2. storedDeployments \in SUBSET DeploymentRows /\ OneId(storedDeployments) /\ slug \in Names
  BY DEF DeployInv
<1>3. /\ deployments' \in SUBSET DeploymentRows /\ OneId(deployments')
      /\ Core(deployments') = Core(storedDeployments)
      /\ \A x \in deployments' : x.slug = slug
  BY <1>1, <1>2, SlugsOnly
<1>4. PICK h : Trail(h, Core(storedDeployments), careful) /\ storedStatuses = RowsOf(h)
  BY DEF DeployInv
<1>5. statuses' = h
  BY <1>1, <1>4, ReadBack DEF Trail
<1>6. stale' \in BOOLEAN
  BY DEF StartForge
<1> QED
  BY <1>1, <1>3, <1>4, <1>5 DEF DeployInv, Core

LEMMA DeployStepsKeep == DeployInv /\ [RecordNext]_recordVars => DeployInv'
<1> SUFFICES ASSUME DeployInv, [RecordNext]_recordVars PROVE DeployInv'
  OBVIOUS
<1>1. ASSUME UNCHANGED deployVars PROVE DeployInv'
  BY <1>1 DEF deployVars, DeployInv, Core
<1>2. ASSUME NEW env \in Environments, NEW transient \in BOOLEAN, NEW refused \in BOOLEAN,
             CreateDeployment(env, transient, refused)
      PROVE  DeployInv'
  BY <1>2, CreateDeploymentKeeps
<1>3. ASSUME NEW d \in deployments, NEW state \in {"success", "failure"}, NEW auto \in BOOLEAN,
             NEW refused \in BOOLEAN, CreateDeploymentStatus(d, state, auto, refused)
      PROVE  DeployInv'
  BY <1>3, CreateStatusKeeps
<1>4. ASSUME NEW name \in Names, RenameDeployed(name) PROVE DeployInv'
  BY <1>4, RenameDeployedKeeps
<1>5. ASSUME NEW name \in Names, TransferDeployed(name) PROVE DeployInv'
  BY <1>5, TransferDeployedKeeps
<1>6. CASE StopForge
  BY <1>6, StopForgeKeeps
<1>7. CASE StartForge
  BY <1>7, StartForgeKeeps
<1>8. CASE BoundedNext
  BY <1>1, <1>8 DEF BoundedNext, RecordJankuraiScore, JoinWaitlist, Tick
<1>9. CASE UNCHANGED recordVars
  BY <1>1, <1>9 DEF recordVars, deployVars
<1> QED
  BY <1>2, <1>3, <1>4, <1>5, <1>6, <1>7, <1>8, <1>9 DEF RecordNext, DeployNext

LEMMA DeployStarts == RecordInit => DeployInv
<1> SUFFICES ASSUME RecordInit PROVE DeployInv
  OBVIOUS
<1>1. /\ running = TRUE /\ slug = "old" /\ deployments = {} /\ statuses = <<>> /\ storedDeployments = {}
      /\ storedStatuses = {} /\ careful = TRUE
  BY DEF RecordInit
<1>2. slug \in Names
  BY <1>1 DEF Names
<1>3. Numbered({})
  <2>1. IdsOf({}) = 1 .. 0 /\ 0 \in Nat
    BY DEF IdsOf
  <2> QED
    BY <2>1 DEF Numbered
<1>4. Core({}) = {} /\ OneId({})
  BY DEF Core, RefreshedSlugs, OneId
<1>5. Trail(<<>>, {}, TRUE) /\ RowsOf(<<>>) = {}
  BY DEF Trail, Beaten, OneLive, RowsOf
<1> QED
  BY <1>1, <1>2, <1>3, <1>4, <1>5 DEF DeployInv

\* The history in memory is the one in the file whatever was refused, nobody is
\* retired but by a later success of its environment, where every success was
\* careful the live one is alone and won last, the one shown as previous did
\* succeed after all others, and a rename or an open leaves no old slug
\* (create_deployment, create_deployment_status, summarize_environment,
\* refresh_deployment_slugs, load_deployments).
THEOREM DeployTrailHolds == RecordSpec => []DeployTrailIsTrue
<1>1. RecordInit => DeployInv
  BY DeployStarts
<1>2. DeployInv /\ [RecordNext]_recordVars => DeployInv'
  BY DeployStepsKeep
<1>3. DeployInv => DeployTrailIsTrue
  BY DeployGives
<1> QED
  BY <1>1, <1>2, <1>3, PTL DEF RecordSpec

\* With NewestRecordsAreKept, all that the run asks of these records.
THEOREM RecordsHold == RecordSpec => []RecordsAreTrue
<1>1. DeployTrailIsTrue /\ BoundedRecordsKeepTheNewest => RecordsAreTrue
  BY DEF RecordsAreTrue
<1> QED
  BY <1>1, DeployTrailHolds, NewestRecordsAreKept, PTL
=============================================================================
