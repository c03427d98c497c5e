----------------------------- MODULE MCComponents -----------------------------
(* The components that share no state, in one run: a behaviour moves one of    *)
(* them, chosen at the start, and leaves the others in one initial state.      *)
EXTENDS GitRefs, LfsStore, GitAuth, Repositories, Accounts, ReviewLoop,
        MirrorBackup, BugTracker

VARIABLE focus

----------------------------------------------------------------------------
(* Constants *)

\* Two commits that diverged, and their merge.
MCAncestor == {<<o, o>> : o \in Oids} \cup {<<"a", "m">>, <<"b", "m">>}
MCMergeOf == [p \in Oids \X Oids |-> IF p = <<"a", "b">> THEN "m" ELSE Conflict]

MCContent == [o \in LfsOids |-> IF o = "o1" THEN <<"x", "y">> ELSE <<"z">>]
MCBodies == {<<"x", "y">>, <<"z">>, <<"x", "y", "z">>}

MCSlugs == {<<"u", "a">>, <<"u", "b">>, <<"x", "a">>}
MCDecoded(b) == "main"

\* A whole archive, one with an issue twice, and one with a repository twice.
MCIssue == [kind |-> "issue", nth |-> 1]
MCArchives ==
    LET r2 == [name |-> "r2", items |-> <<MCIssue>>] IN
    {<<[name |-> "r1", items |-> <<[kind |-> "branch", nth |-> 1], MCIssue, [kind |-> "webhook", nth |-> 1]>>], r2>>,
     <<r2, [name |-> "r1", items |-> <<MCIssue, MCIssue>>]>>,
     <<r2, r2>>}

\* Two paths that are imported under one name.
MCRepoOf(p) == IF p = "/c/bar" THEN "bar" ELSE "foo"

\* Threads are interchangeable.
MCSymmetry == Permutations(Writers) \cup Permutations(Uploaders)

----------------------------------------------------------------------------
(* The parts that stay where they are start in one state *)
GitAtRest == refs = [r \in RefNames |-> IF r \in Tags THEN Zero ELSE "a"]
RepositoryAtRest == repos[<<"u", "a">>] = "r1"
AccountsAtRest == accounts["ann"].admin

MCInit ==
    /\ GitInit /\ LfsInit /\ AuthInit /\ RepoInit /\ AccountInit /\ LoopInit /\ MirrorInit /\ BugInit
    /\ RepositoryAtRest
    /\ \/ focus = "git" /\ AccountsAtRest
       \/ focus \in {"lfs", "registry", "repositories", "credentials", "reviews", "bundle", "restore", "import", "sync", "bugs"}
          /\ GitAtRest /\ AccountsAtRest
       \/ focus = "members" /\ GitAtRest

\* Credentials of accounts that are there.
CredentialNext ==
    \/ \E l \in Logins : AccountStep(l)
    \/ \E w \in Requests : CredentialRequest(w)
    \/ \E s \in SecretIds : SecretStep(s)
    \/ \E c \in CredIds : RevokeCredential(c)

\* How accounts, organizations and teams come to be.
MemberNext ==
    \/ \E l \in Logins : OrganizationStep(l) \/ TransitionAccountStatus(l, "Active")
    \/ AccountRequest(CHOOSE w \in Requests : TRUE)
    \/ \E i \in InviteIds : InvitationStep(i)
    \/ \E c \in ChallengeIds : CompleteActivation(c)

MCNext ==
    /\ UNCHANGED focus
    /\ \/ /\ focus = "git" /\ GitNext
          /\ UNCHANGED <<lfsVars, authVars, repoVars, accountVars, ledger, mirrorVars, bugVars>>
       \/ /\ focus = "lfs" /\ LfsNext
          /\ UNCHANGED <<gitVars, authVars, repoVars, accountVars, ledger, mirrorVars, bugVars>>
       \/ /\ focus = "registry" /\ AuthNext
          /\ UNCHANGED <<gitVars, lfsVars, repoVars, accountVars, ledger, mirrorVars, bugVars>>
       \/ /\ focus = "repositories" /\ RepoNext
          /\ UNCHANGED <<gitVars, lfsVars, authVars, accountVars, ledger, mirrorVars, bugVars>>
       \/ /\ focus = "credentials" /\ CredentialNext
          /\ UNCHANGED <<gitVars, lfsVars, authVars, repoVars, ledger, mirrorVars, bugVars>>
       \/ /\ focus = "members" /\ MemberNext
          /\ UNCHANGED <<gitVars, lfsVars, authVars, repoVars, ledger, mirrorVars, bugVars>>
       \/ /\ focus = "reviews" /\ LoopNext
          /\ UNCHANGED <<gitVars, lfsVars, authVars, repoVars, accountVars, mirrorVars, bugVars>>
       \/ /\ \/ focus = "bundle" /\ BundleNext
             \/ focus = "restore" /\ RestoreNext
             \/ focus = "import" /\ ImportNext
             \/ focus = "sync" /\ SyncNext
          /\ UNCHANGED <<gitVars, lfsVars, authVars, repoVars, accountVars, ledger, bugVars>>
       \/ /\ focus = "bugs" /\ BugNext
          /\ UNCHANGED <<gitVars, lfsVars, authVars, repoVars, accountVars, ledger, mirrorVars>>

mcVars == <<gitVars, lfsVars, authVars, repoVars, accountVars, ledger, mirrorVars, bugVars, focus>>

MCSpec == MCInit /\ [][MCNext]_mcVars
=============================================================================
