------------------------------ MODULE GitAuth ------------------------------
(***************************************************************************)
(* The credential registry of jeryu-gitd: one JSON file with hashed personal *)
(* access tokens and SSH keys, loaded by every command and every request,    *)
(* rewritten by auth-mint-pat and auth-register-ssh-key.  Each command is a  *)
(* process of its own with its own copy; all of them flush through the same  *)
(* temporary path, and no lock orders them.                                  *)
(*                                                                          *)
(* An id, a secret and a key fingerprint are members of small sets; a hash   *)
(* equals another exactly when the secrets do.                               *)
(***************************************************************************)
EXTENDS Integers, FiniteSets

CONSTANTS
    Commands,       \* processes that change the registry
    TokenOwners,    \* names given to auth-mint-pat: any, the operator's too
    TokenIds,       \* ids fresh_id may draw
    Fingerprints    \* SSH key fingerprints

LocalOperator == "local-operator"
Scopes == {"repo:read", "repo:write"}

VARIABLES
    registry,   \* the file registry.json, a store or corrupt
    tmpFile,    \* registry.json.tmp: a store, empty, mixed or absent
    command,    \* each process: where it is, its copy of the store, its token
    minted      \* tokens printed: [id, secret, owner, scopes]

authVars == <<registry, tmpFile, command, minted>>

Blank(file) == [is |-> file, pats |-> {}, keys |-> {}]
EmptyStore == Blank("json")
Ready == [at |-> "start", store |-> EmptyStore, token |-> {}]

AuthInit ==
    /\ registry = EmptyStore
    /\ tmpFile = Blank("absent")
    /\ command = [c \in Commands |-> Ready]
    /\ minted = {}

----------------------------------------------------------------------------
(* Decisions, taken on a loaded store. *)

MayAct(principal, owner, write) ==
    /\ (IF write THEN "repo:write" ELSE "repo:read") \in principal.scopes
    /\ principal.login \in {LocalOperator, owner}

Operator == [login |-> LocalOperator, scopes |-> Scopes]

\* Mutant of VerifyPat: the id alone identifies the token.
VerifyPatById(store, token) ==
    {[login |-> p.login, scopes |-> p.scopes] : p \in {q \in store.pats : q.id = token.id}}

\* verify_pat: a structured token is looked up by its id and only by its id; a
\* bare secret is compared with every record.
VerifyPat(store, token) ==
    LET byId == {p \in store.pats : p.id = token.id}
        candidates == IF byId # {} THEN byId ELSE store.pats
    IN  {[login |-> p.login, scopes |-> p.scopes] :
            p \in {q \in candidates : q.secret = token.secret}}

\* decide: no credential is the local operator on loopback and 401 elsewhere; a
\* credential that does not verify is 401 on loopback too.
Decide(store, token, loopback, owner, write) ==
    LET principals == IF token # {} THEN UNION {VerifyPat(store, t) : t \in token}
                      ELSE IF loopback THEN {Operator} ELSE {}
    IN  IF principals = {} THEN 401
        ELSE IF \E p \in principals : MayAct(p, owner, write) THEN 200 ELSE 403

\* authorize_ssh: a key must be registered; without one only a read over
\* loopback is the local operator's.
AuthorizeSsh(store, fingerprint, loopback, owner, write) ==
    LET known == {[login |-> k.login, scopes |-> Scopes] :
                     k \in {q \in store.keys : q.fingerprint \in fingerprint}}
        principals == IF fingerprint # {} THEN known
                      ELSE IF loopback /\ ~write THEN {Operator} ELSE {}
    IN  IF principals = {} THEN 401
        ELSE IF \E p \in principals : MayAct(p, owner, write) THEN 200 ELSE 403

----------------------------------------------------------------------------
\* open: a file that does not parse is an error, and the command ends.
OpenRegistry(c) ==
    /\ command[c].at = "start"
    /\ command' = [command EXCEPT ![c] =
                      IF registry.is = "corrupt" THEN [Ready EXCEPT !.at = "failed"]
                      ELSE [Ready EXCEPT !.at = "loaded", !.store = registry]]
    /\ UNCHANGED <<registry, tmpFile, minted>>

\* mint_pat: the id is fresh in this copy; the secret is fresh everywhere, so
\* the process names it.
MintPat(c) ==
    /\ command[c].at = "loaded"
    /\ \E id \in TokenIds, owner \in TokenOwners, scopes \in {{"repo:read"}, Scopes} :
           /\ \A p \in command[c].store.pats : p.id # id
           /\ LET pat == [id |-> id, secret |-> c, login |-> owner, scopes |-> scopes] IN
              command' = [command EXCEPT ![c].at = "flush", ![c].token = {pat},
                             ![c].store.pats = @ \cup {pat}]
    /\ UNCHANGED <<registry, tmpFile, minted>>

\* register_ssh_key: re-registering a key rebinds it.
RegisterSshKey(c) ==
    /\ command[c].at = "loaded"
    /\ \E f \in Fingerprints, owner \in TokenOwners :
           command' = [command EXCEPT ![c].at = "flush",
                          ![c].store.keys = {k \in @ : k.fingerprint # f}
                                            \cup {[fingerprint |-> f, login |-> owner]}]
    /\ UNCHANGED <<registry, tmpFile, minted>>

\* flush: open and truncate the temporary file, write it, rename it.
TruncateTmp(c) ==
    /\ command[c].at = "flush"
    /\ tmpFile' = Blank("empty")
    /\ command' = [command EXCEPT ![c].at = "write"]
    /\ UNCHANGED <<registry, minted>>

\* Two processes that have the file open at once may leave a mixture of both
\* stores behind; a file renamed away meanwhile is written where it now is.
WriteTmp(c) ==
    /\ command[c].at = "write"
    /\ \/ /\ tmpFile.is # "absent"
          /\ tmpFile' \in {command[c].store}
                          \cup (IF tmpFile.is = "empty" THEN {} ELSE {Blank("mixed")})
          /\ UNCHANGED registry
       \/ /\ tmpFile.is = "absent"
          /\ registry' \in {Blank("corrupt"), command[c].store}
          /\ UNCHANGED tmpFile
    /\ command' = [command EXCEPT ![c].at = "rename"]
    /\ UNCHANGED minted

\* The rename publishes what the temporary file holds; an empty file reads as
\* an empty registry.  Without the file the rename and the command fail.
RenameTmp(c) ==
    /\ command[c].at = "rename"
    /\ IF tmpFile.is = "absent"
         THEN /\ command' = [command EXCEPT ![c].at = "failed"]
              /\ UNCHANGED <<registry, tmpFile, minted>>
         ELSE /\ registry' = (CASE tmpFile.is = "empty" -> EmptyStore
                                [] tmpFile.is = "mixed" -> Blank("corrupt")
                                [] tmpFile.is = "json" -> tmpFile)
              /\ tmpFile' = Blank("absent")
              /\ command' = [command EXCEPT ![c].at = "done"]
              /\ minted' = minted \cup command[c].token

AuthNext ==
    \E c \in Commands :
        \/ OpenRegistry(c) \/ MintPat(c) \/ RegisterSshKey(c)
        \/ TruncateTmp(c) \/ WriteTmp(c) \/ RenameTmp(c)

AuthSpec == AuthInit /\ [][AuthNext]_authVars

----------------------------------------------------------------------------
(* However concurrent commands lose, rebind or corrupt each other's records,  *)
(* a token that was printed verifies as the name and scopes it was minted     *)
(* with or not at all.  So it opens its owner's repositories within its       *)
(* scopes, and everybody's only when it was minted for the local operator's   *)
(* name, which the command accepts: no interleaving makes it answer for       *)
(* another login, and no presented token falls back to the loopback operator. *)
TokensNameTheirOwner ==
    registry.is = "json" =>
        \A t \in minted :
            /\ VerifyPat(registry, t) \subseteq {[login |-> t.login, scopes |-> t.scopes]}
            /\ \A owner \in TokenOwners, write, loopback \in BOOLEAN :
                  Decide(registry, {t}, loopback, owner, write) = 200 =>
                      /\ t.login \in {owner, LocalOperator}
                      /\ (IF write THEN "repo:write" ELSE "repo:read") \in t.scopes
=============================================================================
