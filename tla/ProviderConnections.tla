------------------------ MODULE ProviderConnections ------------------------
(***************************************************************************)
(* Connect-once provider connections: engine/provider_connections.rs, the  *)
(* seal of engine/vault.rs, and the parts of engine/storage.rs that decide *)
(* what survives a restart.                                                *)
(*                                                                         *)
(* A row holds a sealed provider secret.  Refreshing it asks the provider  *)
(* to rotate the secret, outside every lock but the connection's own       *)
(* refresh lock; the provider may consume the old secret before the vault  *)
(* has stored the new one.  The model keeps the memory and the database    *)
(* apart, lets every write fail, lets the process die anywhere, and counts *)
(* what the provider has consumed.                                         *)
(*                                                                         *)
(* A connection stands for its (owner, provider, account): the code never  *)
(* stores two rows for one triple.  Secrets are numbered in the order the  *)
(* provider issues them.  A session is a holder of one lease that refreshes*)
(* through the broker.  Timestamps and error texts are left out.           *)
(***************************************************************************)
EXTENDS Naturals, Sequences, FiniteSets

CONSTANTS Conns, OwnerOf, ProviderOf, Providers,
          Users, Services,  \* owners: user/<login> and service/<name>
          Kinds,            \* the credential kinds that are connected
          Sessions, Locks,  \* refreshers; identities of refresh locks
          Keys, NoKey,      \* vault keys a process may start with
          Absent, NoSecret, NoRotation, NoLock, NoSession, NoLease,
          MaxSecrets,       \* bound on secrets issued by the provider
          MaxGeneration     \* bound on connection_generation

ASSUME OwnersAreDeclared ==
    /\ OwnerOf \in [Conns -> Users \cup Services]
    /\ ProviderOf \in [Conns -> Providers]
    /\ Users \cap Services = {}
    /\ Kinds \subseteq {"oauth_refresh", "api_key"}
    /\ MaxSecrets \in Nat /\ MaxGeneration \in Nat

VARIABLES
    mem,       \* State behind ForgeCore's lock: rows and active accounts
    disk,      \* State as the database holds it
    services,  \* service_namespaces, registered by the deployment
    vault,     \* the process's vault key
    checked,   \* connections whose owner connect_provider has just checked
    table,     \* RefreshLocks: the lock of each connection, if any
    holder,    \* which session holds each lock
    sess,      \* what each session is doing
    issued,    \* the connection each secret was issued for, in order
    consumed,  \* secrets the provider will not accept again
    handed,    \* newest access material handed out, per connection
    fenced     \* newest generation a connect or disconnect answered with

vars == <<mem, disk, services, vault, checked, table, holder, sess, issued,
          consumed, handed, fenced>>

Issued == 1..Len(issued)

\* A sealed secret: the key it was sealed under and the binding.  The binding also
\* names the connection, its owner and its provider, which a row never changes.
Seals == [key : Keys, gen : Nat, version : Nat,
          kind : {"oauth_refresh", "api_key"}, secret : Nat]

Rows == [kind : {"oauth_refresh", "api_key"},
         state : {"connected", "auth_required", "disconnected"},
         gen : Nat, version : Nat,
         sealed : Seals \cup {NoSecret}, rotation : Nat \cup {NoRotation}]

States == [rows : [Conns -> Rows \cup {Absent}], active : SUBSET Users]

Leases == [owner : Users \cup Services, conn : Conns, gen : Nat]

\* Markers are none of the values they stand beside.
ASSUME MarkersAreDistinct ==
    /\ NoKey \notin Keys
    /\ NoLock \notin Locks
    /\ NoSession \notin Sessions
    /\ NoRotation \notin Nat
    /\ Absent \notin Rows
    /\ NoSecret \notin Seals
    /\ NoLease \notin Leases

\* idle -> waiting (for the lock) -> entered -> asking -> answered -> leaving
Phases == {"idle", "waiting", "entered", "asking", "answered", "leaving"}
Answers == {"none", "rotated", "unusable", "unchanged", "revoked", "unknown"}

SessionRecords ==
    [at : Phases, lease : Leases \cup {NoLease}, lock : Locks \cup {NoLock},
     version : Nat, secret : Nat, answer : Answers, fresh : Nat]

\* A session with no exchange in flight.
Resting(phase, lease, lock) ==
    [at |-> phase, lease |-> lease, lock |-> lock, version |-> 0, secret |-> 0,
     answer |-> "none", fresh |-> 0]
Idle(lease) == Resting("idle", lease, NoLock)

TypeOK ==
    /\ mem \in States
    /\ disk \in States
    /\ services \subseteq Services
    /\ vault \in Keys \cup {NoKey}
    /\ checked \subseteq Conns
    /\ table \in [Conns -> Locks \cup {NoLock}]
    /\ holder \in [Locks -> Sessions \cup {NoSession}]
    /\ sess \in [Sessions -> SessionRecords]
    /\ issued \in Seq(Conns)
    /\ consumed \subseteq Issued
    /\ handed \in [Conns -> [gen : Nat, version : Nat]]
    /\ fenced \in [Conns -> Nat]

Init ==
    /\ mem = [rows |-> [c \in Conns |-> Absent], active |-> Users]
    /\ disk = mem
    /\ services = {}
    /\ vault \in Keys \cup {NoKey}
    /\ checked = {}
    /\ table = [c \in Conns |-> NoLock]
    /\ holder = [l \in Locks |-> NoSession]
    /\ sess = [t \in Sessions |-> Idle(NoLease)]
    /\ issued = << >>
    /\ consumed = {}
    /\ handed = [c \in Conns |-> [gen |-> 0, version |-> 0]]
    /\ fenced = [c \in Conns |-> 0]

-----------------------------------------------------------------------------
(* The store *)

\* A write of the whole state either commits ("saved"), fails ("lost"), or
\* commits and then fails to drop its staging tables ("late"): the caller sees
\* an error although the database has the new state.
Writes == {"saved", "lost", "late"}

\* persist_after_mutation: an error restores the previous memory.
PersistAfterMutation(new, how) ==
    /\ mem' = IF how = "saved" THEN new ELSE mem
    /\ disk' = IF how = "lost" THEN disk ELSE new

\* persist_fence: the memory keeps the fence whatever the write does; `before`
\* is what the database holds by then.
PersistFence(new, how, before) ==
    /\ mem' = new
    /\ disk' = IF how = "lost" THEN before ELSE new

-----------------------------------------------------------------------------
(* Rows, seals and bindings *)

\* VaultKey::seal under the row's own binding.
SealFor(row, secret) ==
    [key |-> vault, gen |-> row.gen, version |-> row.version, kind |-> row.kind,
     secret |-> secret]

\* VaultKey::open succeeds: same key, same binding.
Opens(row) ==
    /\ row.sealed # NoSecret
    /\ row.sealed.key = vault
    /\ row.sealed.gen = row.gen
    /\ row.sealed.version = row.version
    /\ row.sealed.kind = row.kind

\* fence_auth_required
Fenced(row) == [row EXCEPT !.state = "auth_required", !.sealed = NoSecret,
                           !.rotation = NoRotation]

\* owner_active, and the namespace check beside it
OwnerActive(st, owner) ==
    IF owner \in Users THEN owner \in st.active ELSE owner \in services

\* live_record: the row behind a lease is its owner's, connected, and at the
\* lease's generation.
LiveRecord(lease) ==
    LET row == mem.rows[lease.conn]
    IN  /\ row # Absent
        /\ OwnerOf[lease.conn] = lease.owner
        /\ OwnerActive(mem, lease.owner)
        /\ row.state = "connected"
        /\ row.gen = lease.gen

With(c, row) == [mem EXCEPT !.rows[c] = row]

-----------------------------------------------------------------------------
(* Owners *)

\* transition_account_status: disable or lock; and back to active, which in
\* the code takes a reactivation and an MFA enrolment.
TransitionAccountStatus(u, how) ==
    LET active == IF u \in mem.active THEN mem.active \ {u} ELSE mem.active \cup {u}
    IN  /\ PersistAfterMutation([mem EXCEPT !.active = active], how)
        /\ UNCHANGED <<services, vault, checked, table, holder, sess, issued, consumed,
                       handed, fenced>>

RegisterServiceNamespace(n) ==
    /\ n \notin services
    /\ services' = services \cup {n}
    /\ UNCHANGED <<mem, disk, vault, checked, table, holder, sess, issued, consumed,
                   handed, fenced>>

RevokeServiceNamespace(n) ==
    /\ n \in services
    /\ services' = services \ {n}
    /\ UNCHANGED <<mem, disk, vault, checked, table, holder, sess, issued, consumed,
                   handed, fenced>>

-----------------------------------------------------------------------------
(* Connect, disconnect, bind *)

\* connect_provider_admitted up to its write lock: the vault and the owner are
\* looked at before the lock is taken.
RequireOwner(c) ==
    /\ c \notin checked
    /\ vault # NoKey
    /\ OwnerActive(mem, OwnerOf[c])
    /\ checked' = checked \cup {c}
    /\ UNCHANGED <<mem, disk, services, vault, table, holder, sess, issued, consumed,
                   handed, fenced>>

NextGeneration(row) == IF row = Absent THEN 1 ELSE row.gen + 1

\* connect_provider_admitted under the lock, with a secret the provider just
\* issued.  A new row starts at generation 1, a reconnect bumps it.
ConnectProvider(c, kind, how) ==
    LET old == mem.rows[c]
        row == [kind |-> kind, state |-> "connected", gen |-> NextGeneration(old),
                version |-> 0, sealed |-> NoSecret, rotation |-> NoRotation]
    IN  /\ c \in checked
        /\ row.gen <= MaxGeneration
        /\ Len(issued) < MaxSecrets
        /\ issued' = Append(issued, c)
        /\ checked' = checked \ {c}
        /\ PersistAfterMutation(
              With(c, [row EXCEPT !.sealed = SealFor(row, Len(issued) + 1)]), how)
        /\ fenced' = IF how = "saved" THEN [fenced EXCEPT ![c] = row.gen] ELSE fenced
        /\ UNCHANGED <<services, vault, table, holder, sess, consumed, handed>>

Disconnected(row) ==
    [row EXCEPT !.state = "disconnected", !.gen = @ + 1, !.sealed = NoSecret,
                !.rotation = NoRotation]

\* Mutant of DisconnectProvider: the answer does not wait for the write.
DisconnectUnsaved(c, how) ==
    LET old == mem.rows[c]
    IN  /\ old # Absent
        /\ old.state # "disconnected"
        /\ old.gen < MaxGeneration
        /\ mem' = With(c, Disconnected(old))
        /\ fenced' = [fenced EXCEPT ![c] = old.gen + 1]
        /\ UNCHANGED <<disk, services, vault, checked, table, holder, sess, issued,
                       consumed, handed>>

\* disconnect_provider on a row that is not disconnected yet.
DisconnectProvider(c, how) ==
    LET old == mem.rows[c]
    IN  /\ old # Absent
        /\ old.state # "disconnected"
        /\ old.gen < MaxGeneration
        /\ PersistAfterMutation(With(c, Disconnected(old)), how)
        /\ fenced' = IF how = "saved" THEN [fenced EXCEPT ![c] = old.gen + 1] ELSE fenced
        /\ UNCHANGED <<services, vault, checked, table, holder, sess, issued, consumed,
                       handed>>

\* resolve_provider_binding: `named` is the connection asked for, or the
\* owner's only connected one.
ResolveProviderBinding(t, c, named) ==
    LET owner == OwnerOf[c]
        mine  == { d \in Conns : /\ mem.rows[d] # Absent
                                 /\ OwnerOf[d] = owner
                                 /\ ProviderOf[d] = ProviderOf[c]
                                 /\ mem.rows[d].state = "connected" }
    IN  /\ sess[t].at = "idle"
        /\ owner \in Services => owner \in services
        /\ c \in mine
        /\ named \/ mine = {c}
        /\ sess' = [sess EXCEPT ![t].lease =
                      [owner |-> owner, conn |-> c, gen |-> mem.rows[c].gen]]
        /\ sess'[t].lease # sess[t].lease
        /\ UNCHANGED <<mem, disk, services, vault, checked, table, holder, issued,
                       consumed, handed, fenced>>

-----------------------------------------------------------------------------
(* Refresh *)

Refs(l) == { t \in Sessions : sess[t].lock = l }

\* refresh_provider_secret up to the lock: authorized first, then for_connection
\* takes the connection's lock, or puts a new one in the table.
RefreshAsk(t) ==
    LET lease == sess[t].lease
        c     == lease.conn
    IN  /\ sess[t].at = "idle"
        /\ lease # NoLease
        /\ vault # NoKey
        /\ LiveRecord(lease)
        /\ mem.rows[c].kind # "api_key"
        /\ \E l \in Locks :
              /\ IF table[c] # NoLock THEN l = table[c]
                 ELSE Refs(l) = {} /\ \A d \in Conns : table[d] # l
              /\ table' = [table EXCEPT ![c] = l]
              /\ sess' = [sess EXCEPT ![t].at = "waiting", ![t].lock = l]
        /\ UNCHANGED <<mem, disk, services, vault, checked, holder, issued, consumed,
                       handed, fenced>>

\* try_lock_for succeeds.
RefreshEnter(t) ==
    /\ sess[t].at = "waiting"
    /\ holder[sess[t].lock] = NoSession
    /\ holder' = [holder EXCEPT ![sess[t].lock] = t]
    /\ sess' = [sess EXCEPT ![t].at = "entered"]
    /\ UNCHANGED <<mem, disk, services, vault, checked, table, issued, consumed, handed,
                   fenced>>

\* Mutant of RefreshBusy: a waiter waits for as long as it takes.
RefreshNeverBusy(t) == sess[t].at = "waiting" /\ FALSE /\ UNCHANGED vars

\* try_lock_for runs out of time: connection_busy.
RefreshBusy(t) ==
    /\ sess[t].at = "waiting"
    /\ holder[sess[t].lock] # NoSession
    /\ sess' = [sess EXCEPT ![t].at = "leaving"]
    /\ UNCHANGED <<mem, disk, services, vault, checked, table, holder, issued, consumed,
                   handed, fenced>>

\* drop(guard) on the way out of refresh_locked.
Unlock(t) == holder' = [holder EXCEPT ![sess[t].lock] = NoSession]
Leaving(t) ==
    [sess EXCEPT ![t] = Resting("leaving", sess[t].lease, sess[t].lock)]

\* refresh_locked, steps 2 to 5, refused: the row is not live any more or its
\* seal does not open, and nothing changed.
RefreshRefused(t) ==
    LET row == mem.rows[sess[t].lease.conn]
    IN  /\ sess[t].at = "entered"
        /\ \/ ~LiveRecord(sess[t].lease)
           \/ row.rotation = NoRotation /\ ~Opens(row)
        /\ sess' = Leaving(t)
        /\ Unlock(t)
        /\ UNCHANGED <<mem, disk, services, vault, checked, table, issued, consumed,
                       handed, fenced>>

\* refresh_locked, step 4: a marker that no running refresh will clear.
RefreshFindsMarker(t, how) ==
    LET c   == sess[t].lease.conn
        row == mem.rows[c]
    IN  /\ sess[t].at = "entered"
        /\ LiveRecord(sess[t].lease)
        /\ row.rotation # NoRotation
        /\ PersistAfterMutation(With(c, Fenced(row)), how)
        /\ sess' = Leaving(t)
        /\ Unlock(t)
        /\ UNCHANGED <<services, vault, checked, table, issued, consumed, handed, fenced>>

\* The session with the stored version and secret in hand.
Asking(t) ==
    LET row == mem.rows[sess[t].lease.conn]
    IN  [sess EXCEPT ![t] =
           [at |-> "asking", lease |-> sess[t].lease, lock |-> sess[t].lock,
            version |-> row.version, secret |-> row.sealed.secret,
            answer |-> "none", fresh |-> 0]]

\* Mutant of MarkRotation: the rotation is remembered and not written.
MarkRotationInMemory(t, new, how) ==
    /\ mem' = new
    /\ disk' = disk
    /\ sess' = Asking(t)
    /\ UNCHANGED holder

\* The marker is durable before the provider sees the secret; when its write
\* fails the refresh ends.
MarkRotation(t, new, how) ==
    /\ PersistAfterMutation(new, how)
    /\ IF how = "saved"
         THEN sess' = Asking(t) /\ UNCHANGED holder
         ELSE sess' = Leaving(t) /\ Unlock(t)

\* refresh_locked, step 5.
RefreshMark(t, how) ==
    LET c   == sess[t].lease.conn
        row == mem.rows[c]
    IN  /\ sess[t].at = "entered"
        /\ LiveRecord(sess[t].lease)
        /\ row.rotation = NoRotation
        /\ Opens(row)
        /\ MarkRotation(t, With(c, [row EXCEPT !.rotation = row.version]), how)
        /\ UNCHANGED <<services, vault, checked, table, issued, consumed, handed, fenced>>

\* Step 6, the provider (external).  A rotation or a revocation spends the
\* secret; without a definite answer it may or may not have been spent.
ProviderAnswers(t, answer, spends) ==
    LET s == sess[t].secret
    IN  /\ sess[t].at = "asking"
        /\ answer # "none"
        /\ answer \in {"rotated", "unusable", "revoked"} => spends
        /\ answer = "unchanged" => ~spends
        /\ answer = "rotated" => Len(issued) < MaxSecrets
        /\ issued' = IF answer = "rotated" THEN Append(issued, sess[t].lease.conn)
                                          ELSE issued
        /\ consumed' = IF spends THEN consumed \cup {s} ELSE consumed
        /\ sess' = [sess EXCEPT ![t].at = "answered", ![t].answer = answer,
                                ![t].fresh = IF answer = "rotated" THEN Len(issued) + 1
                                                                   ELSE 0]
        /\ UNCHANGED <<mem, disk, services, vault, checked, table, holder, handed, fenced>>

\* Step 7: the row is still the one this refresh marked.
Ours(t) ==
    LET row == mem.rows[sess[t].lease.conn]
    IN  /\ row # Absent
        /\ row.state = "connected"
        /\ row.gen = sess[t].lease.gen
        /\ row.version = sess[t].version
        /\ row.rotation = sess[t].version

\* A disconnect or a replacement won: what the provider sent is discarded.
CommitSuperseded(t) ==
    /\ sess[t].at = "answered"
    /\ ~Ours(t)
    /\ sess' = Leaving(t)
    /\ Unlock(t)
    /\ UNCHANGED <<mem, disk, services, vault, checked, table, issued, consumed, handed,
                   fenced>>

CommitUnchanged(t, how) ==
    LET c == sess[t].lease.conn
    IN  /\ sess[t].at = "answered"
        /\ Ours(t)
        /\ sess[t].answer = "unchanged"
        /\ PersistAfterMutation(With(c, [mem.rows[c] EXCEPT !.rotation = NoRotation]), how)
        /\ sess' = Leaving(t)
        /\ Unlock(t)
        /\ UNCHANGED <<services, vault, checked, table, issued, consumed, handed, fenced>>

\* Revoked, unknown, or rotated to a secret that cannot be sealed.
CommitFence(t, how) ==
    LET c == sess[t].lease.conn
    IN  /\ sess[t].at = "answered"
        /\ Ours(t)
        /\ sess[t].answer \in {"revoked", "unknown", "unusable"}
        /\ PersistFence(With(c, Fenced(mem.rows[c])), how, disk)
        /\ sess' = Leaving(t)
        /\ Unlock(t)
        /\ UNCHANGED <<services, vault, checked, table, issued, consumed, handed, fenced>>

\* Mutant of Rotated: sealed before the version is bumped.
RotatedSealedFirst(row, secret) ==
    [row EXCEPT !.sealed = SealFor(row, secret), !.version = @ + 1,
                !.rotation = NoRotation]

\* The row after a rotation: sealed at the next version, marker cleared.
Rotated(row, secret) ==
    LET next == [row EXCEPT !.version = @ + 1]
    IN  [next EXCEPT !.sealed = SealFor(next, secret), !.rotation = NoRotation]

\* Mutant of CommitRotated: the access is handed out whatever the write did.
CommitRotatedEagerly(t, how, fence) ==
    LET c   == sess[t].lease.conn
        row == Rotated(mem.rows[c], sess[t].fresh)
    IN  /\ sess[t].at = "answered"
        /\ Ours(t)
        /\ sess[t].answer = "rotated"
        /\ handed' = [handed EXCEPT ![c] = [gen |-> row.gen, version |-> row.version]]
        /\ PersistFence(With(c, row), how, disk)
        /\ sess' = Leaving(t)
        /\ Unlock(t)
        /\ UNCHANGED <<services, vault, checked, table, issued, consumed, fenced>>

\* Step 8: the rotated secret is durable before the access is handed out; when
\* its write fails the connection is fenced, with a second write.
CommitRotated(t, how, fence) ==
    LET c   == sess[t].lease.conn
        row == Rotated(mem.rows[c], sess[t].fresh)
    IN  /\ sess[t].at = "answered"
        /\ Ours(t)
        /\ sess[t].answer = "rotated"
        /\ IF how = "saved"
             THEN /\ PersistAfterMutation(With(c, row), how)
                  /\ handed' = [handed EXCEPT ![c] = [gen |-> row.gen,
                                                     version |-> row.version]]
             ELSE /\ PersistFence(With(c, Fenced(mem.rows[c])), fence,
                                  IF how = "late" THEN With(c, row) ELSE disk)
                  /\ UNCHANGED handed
        /\ sess' = Leaving(t)
        /\ Unlock(t)
        /\ UNCHANGED <<services, vault, checked, table, issued, consumed, fenced>>

\* Mutant of Unused: the last holder test is dropped.
UnusedOrNot(c, t) == TRUE

\* Mutant of Unused: the test counts the releasing refresh itself.
UnusedButOne(c, t) == Refs(table[c]) = {}

\* strong_count = 1 once this refresh's reference is dropped.
Unused(c, t) == Refs(table[c]) \ {t} = {}

\* RefreshLocks::release
RefreshRelease(t) ==
    LET c == sess[t].lease.conn
    IN  /\ sess[t].at = "leaving"
        /\ sess' = [sess EXCEPT ![t] = Idle(sess[t].lease)]
        /\ table' = IF table[c] # NoLock /\ Unused(c, t)
                      THEN [table EXCEPT ![c] = NoLock] ELSE table
        /\ UNCHANGED <<mem, disk, services, vault, checked, holder, issued, consumed,
                       handed, fenced>>

-----------------------------------------------------------------------------
(* The process *)

\* Mutant of FenceUnfinishedRotations: the markers are cleared, nothing fenced.
ForgetRotations(st) ==
    [st EXCEPT !.rows = [c \in Conns |->
        IF st.rows[c] # Absent THEN [st.rows[c] EXCEPT !.rotation = NoRotation]
                               ELSE st.rows[c]]]

\* fence_unfinished_rotations
FenceUnfinishedRotations(st) ==
    [st EXCEPT !.rows = [c \in Conns |->
        IF st.rows[c] # Absent /\ st.rows[c].rotation # NoRotation
          THEN Fenced(st.rows[c]) ELSE st.rows[c]]]

\* The process dies and another opens the store, with any vault key.  Requests
\* that had reached the provider may still be answered there.  Leases survive.
Restart(key, lateSpent) ==
    LET state == FenceUnfinishedRotations(disk)
    IN  /\ mem' = state
        /\ disk' = state
        /\ services' = {}
        /\ vault' = key
        /\ checked' = {}
        /\ table' = [c \in Conns |-> NoLock]
        /\ holder' = [l \in Locks |-> NoSession]
        /\ sess' = [t \in Sessions |-> Idle(sess[t].lease)]
        /\ consumed' = consumed \cup lateSpent
        /\ UNCHANGED <<issued, handed, fenced>>

-----------------------------------------------------------------------------
OwnerSteps ==
    \/ \E u \in Users, how \in Writes : TransitionAccountStatus(u, how)
    \/ \E n \in Services : RegisterServiceNamespace(n) \/ RevokeServiceNamespace(n)

ConnectionSteps ==
    \E c \in Conns :
        \/ RequireOwner(c)
        \/ \E kind \in Kinds, how \in Writes : ConnectProvider(c, kind, how)
        \/ \E how \in Writes : DisconnectProvider(c, how)
        \/ \E t \in Sessions, named \in BOOLEAN : ResolveProviderBinding(t, c, named)

\* What a refresh does of itself once asked for.
RefreshStep(t) ==
    \/ RefreshEnter(t)
    \/ RefreshBusy(t)
    \/ RefreshRefused(t)
    \/ \E how \in Writes : RefreshFindsMarker(t, how)
    \/ \E how \in Writes : RefreshMark(t, how)
    \/ \E answer \in Answers, spends \in BOOLEAN : ProviderAnswers(t, answer, spends)
    \/ CommitSuperseded(t)
    \/ \E how \in Writes : CommitUnchanged(t, how) \/ CommitFence(t, how)
    \/ \E how \in Writes, fence \in Writes : CommitRotated(t, how, fence)
    \/ RefreshRelease(t)

Asked == { sess[t].secret : t \in { u \in Sessions : sess[u].at = "asking" } }

ProcessSteps ==
    \E key \in Keys \cup {NoKey}, lateSpent \in SUBSET Asked : Restart(key, lateSpent)

Next == \/ OwnerSteps
        \/ ConnectionSteps
        \/ \E t \in Sessions : RefreshAsk(t) \/ RefreshStep(t)
        \/ ProcessSteps

Spec == Init /\ [][Next]_vars

\* A refresh that can take its next step eventually does: its thread is not
\* suspended, and the exchange ends (the gateway's requests time out).
Fairness == \A t \in Sessions : WF_vars(RefreshStep(t))

FairSpec == Spec /\ Fairness

-----------------------------------------------------------------------------
(* Properties *)

\* A secret the provider consumed is never current without its rotation
\* marker, in memory or in the database, so that no failure or crash lets it be
\* presented again: "no failure after that point may leave it marked current".
SpentSecretIsMarked ==
    \A st \in {mem, disk} : \A c \in Conns :
        LET row == st.rows[c]
        IN  row # Absent /\ row.state = "connected" /\ row.sealed.secret \in consumed
              => row.rotation # NoRotation

\* The provider is never shown a secret it has consumed, nor one secret by two
\* refreshes at once.
NeverPresentedTwice ==
    \A t \in Sessions : sess[t].at = "asking" =>
        /\ sess[t].secret \notin consumed
        /\ \A u \in Sessions \ {t} :
              sess[u].at = "asking" => sess[u].secret # sess[t].secret

\* One refresh runs per connection, whatever locks come and go in the table.
Running(t) == sess[t].at \in {"entered", "asking", "answered"}
OneRefreshPerConnection ==
    \A t, u \in Sessions :
        t # u /\ Running(t) /\ Running(u) => sess[t].lease.conn # sess[u].lease.conn

\* RefreshLocks keeps a lock only while some refresh of its connection refers to
\* it: the table does not grow with every connection ever refreshed.
LockTableDrains ==
    \A c \in Conns : table[c] # NoLock =>
        \E t \in Sessions : sess[t].lock = table[c] /\ sess[t].lease.conn = c

\* Access handed out is backed by a durable secret at least as new.
AccessIsDurable ==
    \A c \in Conns : handed[c].gen # 0 =>
        LET row == disk.rows[c]
        IN  /\ row # Absent
            /\ \/ row.gen > handed[c].gen
               \/ row.gen = handed[c].gen /\ handed[c].version <= row.version

\* Every connected row has a seal that opens under the row's own binding, in
\* memory and after any restart with the same key.
ConnectedRowsOpen ==
    \A st \in {mem, disk} : \A c \in Conns :
        LET row == st.rows[c]
        IN  row # Absent =>
              /\ row.state = "connected" <=> row.sealed # NoSecret
              /\ row.sealed # NoSecret =>
                   /\ row.sealed.gen = row.gen
                   /\ row.sealed.version = row.version
                   /\ row.sealed.kind = row.kind

\* A generation that a successful connect or disconnect left behind is never
\* live again, across failed writes and restarts.
FencedGenerationsStayFenced ==
    \A st \in {mem, disk} : \A c \in Conns :
        fenced[c] # 0 => st.rows[c] # Absent /\ fenced[c] <= st.rows[c].gen

\* A connection fenced in memory is fenced after a restart too, unless a
\* connect or a disconnect is already in the database: "a rotation marker already
\* on disk makes it hold after a restart too" (persist_fence).
FenceSurvivesRestart ==
    \A c \in Conns :
        LET row == mem.rows[c]
        IN  row # Absent /\ row.state = "auth_required" /\ disk.rows[c].gen = row.gen
              => FenceUnfinishedRotations(disk).rows[c].state # "connected"

\* Every refresh ends, also one that waits behind another, and the table of locks
\* is never left with an entry that no refresh refers to.
RefreshEnds ==
    /\ \A t \in Sessions : sess[t].at # "idle" ~> sess[t].at = "idle"
    /\ []LockTableDrains
=============================================================================
