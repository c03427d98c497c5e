------------------------------ MODULE GitRefs ------------------------------
(***************************************************************************)
(* The refs of one bare repository of jeryu-gitd and everything that may    *)
(* move them: RefService::update_ref and merge_pull, a receive-pack over    *)
(* smart HTTP or SSH with the pre-receive hook, and the mirror fetch of an  *)
(* import.  Every git invocation is one step, because git's own ref lock    *)
(* makes it one; between two invocations any other writer may run.          *)
(*                                                                          *)
(* Refs, commits and actors are small sets.  Ancestry is the reflexive      *)
(* relation git's merge-base --is-ancestor answers, MergeOf the commit      *)
(* merge-tree and commit-tree build, or Conflict.  Nothing in the program   *)
(* creates a symbolic ref under refs/, so resolve_symbolic_ref is the       *)
(* identity here.                                                           *)
(***************************************************************************)
EXTENDS Integers, FiniteSets

CONSTANTS
    Writers,        \* threads serving requests that may write refs
    Oids,           \* commits of the repository
    Ancestor,       \* pairs <<old, new>>: old is an ancestor of new, reflexive
    MergeOf,        \* the merge commit of a pair, or Conflict
    Conflict,       \* merge-tree exits with 1
    MainRef,        \* refs/heads/main
    Heads, Tags,    \* the other branches, and the tags
    MaxRequests     \* bound on the requests of one behaviour

Zero == "0000"
NoOid == "none"
RefNames == {MainRef} \cup Heads \cup Tags
Values == Oids \cup {Zero}
Mirror == "system:mirror"
Actors == {Mirror, "user"}

ASSUME GitRefsAssumption ==
    /\ MainRef \notin Heads \cup Tags /\ Heads \cap Tags = {}
    /\ Ancestor \subseteq Oids \X Oids
    /\ \A o \in Oids : <<o, o>> \in Ancestor
    /\ MergeOf \in [Oids \X Oids -> Oids \cup {Conflict}]
    /\ \A p \in Oids \X Oids : MergeOf[p] \in Oids => <<p[1], MergeOf[p]>> \in Ancestor
    /\ {Zero, NoOid} \cap Oids = {}

VARIABLES
    refs,       \* the value of every ref, Zero when it does not exist
    archived,   \* the marker file jeryu/archived
    writer,     \* what each thread is doing
    pastCheck,  \* threads past their last archive check when it was archived
    unrecorded, \* refs moved since the push marker was last written
    requests    \* requests started

gitVars == <<refs, archived, writer, pastCheck, unrecorded, requests>>

NoSnapshot == [r \in {} |-> Zero]
IdleWriter == [at |-> "idle", ref |-> MainRef, old |-> NoOid, new |-> Zero,
               actor |-> "user", before |-> NoSnapshot]

----------------------------------------------------------------------------
(* Protection rules. *)

IsAncestor(old, new) == <<old, new>> \in Ancestor

\* NoOid is None: no old value was declared.
Operation(old, new) ==
    IF new = Zero THEN "delete" ELSE IF old # NoOid THEN "update" ELSE "create"

\* A tag update always forces; a branch update forces unless it fast-forwards.
ForceUpdate(ref, old, new) ==
    /\ Operation(old, new) = "update"
    /\ old # Zero
    /\ \/ ref \in Tags
       \/ ref \in Heads \cup {MainRef} /\ ~IsAncestor(old, new)

\* The default rules: main denies delete and force except to the mirror, a
\* tag denies both to everyone.
Evaluate(ref, actor, operation, force) ==
    \/ ref \in Heads
    \/ ref = MainRef /\ actor = Mirror
    \/ operation # "delete" /\ ~force

\* git update-ref <ref> <new> <old>: the compare-and-swap of one ref, where
\* an undeclared old value means that the ref must not exist.
Expected(old) == IF old = NoOid THEN Zero ELSE old

\* Mutant of MovesRef: update-ref without the old value.
MovesRefBlindly(ref, old, new) == refs' = [refs EXCEPT ![ref] = new]

MovesRef(ref, old, new) ==
    refs[ref] = Expected(old) /\ refs' = [refs EXCEPT ![ref] = new]

----------------------------------------------------------------------------
GitInit ==
    /\ \E o \in Oids : \E t \in {Zero, o} : refs = [r \in RefNames |-> IF r \in Tags THEN t ELSE o]
    /\ archived = FALSE
    /\ writer = [w \in Writers |-> IdleWriter]
    /\ pastCheck = {}
    /\ unrecorded = FALSE
    /\ requests = 0

Start(w) == writer[w].at = "idle" /\ requests < MaxRequests /\ requests' = requests + 1

Reply(w) == writer' = [writer EXCEPT ![w] = IdleWriter]

\* update_ref up to the git invocation: the archive check, then the rules on
\* the declared change.  A refused request changes nothing.
UpdateRefCheck(w, ref, old, new, actor) ==
    /\ ~archived
    /\ Evaluate(ref, actor, Operation(old, new), ForceUpdate(ref, old, new))
    /\ writer' = [writer EXCEPT ![w] = [IdleWriter EXCEPT !.at = "checked", !.ref = ref,
                      !.old = old, !.new = new, !.actor = actor]]
    /\ UNCHANGED <<refs, archived, pastCheck, unrecorded>>

UpdateRef(w) ==
    /\ Start(w)
    /\ \E ref \in RefNames, old \in Values \cup {NoOid}, new \in Values, actor \in Actors :
           UpdateRefCheck(w, ref, old, new, actor)

\* merge_pull: a fast-forward lands the head itself, anything else a merge
\* commit when the repository does not insist on a fast-forward.
MergeResult(base, head, requireFf) ==
    IF IsAncestor(base, head) THEN head
    ELSE IF requireFf THEN Conflict ELSE MergeOf[<<base, head>>]

MergePull(w) ==
    /\ Start(w)
    /\ ~archived
    /\ \E base, head \in Oids, requireFf \in BOOLEAN :
           /\ MergeResult(base, head, requireFf) # Conflict
           /\ writer' = [writer EXCEPT ![w] = [IdleWriter EXCEPT !.at = "merging", !.old = base,
                             !.new = MergeResult(base, head, requireFf)]]
    /\ UNCHANGED <<refs, archived, pastCheck, unrecorded>>

\* merge_pull ends in update_ref, which checks the archive marker again.
MergeUpdateRef(w) ==
    /\ writer[w].at = "merging"
    /\ \/ UpdateRefCheck(w, writer[w].ref, writer[w].old, writer[w].new, "user")
       \/ archived /\ Reply(w) /\ UNCHANGED <<refs, archived, pastCheck, unrecorded>>
    /\ UNCHANGED requests

\* The git update-ref of a checked change: it moves the ref or fails.
WriteRef(w) ==
    LET c == writer[w] IN
    /\ c.at = "checked"
    /\ \/ /\ MovesRef(c.ref, c.old, c.new)
          /\ unrecorded' = TRUE
          /\ writer' = [writer EXCEPT ![w].at = "moved"]
       \/ refs[c.ref] # Expected(c.old) /\ Reply(w) /\ UNCHANGED <<refs, unrecorded>>
    /\ pastCheck' = pastCheck \ {w}
    /\ UNCHANGED <<archived, requests>>

\* record_push: marker and receipt.  It can fail, and the request then
\* answers an error although its ref has moved.
RecordPush(w) ==
    /\ writer[w].at = "moved"
    /\ unrecorded' \in {FALSE, unrecorded}
    /\ Reply(w)
    /\ UNCHANGED <<refs, archived, pastCheck, requests>>

----------------------------------------------------------------------------
\* A receive-pack up to the spawn of git; begin_push snapshots the refs.
SpawnReceivePack(w, ref, old, new) ==
    /\ Start(w)
    /\ ~archived
    /\ writer' = [writer EXCEPT ![w] = [IdleWriter EXCEPT !.at = "receiving", !.ref = ref,
                      !.old = old, !.new = new, !.before = refs]]
    /\ UNCHANGED <<refs, archived, pastCheck, unrecorded>>

\* Smart HTTP reads the commands and refuses main; SSH leaves that to the hook.
BeginPush(w) ==
    \E ref \in RefNames \ {MainRef}, old, new \in Values : SpawnReceivePack(w, ref, old, new)
BeginSshPush(w) ==
    \E ref \in RefNames, old, new \in Values : SpawnReceivePack(w, ref, old, new)

\* Mutant of HookAccepts: the marker was only looked at before git was spawned.
HookTrustsRequest(c) == c.ref # MainRef /\ ~(c.ref \in Tags /\ c.old # Zero)

\* The pre-receive hook and the guard it runs: archive marker, main, tags
\* that already exist.  A refusal ends the push with nothing moved.
HookAccepts(c) ==
    /\ ~archived
    /\ c.ref # MainRef
    /\ ~(c.ref \in Tags /\ c.old # Zero)

PreReceive(w) ==
    /\ writer[w].at = "receiving"
    /\ IF HookAccepts(writer[w])
         THEN writer' = [writer EXCEPT ![w].at = "accepted"]
         ELSE writer' = [writer EXCEPT ![w].at = "received"]
    /\ UNCHANGED <<refs, archived, pastCheck, unrecorded, requests>>

\* git receive-pack updates the ref against the old value the client sent,
\* and exits normally whether or not the ref moved.
ReceivePack(w) ==
    LET c == writer[w] IN
    /\ c.at = "accepted"
    /\ \/ MovesRef(c.ref, c.old, c.new) /\ unrecorded' = TRUE
       \/ refs[c.ref] # c.old /\ UNCHANGED <<refs, unrecorded>>
    /\ writer' = [writer EXCEPT ![w].at = "received"]
    /\ pastCheck' = pastCheck \ {w}
    /\ UNCHANGED <<archived, requests>>

\* finish_push: record the push when the refs differ from the snapshot.
FinishPush(w) ==
    /\ writer[w].at = "received"
    /\ unrecorded' = (unrecorded /\ refs = writer[w].before)
    /\ Reply(w)
    /\ UNCHANGED <<refs, archived, pastCheck, requests>>

\* The exchange fails after git ran (the client went away, or the RPC ended in
\* an error): the request ends before finish_push, whatever git had moved.
AbortPush(w) ==
    /\ writer[w].at = "received"
    /\ Reply(w)
    /\ UNCHANGED <<refs, archived, pastCheck, unrecorded, requests>>

----------------------------------------------------------------------------
\* set_archived writes or removes the marker; it waits for no writer.
SetArchived ==
    /\ requests < MaxRequests /\ requests' = requests + 1
    /\ archived' = ~archived
    /\ pastCheck' = IF archived' THEN {w \in Writers : writer[w].at \in {"checked", "accepted"}}
                    ELSE {}
    /\ UNCHANGED <<refs, writer, unrecorded>>

\* import_repo on an existing repository: git remote update --prune replaces
\* the refs by the source's, and reads neither rules nor marker.
MirrorFetch ==
    /\ requests < MaxRequests /\ requests' = requests + 1
    /\ \E o \in Oids : refs' = [r \in RefNames |-> IF r = MainRef THEN o ELSE Zero]
    /\ UNCHANGED <<archived, writer, pastCheck, unrecorded>>

GitNext ==
    \/ \E w \in Writers :
          \/ UpdateRef(w) \/ MergePull(w) \/ MergeUpdateRef(w) \/ WriteRef(w)
          \/ RecordPush(w) \/ BeginPush(w) \/ BeginSshPush(w) \/ PreReceive(w) \/ ReceivePack(w)
          \/ FinishPush(w) \/ AbortPush(w)
    \/ SetArchived
    \/ MirrorFetch

GitSpec == GitInit /\ [][GitNext]_gitVars

----------------------------------------------------------------------------
GitTypeOK ==
    /\ refs \in [RefNames -> Values]
    /\ archived \in BOOLEAN /\ unrecorded \in BOOLEAN
    /\ pastCheck \subseteq Writers
    /\ requests \in 0 .. MaxRequests
    /\ \A w \in Writers : writer[w].ref \in RefNames /\ writer[w].new \in Values

\* The thread whose git process moves a ref in this step.
Mover(w) == writer[w].at \in {"checked", "accepted"} /\ writer'[w] # writer[w]

\* Main only ever advances to a descendant and is never deleted, and a tag that
\* exists never changes.  The mirror, as the bypass actor and as the fetch of an
\* import, is exempt.
ProtectedRefsAdvance ==
    \/ MirrorFetch
    \/ \E w \in Writers :
          /\ Mover(w)
          /\ \/ writer[w].ref = MainRef /\ writer[w].actor = Mirror
             \/ /\ refs[MainRef] \in Oids => IsAncestor(refs[MainRef], refs'[MainRef])
                /\ \A t \in Tags : refs[t] # Zero => refs'[t] = refs[t]

\* Once the archived marker is there, only a request already past update_ref's
\* check or past the pre-receive hook still moves a ref, and no request does so
\* twice.
ArchivedIsFrozen == archived => MirrorFetch \/ \E w \in pastCheck : Mover(w)

(* Whatever the order in which requests check the rules, compute the merge,    *)
(* pass the hook and invoke git, no interleaving of update_ref, merge_pull,    *)
(* pushes and archiving loses a commit of a protected ref, or moves a ref of   *)
(* a repository whose archiving the request could still have seen.             *)
RefsMoveByTheRules == [][refs' # refs => ProtectedRefsAdvance /\ ArchivedIsFrozen]_gitVars
=============================================================================
