---------------------------- MODULE MirrorBackup ----------------------------
(* Backups and imports: the bundle a backup writes file by file, its check and *)
(* its registration; the restore of an archive into a target that may refuse   *)
(* any call; and the import of local repositories into git storage and then    *)
(* into the forge.  Commands may stop anywhere, and may overlap.               *)
EXTENDS Integers, Sequences, FiniteSets, SequencesExt

CONSTANTS
    Backups,        \* runs of the backup command, all on one path; each has an archive of its own
    Archives,       \* what a restore may be given: sequences of repositories
    MaxRestores,
    ImportPaths, Guarded, NotGit,   \* local paths; those inside the forge's own state; those not git
    RepoOf(_),      \* owner and name a path is imported under
    MirrorRefs,     \* refs of a mirrored repository
    MaxSource       \* bound on how often each of them changes

NoVersion == "none"
Torn == "torn"
Earlier == "earlier"            \* a bundle written before
Versions == Backups \cup {Earlier}

ASSUME MirrorAssumption ==
    /\ MaxRestores \in Nat /\ MaxSource \in Nat /\ MirrorRefs # {}
    /\ Guarded \cup NotGit \subseteq ImportPaths
    /\ {NoVersion, Torn, Earlier} \cap Backups = {}
    /\ NoVersion \notin ImportPaths

VARIABLES
    bundle, folder,     \* version of each file of the bundle; whether its directory is there
    backup,             \* where each backup is
    register,           \* where the one registration is
    catalog,            \* archives registered
    verified,           \* archives a check has passed
    overlapped,         \* whether two commands on the path ever ran at once
    target, restore, restores,      \* items the target has, how often; the restore running
    bares, forge, import,           \* the bare repositories; names in the forge; the import running
    source, copy, remote, sync      \* refs of a mirrored repository, its local copy, its destination; the sync running

bundleVars == <<bundle, folder, backup, register, catalog, verified, overlapped>>
restoreVars == <<target, restore, restores>>
importVars == <<bares, forge, import>>
syncVars == <<source, copy, remote, sync>>
mirrorVars == <<bundleVars, restoreVars, importVars, syncVars>>

----------------------------------------------------------------------------
(* The bundle *)

\* write_bundle writes the manifest last.
FileOrder == <<"marker", "archive", "repository files", "instructions", "manifest">>

Files == ToSet(FileOrder)

Working(b) == backup[b].at \notin {"idle", "over"}
SomeoneWorks == (\E b \in Backups : Working(b)) \/ register = "verified"

BackupAt(b, at) == backup' = [backup EXCEPT ![b].at = at]

\* remove_dir_all when the path is there, then create_dir_all.
StartBackup(b) ==
    /\ backup[b].at = "idle"
    /\ BackupAt(b, IF folder THEN "removing" ELSE "creating")
    /\ overlapped' = (overlapped \/ SomeoneWorks)
    /\ UNCHANGED <<bundle, folder, register, catalog, verified>>

RemoveFile(b, f) ==
    /\ backup[b].at = "removing" /\ bundle[f] # NoVersion
    /\ bundle' = [bundle EXCEPT ![f] = NoVersion]
    /\ UNCHANGED <<folder, backup, register, catalog, verified, overlapped>>

\* A directory that another run removed is an error.
RemoveFolder(b) ==
    /\ backup[b].at = "removing" /\ \A f \in Files : bundle[f] = NoVersion
    /\ folder' = FALSE
    /\ IF folder THEN BackupAt(b, "creating") ELSE BackupAt(b, "over")
    /\ UNCHANGED <<bundle, register, catalog, verified, overlapped>>

CreateFolder(b) ==
    /\ backup[b].at = "creating" /\ folder' = TRUE
    /\ BackupAt(b, "opening") /\ UNCHANGED <<bundle, register, catalog, verified, overlapped>>

\* fs::write empties the file, then fills it.
OpenFile(b) ==
    /\ backup[b].at = "opening"
    /\ IF folder THEN bundle' = [bundle EXCEPT ![FileOrder[backup[b].file]] = Torn] /\ BackupAt(b, "filling")
       ELSE BackupAt(b, "over") /\ UNCHANGED bundle
    /\ UNCHANGED <<folder, register, catalog, verified, overlapped>>

\* Two runs that fill one file may leave a mix; a file removed meanwhile stays so.
FillFile(b) ==
    LET k == backup[b].file
        f == FileOrder[k]
        shared == \E c \in Backups \ {b} : backup[c].at = "filling" /\ backup[c].file = k IN
    /\ backup[b].at = "filling"
    /\ \E v \in (IF bundle[f] = NoVersion THEN {NoVersion} ELSE IF shared THEN {b, Torn} ELSE {b}) :
          bundle' = [bundle EXCEPT ![f] = v]
    /\ backup' = [backup EXCEPT ![b] = IF k = Len(FileOrder) THEN [at |-> "over", file |-> k, whole |-> TRUE]
                                       ELSE [at |-> "opening", file |-> k + 1, whole |-> FALSE]]
    /\ UNCHANGED <<folder, register, catalog, verified, overlapped>>

StopBackup(b) == Working(b) /\ BackupAt(b, "over") /\ UNCHANGED <<bundle, folder, register, catalog, verified, overlapped>>

\* read_bundle: the marker says the same in every version.
ReadBundle == bundle["marker"] \in Versions /\ bundle["archive"] \in Versions

\* Mutant of VerifyBundle: only the digest is compared.
VerifyDigest == ReadBundle /\ bundle["manifest"] = bundle["archive"]

\* verify_bundle: the manifest's digest is the archive's, and its files exist.
VerifyBundle ==
    /\ ReadBundle /\ bundle["manifest"] \in Versions
    /\ bundle["archive"] = bundle["manifest"]
    /\ \A f \in Files : bundle[f] # NoVersion

\* register_bundle checks the bundle, and reads it again for the entry.
RegisterVerify ==
    /\ register = "idle" /\ VerifyBundle
    /\ register' = "verified" /\ verified' = verified \cup {bundle["archive"]}
    /\ overlapped' = (overlapped \/ SomeoneWorks)
    /\ UNCHANGED <<bundle, folder, backup, catalog>>

RegisterRead ==
    /\ register = "verified" /\ register' = "over"
    /\ catalog' = IF ReadBundle THEN catalog \cup {bundle["archive"]} ELSE catalog
    /\ UNCHANGED <<bundle, folder, backup, verified, overlapped>>

BundleNext ==
    /\ \/ \E b \in Backups : \/ StartBackup(b) \/ RemoveFolder(b) \/ CreateFolder(b) \/ OpenFile(b)
                             \/ FillFile(b) \/ StopBackup(b) \/ \E f \in Files : RemoveFile(b, f)
       \/ RegisterVerify \/ RegisterRead
    /\ UNCHANGED <<restoreVars, importVars, syncVars>>

----------------------------------------------------------------------------
(* Restore.  An item is [kind, nth]; webhooks and app installations are planned *)
(* and not created.                                                             *)
Planned == {"webhook", "app"}
Kinds == {"branch", "issue"} \cup Planned
Items == [kind : Kinds, nth : Nat]

ASSUME ArchivesAreLists ==
    \A a \in Archives : a \in Seq(ToSet(a)) /\ \A r \in ToSet(a) : r.items \in Seq(Items)

NoRun == [at |-> "none"]
ItemKey(name, item) == <<name, item.kind, item.nth>>
Reached(name) == target[<<name>>] > 0

\* ensure_unique, of every kind.
Unique(items) == IsInjective(items)

BeginRestore(a, dry, strict) ==
    /\ restore.at \in {"none", "done", "failed"} /\ restores < MaxRestores
    /\ restores' = restores + 1
    /\ restore' = [at |-> "repository", archive |-> a, dry |-> dry, strict |-> strict, repo |-> 1, item |-> 1,
                   commands |-> <<>>, blockers |-> {}, before |-> target]
    /\ UNCHANGED target

\* The next repository: refused as a duplicate, skipped as one the target has,
\* or created.
RestoreRepository(refused) ==
    LET r == restore
        a == r.archive[r.repo]
        again == \E i \in 1 .. r.repo - 1 : r.archive[i].name = a.name IN
    /\ r.at = "repository" /\ r.repo <= Len(r.archive)
    /\ CASE again \/ (~(r.strict /\ Reached(a.name)) /\ ~Unique(a.items)) ->
              restore' = [r EXCEPT !.at = "failed"] /\ UNCHANGED target
         [] ~again /\ r.strict /\ Reached(a.name) ->
              restore' = [r EXCEPT !.repo = @ + 1, !.blockers = @ \cup {a.name}] /\ UNCHANGED target
         [] OTHER ->
              /\ restore' = [r EXCEPT !.at = IF refused /\ ~r.dry THEN "failed" ELSE "items",
                                      !.commands = Append(@, <<a.name>>), !.item = 1]
              /\ target' = IF r.dry \/ refused THEN target ELSE [target EXCEPT ![<<a.name>>] = @ + 1]
    /\ UNCHANGED restores

\* Mutant of Creates: a dry run creates items.
CreatesAnyhow(dry, kind) == kind \notin Planned

Creates(dry, kind) == ~dry /\ kind \notin Planned

RestoreItem(refused) ==
    LET r == restore
        a == r.archive[r.repo]
        creates == Creates(r.dry, a.items[r.item].kind)
        key == ItemKey(a.name, a.items[r.item]) IN
    /\ r.at = "items" /\ r.item <= Len(a.items)
    /\ restore' = [r EXCEPT !.at = IF creates /\ refused THEN "failed" ELSE "items",
                            !.commands = Append(@, key), !.item = @ + 1]
    /\ target' = IF creates /\ ~refused THEN [target EXCEPT ![key] = @ + 1] ELSE target
    /\ UNCHANGED restores

RepositoryDone ==
    /\ restore.at = "items" /\ restore.item > Len(restore.archive[restore.repo].items)
    /\ restore' = [restore EXCEPT !.at = "repository", !.repo = @ + 1]
    /\ UNCHANGED <<target, restores>>

RestoreDone ==
    /\ restore.at = "repository" /\ restore.repo > Len(restore.archive)
    /\ restore' = [restore EXCEPT !.at = "done"]
    /\ UNCHANGED <<target, restores>>

RestoreNext ==
    /\ \/ \E a \in Archives, dry, strict \in BOOLEAN : BeginRestore(a, dry, strict)
       \/ \E refused \in BOOLEAN : RestoreRepository(refused) \/ RestoreItem(refused)
       \/ RepositoryDone \/ RestoreDone
    /\ UNCHANGED <<bundleVars, importVars, syncVars>>

\* compare_archives counts what each repository has of each kind but app
\* installations, in the archive and in an export of the target.
Counted == Kinds \ {"app"}
Count(a, kind) == Cardinality({i \in DOMAIN a.items : a.items[i].kind = kind})
TargetCount(name, kind) ==
    LET keys == {k \in DOMAIN target : Len(k) = 3 /\ k[1] = name /\ k[2] = kind}
    IN  Cardinality(UNION {{k} \X (1 .. target[k]) : k \in keys})

\* The kinds a repository has another number of in the target.
Deltas(a) == {kind \in Counted : Count(a, kind) # TargetCount(a.name, kind)}

\* The repositories that had was given and the archive does not name.
Others(archive, had) ==
    {k \in DOMAIN had : Len(k) = 1 /\ had[k] > 0 /\ \A a \in ToSet(archive) : a.name # k[1]}

Drifts(archive) ==
    \/ \E a \in ToSet(archive) : ~Reached(a.name) \/ Deltas(a) # {}
    \/ Others(archive, target) # {}

----------------------------------------------------------------------------
(* Import *)
NoImport == [at |-> "none"]

\* A clone cut short has neither refs nor, if it was cut early, an origin.
NoBare == [is |-> "absent", origin |-> NoVersion]
Whole(p) == [is |-> "whole", origin |-> p]
CutShort(p) == {[is |-> "cut", origin |-> o] : o \in {p, NoVersion}}

\* existing_import_of asks each repository for its origin, whole or not.
ExistingImportOf(p) == {r \in DOMAIN bares : bares[r].origin = p}

BeginImport(paths, dry, force) ==
    /\ import.at = "none"
    /\ import' = [at |-> "path", paths |-> paths, dry |-> dry, force |-> force, next |-> 1,
                  imported |-> {}, fetched |-> {}, skipped |-> {}, before |-> <<bares, forge>>]
    /\ UNCHANGED <<bares, forge>>

\* forbidden_import_root, and classify_git_dir.
Forbidden(p) == p \in Guarded
IsGitDir(p) == p \notin NotGit

\* A dry run reports a path as imported here.
CheckPath ==
    LET p == import.paths[import.next]
        skip == Forbidden(p) \/ ~IsGitDir(p) \/ (~import.force /\ ExistingImportOf(p) # {}) IN
    /\ import.at = "path" /\ import.next <= Len(import.paths)
    /\ import' = CASE skip -> [import EXCEPT !.next = @ + 1, !.skipped = @ \cup {p}]
                   [] ~skip /\ import.dry -> [import EXCEPT !.next = @ + 1, !.imported = @ \cup {p}]
                   [] OTHER -> [import EXCEPT !.at = "git"]
    /\ UNCHANGED <<bares, forge>>

\* What git and import_repo leave of a repository that was b: a clone, or a fetch
\* from the repository's own origin, if it has one.  A clone may be killed, and
\* either may be followed by a step that fails.
Fetched(b) == IF b.origin = NoVersion THEN b ELSE Whole(b.origin)
Left(b, p, failed) ==
    CASE b = NoBare /\ failed -> {NoBare, Whole(p)} \cup CutShort(p)
      [] b = NoBare /\ ~failed -> {Whole(p)}
      [] b # NoBare /\ failed -> {b, Fetched(b)}
      [] OTHER -> {Fetched(b)}

\* import_repo.
ImportRepo(refused) ==
    LET p == import.paths[import.next]
        r == RepoOf(p) IN
    /\ import.at = "git"
    /\ import' = IF refused THEN [import EXCEPT !.at = "failed"]
                 ELSE IF bares[r] = NoBare THEN [import EXCEPT !.at = "forge"]
                 ELSE [import EXCEPT !.at = "forge", !.fetched = @ \cup {p}]
    /\ \E b \in Left(bares[r], p, refused) : bares' = [bares EXCEPT ![r] = b]
    /\ UNCHANGED forge

\* Mutant of Registers: any error of create_repository is taken for a conflict.
RegistersAnyhow(r, refused) == TRUE

\* create_repository: a conflict is the repository being there.
Registers(r, refused) == r \in forge \/ ~refused

RegisterRepository(refused) ==
    LET p == import.paths[import.next]
        r == RepoOf(p) IN
    /\ import.at = "forge"
    /\ forge' = IF refused THEN forge ELSE forge \cup {r}
    /\ import' = IF Registers(r, refused)
                 THEN [import EXCEPT !.at = "path", !.next = @ + 1, !.imported = @ \cup {p}]
                 ELSE [import EXCEPT !.at = "failed"]
    /\ UNCHANGED bares

ImportDone ==
    /\ import.at = "path" /\ import.next > Len(import.paths)
    /\ import' = [import EXCEPT !.at = "done"] /\ UNCHANGED <<bares, forge>>

\* The command ends, or stops anywhere, and may be run again.
ImportEnds == import.at # "none" /\ import' = NoImport /\ UNCHANGED <<bares, forge>>

ImportNext ==
    /\ \/ \E paths \in UNION {[1 .. n -> ImportPaths] : n \in 1 .. 2}, dry, force \in BOOLEAN : BeginImport(paths, dry, force)
       \/ CheckPath \/ ImportDone \/ ImportEnds
       \/ \E refused \in BOOLEAN : ImportRepo(refused) \/ RegisterRepository(refused)
    /\ UNCHANGED <<bundleVars, restoreVars, syncVars>>

----------------------------------------------------------------------------
(* Mirroring.  A ref is the number of times it changed; 0 is a ref that is not  *)
(* there.                                                                      *)
NoSync == [at |-> "none"]
NoCopy == <<>>                              \* nothing at the local path
NoRefs == [r \in MirrorRefs |-> 0]

\* plan_git_mirror.
PlanGitMirror(mode) ==
    CASE mode = "clone_if_missing" -> <<"clone">>
      [] mode = "fetch_only" -> <<"fetch">>
      [] mode = "push_only" -> <<"push">>
      [] mode = "full_sync" -> <<"clone", "fetch", "push">>

SourceChanges(r) ==
    /\ source[r] < MaxSource
    /\ source' = [source EXCEPT ![r] = @ + 1]
    /\ UNCHANGED <<copy, remote, sync>>

\* The local path is the operator's to clear, between runs.
ClearPath ==
    /\ sync.at = "none" /\ copy # NoCopy
    /\ copy' = NoCopy /\ UNCHANGED <<source, remote, sync>>

BeginSync(mode) ==
    /\ sync.at = "none"
    /\ sync' = [at |-> "running", mode |-> mode, todo |-> PlanGitMirror(mode), from |-> <<source, copy>>]
    /\ UNCHANGED <<source, copy, remote>>

\* What git accepts: a clone wants a path with nothing in it, a push a repository;
\* fetch_command gives git fetch an option it does not have.
Possible(command) ==
    \/ command = "clone" /\ copy = NoCopy
    \/ command = "push" /\ copy # NoCopy

\* What git does.  A clone writes its refs at the end, so that one that is killed
\* leaves a repository with none; a push sets ref by ref, those the copy does not
\* have included, and may be refused any of them.
GitMirrors(command, refused) ==
    \/ /\ command = "clone"
       /\ copy' \in IF refused THEN {NoCopy, NoRefs} ELSE {source}
       /\ UNCHANGED remote
    \/ /\ command = "push"
       /\ \E taken \in SUBSET MirrorRefs :
             /\ refused \/ taken = MirrorRefs
             /\ remote' = [r \in MirrorRefs |-> IF r \in taken THEN copy[r] ELSE remote[r]]
       /\ UNCHANGED copy

\* Mutant of AfterCommand: a command that failed is passed over.
AfterFailure(succeeded) == [sync EXCEPT !.todo = Tail(@)]

AfterCommand(succeeded) ==
    [sync EXCEPT !.todo = Tail(@), !.at = IF succeeded THEN "running" ELSE "failed"]

\* execute_git_mirror_plan: in order, up to the first that fails.
RunCommand(refused) ==
    /\ sync.at = "running" /\ sync.todo # <<>>
    /\ LET command == Head(sync.todo) IN
       /\ IF Possible(command) THEN GitMirrors(command, refused) ELSE UNCHANGED <<copy, remote>>
       /\ sync' = AfterCommand(Possible(command) /\ ~refused)
    /\ UNCHANGED source

SyncDone == sync.at = "running" /\ sync.todo = <<>> /\ sync' = [sync EXCEPT !.at = "done"] /\ UNCHANGED <<source, copy, remote>>

\* Somebody looks at the outcome, or the run is stopped.
SyncEnds == sync.at # "none" /\ sync' = NoSync /\ UNCHANGED <<source, copy, remote>>

SyncNext ==
    /\ \/ (\E r \in MirrorRefs : SourceChanges(r)) \/ ClearPath \/ SyncDone \/ SyncEnds
       \/ \E mode \in {"clone_if_missing", "fetch_only", "push_only", "full_sync"} : BeginSync(mode)
       \/ \E refused \in BOOLEAN : RunCommand(refused)
    /\ UNCHANGED <<bundleVars, restoreVars, importVars>>

----------------------------------------------------------------------------
TargetKeys ==
    UNION {{<<a.name>>} \cup {ItemKey(a.name, i) : i \in ToSet(a.items)} : a \in UNION {ToSet(s) : s \in Archives}}

MirrorInit ==
    /\ bundle = [f \in Files |-> Earlier] /\ folder = TRUE
    /\ backup = [b \in Backups |-> [at |-> "idle", file |-> 1, whole |-> FALSE]]
    /\ register = "idle" /\ catalog = {} /\ verified = {} /\ overlapped = FALSE
    /\ target = [k \in TargetKeys |-> 0] /\ restore = NoRun /\ restores = 0
    /\ bares = [r \in {RepoOf(p) : p \in ImportPaths} |-> NoBare] /\ forge = {} /\ import = NoImport
    /\ source = [r \in MirrorRefs |-> 1] /\ copy = NoCopy /\ remote = NoRefs /\ sync = NoSync

MirrorNext == BundleNext \/ RestoreNext \/ ImportNext \/ SyncNext

MirrorSpec == MirrorInit /\ [][MirrorNext]_mirrorVars

----------------------------------------------------------------------------
(* Where commands never overlapped, though any of them may have stopped        *)
(* anywhere: every file of a bundle that passes its check is of the archive    *)
(* its manifest names; a backup that ended passes, unless a later run that     *)
(* stopped had begun to remove it; and only checked archives are registered    *)
(* (write_bundle, verify_bundle, register_bundle).                             *)
VerifiedBundleIsWhole ==
    ~overlapped =>
        /\ VerifyBundle => \A f \in Files : bundle[f] = bundle["manifest"]
        /\ \A b \in Backups : backup[b].whole /\ bundle["marker"] = b /\ ~SomeoneWorks
              => VerifyBundle \/ \E c \in Backups : backup[c].at = "over" /\ ~backup[c].whole
        /\ catalog \subseteq verified

\* What a run prints of a repository it was not blocked from, and of all of an archive.
Prints(a, blockers) ==
    IF a.name \in blockers THEN <<>>
    ELSE <<<<a.name>>>> \o [i \in DOMAIN a.items |-> ItemKey(a.name, a.items[i])]

Plan(r) ==
    LET plan[n \in 0 .. Len(r.archive)] ==
            IF n = 0 THEN <<>> ELSE plan[n - 1] \o Prints(r.archive[n], r.blockers)
    IN  plan[Len(r.archive)]

(* A restore that ends without an error created what it printed, once each,    *)
(* and nothing else; a dry run creates nothing (plan_restore).                 *)
RestoreCreates ==
    /\ restore.at = "done" =>
          \A k \in DOMAIN target :
             target[k] = restore.before[k] + (IF ~restore.dry /\ k \in ToSet(restore.commands)
                                                 /\ (Len(k) = 1 \/ k[2] \notin Planned) THEN 1 ELSE 0)
    /\ restore.at # "none" /\ restore.dry => target = restore.before

(* A restore that ends did what its dry run prints: the repositories it was    *)
(* not blocked from and all their items.  Into a target that had none of the   *)
(* archive's repositories it leaves no drift but the webhooks, which are        *)
(* printed and not created, and what else the target had (plan_restore,        *)
(* compare_archives).                                                          *)
RestoreIsWhole ==
    /\ RestoreCreates
    /\ restore.at = "done" =>
          /\ restore.commands = Plan(restore)
          /\ restore.blockers = {} /\ ~restore.dry /\ restore.strict =>
                /\ \A a \in ToSet(restore.archive) : Deltas(a) = IF Count(a, "webhook") > 0 THEN {"webhook"} ELSE {}
                /\ Drifts(restore.archive) <=> \/ \E a \in ToSet(restore.archive) : Count(a, "webhook") > 0
                                               \/ Others(restore.archive, restore.before) # {}

(* A path reported as imported has its repository in the forge and, cloned     *)
(* from that path, in git storage; one reported as fetched has a repository    *)
(* there, which is whole if it has an origin to fetch from: a clone killed     *)
(* before git wrote its origin is taken as it is.  A dry run changes neither   *)
(* (import_local_git_dirs, import_repo).                                       *)
ImportIsWhole ==
    import.at # "none" =>
        IF import.dry THEN <<bares, forge>> = import.before
        ELSE \A p \in import.imported :
                LET b == bares[RepoOf(p)] IN
                /\ RepoOf(p) \in forge
                /\ b = Whole(p) \/ (p \in import.fetched /\ b # NoBare /\ (b.origin # NoVersion => b.is = "whole"))

(* A sync that ended without an error took along what it was to: after a       *)
(* clone the copy has every ref as it was when the run began, or later, and    *)
(* after a push the destination has the refs of the copy and no others,        *)
(* whatever was killed or refused in runs before it.  The destination is never *)
(* ahead of the source (execute_git_mirror_plan).                              *)
SyncTakesAlong ==
    /\ sync.at = "done" =>
          /\ sync.mode # "push_only" => copy # NoCopy /\ \A r \in MirrorRefs : copy[r] >= sync.from[1][r]
          /\ sync.mode \in {"push_only", "full_sync"} => remote = copy
          /\ sync.mode = "push_only" => copy = sync.from[2]
    /\ \A r \in MirrorRefs : remote[r] <= source[r]

(* What a command that stopped, was refused or ran over another's leavings     *)
(* reports as done is done: bundles, restores, imports and syncs alike.        *)
MirrorsAreWhole == VerifiedBundleIsWhole /\ RestoreIsWhole /\ ImportIsWhole /\ SyncTakesAlong
=============================================================================
