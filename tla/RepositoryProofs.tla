-------------------------- MODULE RepositoryProofs --------------------------
(* A repository is whole through every move, delete and write, for any number  *)
(* of repositories, names, transfers and callers: RepositoriesStayWhole; and   *)
(* the trail of each bug is true: BugTrailIsTrue, in the second half.          *)
(*                                                                             *)
(* The four parts rest on one fact about the registry, that a repository is at *)
(* one slug at most.  The rows and the aliases follow from what is inserted    *)
(* under a slug and what every move re-keys.  The directories need more: each  *)
(* is at one place, the repository a caller has still to make a directory for  *)
(* has none, and a directory between the two phases of a transfer is at the    *)
(* destination while its repository is still at the source.                    *)
(*                                                                             *)
(* Of a bug, a trail is added to and never taken from, and a bug of this       *)
(* instant has not been triaged, so that a report submitted again at its own   *)
(* instant cannot undo a triage.                                               *)
EXTENDS Repositories, BugTracker, FiniteSetTheorems, TLAPS

SomeRepo == RepoIds \cup {NoRepo}
Infos == [archived : BOOLEAN, branch : Branches, optOut : BOOLEAN]
AliasRecords == [of : RepoIds, canonical : Slugs]
Journals ==
    [status : {"Prepared", "Committed", "Failed"}, id : RepoIds, from : Slugs, to : Slugs, stored : BOOLEAN]
RowKeys == Branches \cup Nat \cup {"bug", "hook", "readme", "person"}
RowValues == RuleKinds \cup {"label", "issue", "hook", "text", "write"}
RowRecords ==
    [table : Tables, slug : Slugs, key : RowKeys, value : RowValues, of : RepoIds, timely : BOOLEAN]

Materializing == [step : {"materialize"}, slug : Slugs, of : RepoIds, key : Branches]
Branching == [step : {"default branch"}, slug : Slugs, key : Branches]
EncodedRows == {x \in RowRecords : x.key \in Encoded}
Rekeying == [step : {"rekey"}, seen : EncodedRows]
Writing == [step : Tables, slug : Slugs, of : RepoIds]
Sessions == {Idle} \cup Materializing \cup Branching \cup Rekeying \cup Writing

TypeInv ==
    /\ repos \in [Slugs -> SomeRepo] /\ info \in [RepoIds -> Infos]
    /\ transfers \in [TransferKeys -> {NoJournal} \cup Journals]
    /\ session \in [Callers -> Sessions]
    /\ rows \subseteq RowRecords /\ counters \in [Slugs -> Nat]
    /\ aliases \in [Slugs -> {NoAlias} \cup AliasRecords]
    /\ dirs \in [Slugs -> SomeRepo] /\ used \subseteq RepoIds

\* A repository is at one slug.
OneSlugEach ==
    /\ \A s \in Slugs : repos[s] \in used \cup {NoRepo}
    /\ \A s, t \in Slugs : repos[s] = repos[t] /\ repos[s] # NoRepo => s = t

Pending(w) == session[w].step = "materialize"
Stored(k) == transfers[k].status = "Prepared" /\ transfers[k].stored
Settled(id) == id \in made \ torn

\* A directory is at one place, and a repository that waits for its own has none.
DirectoriesInv ==
    /\ made \subseteq used
    /\ \A k \in TransferKeys : transfers[k] # NoJournal => transfers[k].id \in used
    /\ \A s \in Slugs : dirs[s] \in used \cup {NoRepo}
    /\ \A s, t \in Slugs : dirs[s] = dirs[t] /\ dirs[s] # NoRepo => s = t
    /\ \A w \in Callers : Pending(w) =>
          /\ session[w].of \in used \ made
          /\ \A s \in Slugs : dirs[s] # session[w].of
          /\ \A k \in TransferKeys : Stored(k) => transfers[k].id # session[w].of
          /\ \A v \in Callers : Pending(v) /\ session[v].of = session[w].of => v = w

\* Between the two phases the directory is ahead of its repository.
TransfersInv ==
    \A k \in TransferKeys : Stored(k) /\ Settled(transfers[k].id) =>
        /\ dirs[transfers[k].to] = transfers[k].id /\ repos[transfers[k].from] = transfers[k].id
        /\ transfers[k].from # transfers[k].to
        /\ \A l \in TransferKeys : Stored(l) /\ transfers[l].id = transfers[k].id => l = k

RepoInv ==
    /\ TypeInv /\ OneSlugEach /\ DirectoriesInv /\ TransfersInv
    /\ RowsFollow /\ AliasesLeadHome /\ DefaultBranchIsProtected /\ DiskFollowsRegistry

-----------------------------------------------------------------------------
(* The operators                                                               *)

LEMMA SessionKinds ==
    /\ Idle \in Sessions /\ Idle.step = "idle"
    /\ \A x \in Sessions :
          /\ x.step = "materialize" => x \in Materializing
          /\ x.step = "default branch" => x \in Branching
          /\ x.step = "rekey" => x \in Rekeying
          /\ x.step \in Tables => x \in Writing
<1>1. Idle \in Sessions /\ Idle.step = "idle"
  BY DEF Sessions, Idle
<1>2. /\ \A x \in Materializing : x.step = "materialize"
      /\ \A x \in Branching : x.step = "default branch"
      /\ \A x \in Rekeying : x.step = "rekey"
      /\ \A x \in Writing : x.step \in Tables
  BY DEF Materializing, Branching, Rekeying, Writing
<1>3. {"materialize", "default branch", "rekey", "idle"} \cap Tables = {}
  BY DEF Tables
<1> QED
  BY <1>1, <1>2, <1>3 DEF Sessions

LEMMA NoneIsNone ==
    /\ NoAlias.of = NoRepo /\ NoAlias \notin AliasRecords
    /\ NoJournal.status = "none" /\ NoJournal \notin Journals
    /\ NewInfo \in Infos
<1>1. NoAlias.of = NoRepo /\ \A x \in AliasRecords : x.of \in RepoIds
  BY DEF NoAlias, AliasRecords
<1>2. NoJournal.status = "none" /\ \A x \in Journals : x.status # "none"
  BY DEF NoJournal, Journals
<1>3. NewInfo \in Infos
  BY RepositoriesAssumption DEF NewInfo, Infos
<1> QED
  BY <1>1, <1>2, <1>3, RepositoriesAssumption

LEMMA MoreRows ==
    ASSUME NEW rs, NEW qs, rs \subseteq qs, NEW s, NEW b, HasRule(rs, s, b)
    PROVE  HasRule(qs, s, b)
  BY DEF HasRule, Rules, At

\* ensure_default_branch_protection only adds, and leaves the branch with a rule.
LEMMA EnsureProtects ==
    ASSUME NEW rs \in SUBSET RowRecords, NEW s \in Slugs, NEW id \in RepoIds, NEW i \in Infos
    PROVE  LET e == EnsureDefaultProtection(rs, s, id, i) IN
           /\ e \subseteq RowRecords /\ rs \subseteq e
           /\ \A x \in e : x \in rs \/ (x.slug = s /\ x.of = id)
           /\ ~i.optOut => HasRule(e, s, i.branch)
<1> DEFINE e == EnsureDefaultProtection(rs, s, id, i)
<1>1. PICK x : x = [table |-> "rules", slug |-> s, key |-> i.branch, value |-> "automatic", of |-> id, timely |-> TRUE]
  OBVIOUS
<1>2. /\ x \in RowRecords /\ x.slug = s /\ x.of = id /\ x.table = "rules" /\ x.key = i.branch
  BY <1>1 DEF RowRecords, Tables, RowKeys, RowValues, RuleKinds, Infos
<1>3. e = rs \/ e = rs \cup {x}
  BY <1>1 DEF EnsureDefaultProtection
<1>4. ~i.optOut => HasRule(rs, s, i.branch) \/ e = rs \cup {x}
  BY <1>1 DEF EnsureDefaultProtection
<1>5. HasRule(rs \cup {x}, s, i.branch)
  BY <1>2 DEF HasRule, Rules, At
<1>6. ~i.optOut => HasRule(e, s, i.branch)
  BY <1>3, <1>4, <1>5, MoreRows
<1> HIDE DEF e
<1>7. e \subseteq RowRecords /\ rs \subseteq e /\ \A y \in e : y \in rs \/ (y.slug = s /\ y.of = id)
  BY <1>2, <1>3
<1> QED
  BY <1>6, <1>7 DEF e

\* An insert replaces the row with its key.
LEMMA PutKeepsRules ==
    ASSUME NEW rs \in SUBSET RowRecords, NEW r \in RowRecords
    PROVE  /\ Put(rs, r) \subseteq RowRecords /\ \A x \in Put(rs, r) : x \in rs \/ x = r
           /\ \A s \in Slugs : \A b : HasRule(rs, s, b) => HasRule(Put(rs, r), s, b)
<1>1. Put(rs, r) \subseteq RowRecords /\ \A x \in Put(rs, r) : x \in rs \/ x = r
  BY DEF Put
<1>2. ASSUME NEW s \in Slugs, NEW b, HasRule(rs, s, b) PROVE HasRule(Put(rs, r), s, b)
  <2>1. PICK x \in rs : x.slug = s /\ x.table = "rules" /\ x.key = b
    BY <1>2 DEF HasRule, Rules, At
  <2>2. CASE SameKey(x, r)
    BY <2>1, <2>2 DEF SameKey, Put, HasRule, Rules, At
  <2>3. CASE ~SameKey(x, r)
    BY <2>1, <2>3 DEF Put, HasRule, Rules, At
  <2> QED
    BY <2>2, <2>3
<1> QED
  BY <1>1, <1>2

\* A move takes every row of the old slug along and leaves the others alone,
\* but for those at the new slug.
LEMMA RekeyMovesRows ==
    ASSUME NEW rs \in SUBSET RowRecords, NEW old \in Slugs, NEW new \in Slugs, old # new,
           NEW qs, qs = Rekeyed(rs, old, new)
    PROVE  /\ qs \subseteq RowRecords
           /\ \A y \in qs :
                 \/ y \in rs /\ y.slug # old
                 \/ \E x \in rs : x.slug = old /\ y.slug = new /\ y.of = x.of /\ (y.timely <=> x.timely)
           /\ \A b : HasRule(rs, old, b) => HasRule(qs, new, b)
           /\ \A s \in Slugs \ {old, new} : \A b : HasRule(rs, s, b) => HasRule(qs, s, b)
<1> DEFINE moved == {[x EXCEPT !.slug = new] : x \in At(rs, old)}
<1>1. ASSUME NEW x \in At(rs, old)
      PROVE  LET y == [x EXCEPT !.slug = new] IN
             /\ y \in RowRecords /\ y.slug = new /\ y.of = x.of /\ (y.timely <=> x.timely)
             /\ y.table = x.table /\ y.key = x.key
  <2>1. x \in RowRecords
    BY DEF At
  <2> QED
    BY <2>1 DEF RowRecords
<1>2. \A y \in moved : y \in RowRecords /\ y.slug = new
  BY <1>1
<1>3. qs = {x \in rs \ At(rs, old) : \A y \in moved : ~SameKey(x, y)} \cup moved
  BY DEF Rekeyed
<1>4. ASSUME NEW y \in moved
      PROVE  \E x \in rs : x.slug = old /\ y.slug = new /\ y.of = x.of /\ (y.timely <=> x.timely)
  <2>1. PICK x \in At(rs, old) : y = [x EXCEPT !.slug = new]
    OBVIOUS
  <2> QED
    BY <1>1, <2>1 DEF At
<1>5. ASSUME NEW b, HasRule(rs, old, b) PROVE HasRule(qs, new, b)
  <2>1. PICK x \in At(rs, old) : x.table = "rules" /\ x.key = b
    BY <1>5 DEF HasRule, Rules
  <2>2. PICK y \in moved : y = [x EXCEPT !.slug = new]
    OBVIOUS
  <2>3. y.slug = new /\ y.table = "rules" /\ y.key = b
    BY <1>1, <2>1, <2>2
  <2> QED
    BY <1>3, <2>3 DEF HasRule, Rules, At
<1>6. ASSUME NEW s \in Slugs \ {old, new}, NEW b, HasRule(rs, s, b) PROVE HasRule(qs, s, b)
  <2>1. PICK x \in rs : x.slug = s /\ x.table = "rules" /\ x.key = b
    BY <1>6 DEF HasRule, Rules, At
  <2>2. x \notin At(rs, old) /\ \A y \in moved : ~SameKey(x, y)
    BY <1>2, <2>1 DEF At, SameKey
  <2> QED
    BY <1>3, <2>1, <2>2 DEF HasRule, Rules, At
<1> HIDE DEF moved
<1>7. \A y \in qs :
         \/ y \in rs /\ y.slug # old
         \/ \E x \in rs : x.slug = old /\ y.slug = new /\ y.of = x.of /\ (y.timely <=> x.timely)
  BY <1>3, <1>4 DEF At
<1> QED
  BY <1>2, <1>3, <1>5, <1>6, <1>7

-----------------------------------------------------------------------------
(* What leaves the registry and the directories alone                          *)

DiskPart == DirectoriesInv /\ TransfersInv /\ DiskFollowsRegistry

LEMMA RepoInitHolds == RepoInit => RepoInv
<1> SUFFICES ASSUME RepoInit PROVE RepoInv
  OBVIOUS
<1>1. PICK s \in Slugs, id \in RepoIds :
        /\ repos = [t \in Slugs |-> IF t = s THEN id ELSE NoRepo]
        /\ rows = EnsureDefaultProtection({[table |-> "labels", slug |-> s, key |-> "bug", value |-> "label",
                                             of |-> id, timely |-> TRUE]}, s, id, NewInfo)
        /\ dirs = [t \in Slugs |-> IF t = s THEN id ELSE NoRepo]
        /\ used = {id} /\ made = {id} /\ torn = {}
  BY DEF RepoInit
<1>2. /\ info = [r \in RepoIds |-> NewInfo] /\ aliases = [t \in Slugs |-> NoAlias]
      /\ transfers = [k \in TransferKeys |-> NoJournal] /\ counters = [t \in Slugs |-> 0]
      /\ session = [w \in Callers |-> Idle]
  BY DEF RepoInit
<1>3. PICK x : x = [table |-> "labels", slug |-> s, key |-> "bug", value |-> "label", of |-> id, timely |-> TRUE]
  OBVIOUS
<1>4. x \in RowRecords /\ x.slug = s /\ x.of = id
  BY <1>3 DEF RowRecords, Tables, RowKeys, RowValues
<1>5. /\ rows \subseteq RowRecords /\ \A y \in rows : y.slug = s /\ y.of = id
      /\ ~NewInfo.optOut => HasRule(rows, s, NewInfo.branch)
  <2>1. {x} \in SUBSET RowRecords /\ rows = EnsureDefaultProtection({x}, s, id, NewInfo)
    BY <1>1, <1>3, <1>4
  <2> QED
    BY <1>4, <2>1, NoneIsNone, EnsureProtects
<1>6. TypeInv
  BY <1>1, <1>2, <1>5, NoneIsNone, SessionKinds DEF TypeInv, SomeRepo
<1>7. OneSlugEach /\ RowsFollow /\ AliasesLeadHome
  BY <1>1, <1>2, <1>5 DEF OneSlugEach, RowsFollow, AliasesLeadHome
<1>8. DiskPart
  BY <1>1, <1>2, NoneIsNone, SessionKinds
     DEF DiskPart, DirectoriesInv, TransfersInv, DiskFollowsRegistry, Pending, Stored
<1>9. DefaultBranchIsProtected
  BY <1>1, <1>2, <1>5 DEF DefaultBranchIsProtected
<1> QED
  BY <1>6, <1>7, <1>8, <1>9 DEF RepoInv, DiskPart

\* A caller that goes on to anything but a directory to make.
LEMMA SessionMoves ==
    ASSUME TypeInv, NEW w \in Callers, NEW x \in Sessions, x.step # "materialize",
           session' = [session EXCEPT ![w] = x]
    PROVE  /\ session' \in [Callers -> Sessions]
           /\ \A v \in Callers : Pending(v)' => Pending(v) /\ session'[v] = session[v]
  BY DEF TypeInv, Pending

LEMMA SessionEnds ==
    ASSUME TypeInv, NEW w \in Callers, session' = [session EXCEPT ![w] = Idle]
    PROVE  /\ session' \in [Callers -> Sessions]
           /\ \A v \in Callers : Pending(v)' => Pending(v) /\ session'[v] = session[v]
<1>1. Idle \in Sessions /\ Idle.step # "materialize"
  BY SessionKinds
<1> QED
  BY <1>1, SessionMoves

LEMMA DiskStays ==
    ASSUME RepoInv, UNCHANGED <<repos, dirs, made, torn, used>>,
           \A k \in TransferKeys : (Stored(k)' <=> Stored(k)) /\ (Stored(k) => transfers'[k] = transfers[k]),
           \A k \in TransferKeys : transfers'[k] # NoJournal => transfers'[k].id \in used,
           \A w \in Callers : Pending(w)' => Pending(w) /\ session'[w] = session[w]
    PROVE  DiskPart' /\ OneSlugEach'
<1>1. OneSlugEach'
  BY DEF RepoInv, OneSlugEach
<1>2. DirectoriesInv'
  BY DEF RepoInv, DirectoriesInv
<1>3. TransfersInv'
  BY DEF RepoInv, TransfersInv, Settled
<1>4. DiskFollowsRegistry'
  BY DEF RepoInv, DiskFollowsRegistry, Stored
<1> QED
  BY <1>1, <1>2, <1>3, <1>4 DEF DiskPart

\* A step that changes nothing but HEADs, deployments and what a caller does.
LEMMA OnlySession ==
    ASSUME RepoInv, UNCHANGED <<repos, info, aliases, transfers, rows, counters, dirs, used, made, torn>>,
           session' \in [Callers -> Sessions],
           \A w \in Callers : Pending(w)' => Pending(w) /\ session'[w] = session[w]
    PROVE  RepoInv'
<1>1. DiskPart' /\ OneSlugEach'
  BY DiskStays DEF Stored, RepoInv, DirectoriesInv
<1>2. TypeInv'
  BY DEF RepoInv, TypeInv
<1>3. RowsFollow' /\ AliasesLeadHome' /\ DefaultBranchIsProtected'
  BY DEF RepoInv, RowsFollow, AliasesLeadHome, DefaultBranchIsProtected, HasRule, Rules, At
<1> QED
  BY <1>1, <1>2, <1>3 DEF RepoInv, DiskPart

\* A step on the rows and the settings of repositories.
LEMMA OnlyRows ==
    ASSUME RepoInv, UNCHANGED <<repos, aliases, transfers, dirs, used, made, torn>>,
           session' \in [Callers -> Sessions],
           \A w \in Callers : Pending(w)' => Pending(w) /\ session'[w] = session[w],
           rows' \subseteq RowRecords, counters' \in [Slugs -> Nat], info' \in [RepoIds -> Infos],
           \A x \in rows' : x \in rows \/ (x.timely => repos[x.slug] = x.of),
           \A s \in Slugs : repos[s] # NoRepo /\ ~info'[repos[s]].optOut => HasRule(rows', s, info'[repos[s]].branch)
    PROVE  RepoInv'
<1>1. DiskPart' /\ OneSlugEach'
  BY DiskStays DEF Stored, RepoInv, DirectoriesInv
<1>2. TypeInv'
  BY DEF RepoInv, TypeInv
<1>3. RowsFollow' /\ AliasesLeadHome'
  BY DEF RepoInv, RowsFollow, AliasesLeadHome
<1>4. DefaultBranchIsProtected'
  BY DEF DefaultBranchIsProtected
<1> QED
  BY <1>1, <1>2, <1>3, <1>4 DEF RepoInv, DiskPart

\* The same, where no repository changes its branch or its opt-out.
LEMMA OnlyRowsKeptRules ==
    ASSUME RepoInv, UNCHANGED <<repos, aliases, transfers, dirs, used, made, torn, info>>,
           session' \in [Callers -> Sessions],
           \A w \in Callers : Pending(w)' => Pending(w) /\ session'[w] = session[w],
           rows' \subseteq RowRecords, counters' \in [Slugs -> Nat],
           \A x \in rows' : x \in rows \/ (x.timely => repos[x.slug] = x.of),
           \A s \in Slugs : /\ repos[s] # NoRepo /\ ~info[repos[s]].optOut
                            /\ HasRule(rows, s, info[repos[s]].branch)
                            => HasRule(rows', s, info[repos[s]].branch)
    PROVE  RepoInv'
<1>1. \A s \in Slugs : repos[s] # NoRepo /\ ~info'[repos[s]].optOut => HasRule(rows', s, info'[repos[s]].branch)
  BY DEF RepoInv, DefaultBranchIsProtected
<1>2. info' \in [RepoIds -> Infos]
  BY DEF RepoInv, TypeInv
<1> QED
  BY <1>1, <1>2, OnlyRows

\* The session of a caller that stays as it is.
LEMMA SessionStays ==
    ASSUME TypeInv, UNCHANGED session
    PROVE  /\ session' \in [Callers -> Sessions]
           /\ \A v \in Callers : Pending(v)' => Pending(v) /\ session'[v] = session[v]
  BY DEF TypeInv, Pending

LEMMA ServiceStepsKeep ==
    ASSUME RepoInv, NEW s \in Slugs, ReconcileHead(s) \/ CreateDeployment(s)
    PROVE  RepoInv'
<1>1. TypeInv
  BY DEF RepoInv
<1> QED
  BY <1>1, SessionStays, OnlySession DEF ReconcileHead, CreateDeployment

LEMMA LookupsKeep ==
    ASSUME RepoInv, NEW w \in Callers,
           \/ \E s \in Slugs, b \in Branches : PointHeadAt(w, s, b)
           \/ \E s \in Slugs, t \in Tables : EnsureRepoExists(w, t, s)
           \/ PlanRekey(w)
    PROVE  RepoInv'
<1>0. TypeInv
  BY DEF RepoInv
<1>1. ASSUME NEW x \in Sessions, x.step # "materialize", session' = [session EXCEPT ![w] = x],
             UNCHANGED <<repos, info, aliases, transfers, rows, counters, dirs, used, made, torn>>
      PROVE  RepoInv'
  BY <1>0, <1>1, SessionMoves, OnlySession
<1>2. ASSUME NEW s \in Slugs, NEW b \in Branches, PointHeadAt(w, s, b) PROVE RepoInv'
  <2>1. PICK x : x = [step |-> "default branch", slug |-> s, key |-> b]
    OBVIOUS
  <2>2. x \in Sessions /\ x.step = "default branch"
    BY <2>1 DEF Sessions, Branching
  <2>3. session' = [session EXCEPT ![w] = x] \/ session' = [session EXCEPT ![w] = Idle]
    BY <1>2, <2>1 DEF PointHeadAt
  <2> QED
    BY <1>1, <1>2, <2>2, <2>3, SessionKinds DEF PointHeadAt
<1>3. ASSUME NEW s \in Slugs, NEW t \in Tables, EnsureRepoExists(w, t, s) PROVE RepoInv'
  <2>1. PICK x : x = [step |-> t, slug |-> s, of |-> repos[s]]
    OBVIOUS
  <2>2. repos[s] \in RepoIds
    BY <1>0, <1>3 DEF TypeInv, SomeRepo, EnsureRepoExists
  <2>3. x \in Sessions /\ x.step # "materialize"
    BY <2>1, <2>2 DEF Sessions, Writing, Tables
  <2> QED
    BY <1>1, <1>3, <2>1, <2>3 DEF EnsureRepoExists
<1>4. CASE PlanRekey(w)
  <2>1. PICK y \in rows : /\ y.key \in Encoded
                          /\ session' = [session EXCEPT ![w] = [step |-> "rekey", seen |-> y]]
    BY <1>4 DEF PlanRekey
  <2>2. PICK x : x = [step |-> "rekey", seen |-> y]
    OBVIOUS
  <2>3. x \in Sessions /\ x.step = "rekey"
    BY <1>0, <2>1, <2>2 DEF Sessions, Rekeying, EncodedRows, TypeInv
  <2> QED
    BY <1>1, <1>4, <2>1, <2>2, <2>3 DEF PlanRekey
<1> QED
  BY <1>2, <1>3, <1>4

-----------------------------------------------------------------------------
(* Settings and rows                                                           *)

LEMMA SetDefaultBranchKeeps ==
    ASSUME RepoInv, NEW w \in Callers, SetDefaultBranch(w)
    PROVE  RepoInv'
<1>0. TypeInv
  BY DEF RepoInv
<1>1. session[w] \in Branching
  BY <1>0, SessionKinds DEF TypeInv, SetDefaultBranch
<1>2. PICK s \in Slugs, b \in Branches : s = session[w].slug /\ b = session[w].key
  BY <1>1 DEF Branching
<1>3. /\ session' \in [Callers -> Sessions]
      /\ \A v \in Callers : Pending(v)' => Pending(v) /\ session'[v] = session[v]
  BY <1>0, SessionEnds DEF SetDefaultBranch
<1>4. CASE repos[s] = NoRepo
  BY <1>2, <1>3, <1>4, OnlySession DEF SetDefaultBranch
<1>5. CASE repos[s] # NoRepo
  <2>1. PICK id \in RepoIds : id = repos[s]
    BY <1>0, <1>5 DEF TypeInv, SomeRepo
  <2>2. PICK i : i = [info[id] EXCEPT !.branch = b]
    OBVIOUS
  <2>3. i \in Infos /\ i.branch = b /\ i.optOut = info[id].optOut
    BY <1>0, <2>2 DEF TypeInv, Infos
  <2>4. info' = [info EXCEPT ![id] = i] /\ info'[id] = i /\ info' \in [RepoIds -> Infos]
    BY <1>0, <1>2, <1>5, <2>1, <2>2, <2>3 DEF SetDefaultBranch, TypeInv
  <2>5. rows' = EnsureDefaultProtection(rows, s, id, i)
    BY <1>2, <1>5, <2>1, <2>4 DEF SetDefaultBranch
  <2>6. /\ rows' \subseteq RowRecords /\ rows \subseteq rows'
        /\ \A x \in rows' : x \in rows \/ (x.slug = s /\ x.of = id)
        /\ ~i.optOut => HasRule(rows', s, i.branch)
    BY <1>0, <2>3, <2>5, EnsureProtects DEF TypeInv
  <2>7. ASSUME NEW t \in Slugs, repos[t] # NoRepo, ~info'[repos[t]].optOut
        PROVE  HasRule(rows', t, info'[repos[t]].branch)
    <3>1. CASE t = s
      BY <2>1, <2>4, <2>6, <2>7, <3>1
    <3>2. CASE t # s
      <4>1. repos[t] # id /\ repos[t] \in RepoIds
        BY <1>0, <2>1, <2>7, <3>2 DEF RepoInv, OneSlugEach, TypeInv, SomeRepo
      <4>2. info'[repos[t]] = info[repos[t]]
        BY <1>0, <2>4, <4>1 DEF TypeInv
      <4> QED
        BY <2>6, <2>7, <4>2, MoreRows DEF RepoInv, DefaultBranchIsProtected
    <3> QED
      BY <3>1, <3>2
  <2>8. /\ UNCHANGED <<repos, aliases, transfers, dirs, used, made, torn>>
        /\ counters' \in [Slugs -> Nat]
    BY <1>0 DEF SetDefaultBranch, TypeInv
  <2> QED
    BY <1>3, <2>1, <2>4, <2>6, <2>7, <2>8, OnlyRows
<1> QED
  BY <1>4, <1>5

LEMMA SetOptOutKeeps ==
    ASSUME RepoInv, NEW s \in Slugs, NEW optOut \in BOOLEAN, SetOptOut(s, optOut)
    PROVE  RepoInv'
<1>0. TypeInv
  BY DEF RepoInv
<1>1. PICK id \in RepoIds : id = repos[s]
  BY <1>0 DEF TypeInv, SomeRepo, SetOptOut
<1>2. PICK i : i = [info[id] EXCEPT !.optOut = optOut]
  OBVIOUS
<1>3. i \in Infos /\ i.branch = info[id].branch /\ (i.optOut <=> optOut)
  BY <1>0, <1>2 DEF TypeInv, Infos
<1>4. info' = [info EXCEPT ![id] = i] /\ info'[id] = i /\ info' \in [RepoIds -> Infos]
  BY <1>0, <1>1, <1>2, <1>3 DEF SetOptOut, TypeInv
<1>5. /\ UNCHANGED <<repos, aliases, transfers, dirs, used, made, torn, session>>
      /\ counters' \in [Slugs -> Nat]
  BY <1>0 DEF SetOptOut, TypeInv
<1>6. /\ session' \in [Callers -> Sessions]
      /\ \A v \in Callers : Pending(v)' => Pending(v) /\ session'[v] = session[v]
  BY <1>0, <1>5, SessionStays
<1>7. ASSUME NEW t \in Slugs \ {s}, repos[t] # NoRepo, ~info'[repos[t]].optOut
      PROVE  HasRule(rows, t, info'[repos[t]].branch)
  <2>1. repos[t] # id /\ repos[t] \in RepoIds
    BY <1>0, <1>1, <1>7 DEF RepoInv, OneSlugEach, TypeInv, SomeRepo
  <2>2. info'[repos[t]] = info[repos[t]]
    BY <1>0, <1>4, <2>1 DEF TypeInv
  <2> QED
    BY <1>7, <2>2 DEF RepoInv, DefaultBranchIsProtected
<1>8. CASE optOut
  <2>1. rows' = {x \in rows : ~(x \in Rules(rows, s) /\ x.key = info[id].branch /\ x.value = "automatic")}
    BY <1>1, <1>8 DEF SetOptOut
  <2>2. rows' \subseteq rows
    BY <2>1
  <2>3. \A t \in Slugs \ {s} : \A b : HasRule(rows, t, b) => HasRule(rows', t, b)
    BY <2>1 DEF HasRule, Rules, At
  <2>4. \A t \in Slugs : repos[t] # NoRepo /\ ~info'[repos[t]].optOut => HasRule(rows', t, info'[repos[t]].branch)
    BY <1>1, <1>3, <1>4, <1>7, <1>8, <2>3
  <2>5. rows' \subseteq RowRecords
    BY <1>0, <2>2 DEF TypeInv
  <2> QED
    BY <1>4, <1>5, <1>6, <2>2, <2>4, <2>5, OnlyRows
<1>9. CASE ~optOut
  <2>1. rows' = EnsureDefaultProtection(rows, s, id, i)
    BY <1>1, <1>4, <1>9 DEF SetOptOut
  <2>2. /\ rows' \subseteq RowRecords /\ rows \subseteq rows'
        /\ \A x \in rows' : x \in rows \/ (x.slug = s /\ x.of = id)
        /\ ~i.optOut => HasRule(rows', s, i.branch)
    BY <1>0, <1>3, <2>1, EnsureProtects DEF TypeInv
  <2>3. \A t \in Slugs : repos[t] # NoRepo /\ ~info'[repos[t]].optOut => HasRule(rows', t, info'[repos[t]].branch)
    BY <1>1, <1>4, <1>7, <2>2, MoreRows
  <2> QED
    BY <1>1, <1>4, <1>5, <1>6, <2>2, <2>3, OnlyRows
<1> QED
  BY <1>8, <1>9

LEMMA SetArchivedKeeps ==
    ASSUME RepoInv, NEW s \in Slugs, NEW archived \in BOOLEAN, SetRepositoryArchived(s, archived)
    PROVE  RepoInv'
<1>0. TypeInv
  BY DEF RepoInv
<1>1. PICK id \in RepoIds : id = repos[s]
  BY <1>0 DEF TypeInv, SomeRepo, SetRepositoryArchived
<1>2. PICK i : i = [info[id] EXCEPT !.archived = archived]
  OBVIOUS
<1>3. i \in Infos /\ i.branch = info[id].branch /\ i.optOut = info[id].optOut
  BY <1>0, <1>2 DEF TypeInv, Infos
<1>4. info' = [info EXCEPT ![id] = i] /\ info' \in [RepoIds -> Infos]
  BY <1>0, <1>1, <1>2, <1>3 DEF SetRepositoryArchived, TypeInv
<1>5. ASSUME NEW r \in RepoIds PROVE info'[r].branch = info[r].branch /\ info'[r].optOut = info[r].optOut
  BY <1>0, <1>3, <1>4 DEF TypeInv
<1>6. ASSUME NEW t \in Slugs, repos[t] # NoRepo, ~info'[repos[t]].optOut
      PROVE  HasRule(rows', t, info'[repos[t]].branch)
  <2>1. repos[t] \in RepoIds
    BY <1>0, <1>6 DEF TypeInv, SomeRepo
  <2>2. rows' = rows
    BY DEF SetRepositoryArchived
  <2> QED
    BY <1>5, <1>6, <2>1, <2>2 DEF RepoInv, DefaultBranchIsProtected
<1>7. /\ session' \in [Callers -> Sessions]
      /\ \A v \in Callers : Pending(v)' => Pending(v) /\ session'[v] = session[v]
  BY <1>0, SessionStays DEF SetRepositoryArchived
<1> QED
  BY <1>0, <1>4, <1>6, <1>7, OnlyRows DEF SetRepositoryArchived, TypeInv

LEMMA RemovalsKeep ==
    ASSUME RepoInv, NEW s \in Slugs, RevokeRepoAccess(s) \/ \E b \in Branches : DeleteBranchProtection(s, b)
    PROVE  RepoInv'
<1>0. TypeInv
  BY DEF RepoInv
<1>1. ASSUME UNCHANGED <<repos, info, aliases, transfers, counters, dirs, session, used, made, torn>>, rows' \subseteq rows,
             \A t \in Slugs : /\ repos[t] # NoRepo /\ ~info[repos[t]].optOut
                              /\ HasRule(rows, t, info[repos[t]].branch)
                              => HasRule(rows', t, info[repos[t]].branch)
      PROVE  RepoInv'
  <2>1. /\ session' \in [Callers -> Sessions]
        /\ \A v \in Callers : Pending(v)' => Pending(v) /\ session'[v] = session[v]
    BY <1>0, <1>1, SessionStays
  <2>2. rows' \subseteq RowRecords /\ counters' \in [Slugs -> Nat] /\ \A x \in rows' : x \in rows
    BY <1>0, <1>1 DEF TypeInv
  <2> QED
    BY <1>1, <2>1, <2>2, OnlyRowsKeptRules
<1>2. CASE RevokeRepoAccess(s)
  <2>1. rows' = {x \in rows : ~(x.slug = s /\ x.table = "grants")}
    BY <1>2 DEF RevokeRepoAccess
  <2>2. \A t \in Slugs : \A b : HasRule(rows, t, b) => HasRule(rows', t, b)
    BY <2>1 DEF HasRule, Rules, At
  <2> QED
    BY <1>1, <1>2, <2>1, <2>2 DEF RevokeRepoAccess
<1>3. ASSUME NEW b \in Branches, DeleteBranchProtection(s, b) PROVE RepoInv'
  <2>1. rows' = {x \in rows : ~(x \in Rules(rows, s) /\ x.key = b)}
    BY <1>3 DEF DeleteBranchProtection
  <2>2. \A t \in Slugs : \A c : (t # s \/ c # b) /\ HasRule(rows, t, c) => HasRule(rows', t, c)
    BY <2>1 DEF HasRule, Rules, At
  <2>3. ~info[repos[s]].optOut => info[repos[s]].branch # b
    BY <1>3 DEF DeleteBranchProtection, DefaultRuleIsMandatory
  <2> QED
    BY <1>1, <1>3, <2>1, <2>2, <2>3 DEF DeleteBranchProtection
<1> QED
  BY <1>2, <1>3

LEMMA ApplyRekeyKeeps ==
    ASSUME RepoInv, NEW w \in Callers, ApplyRekey(w)
    PROVE  RepoInv'
<1>0. TypeInv
  BY DEF RepoInv
<1>1. session[w] \in Rekeying
  BY <1>0, SessionKinds DEF TypeInv, ApplyRekey
<1>2. PICK x \in EncodedRows : x = session[w].seen
  BY <1>1 DEF Rekeying
<1>3. /\ session' \in [Callers -> Sessions]
      /\ \A v \in Callers : Pending(v)' => Pending(v) /\ session'[v] = session[v]
  BY <1>0, SessionEnds DEF ApplyRekey
<1>4. rows' = DecideRekey(x) /\ UNCHANGED <<repos, info, aliases, transfers, counters, dirs, used, made, torn>>
  BY <1>2 DEF ApplyRekey
<1>5. CASE rows' = rows
  BY <1>3, <1>4, <1>5, OnlySession
<1>6. CASE rows' # rows
  <2>1. PICK y : y = [x EXCEPT !.key = Decoded(x.key)]
    OBVIOUS
  <2>2. /\ x \in rows /\ repos[x.slug] # NoRepo /\ info[repos[x.slug]].branch # x.key
        /\ rows' = rows \ {x} \/ rows' = (rows \ {x}) \cup {y}
    BY <1>4, <1>6, <2>1 DEF DecideRekey
  <2>3. x \in RowRecords /\ Decoded(x.key) \in RowKeys
    BY <1>2, RepositoriesAssumption DEF EncodedRows, RowKeys
  <2>4. y \in RowRecords /\ y.slug = x.slug /\ y.of = x.of /\ (y.timely <=> x.timely)
    BY <2>1, <2>3 DEF RowRecords
  <2>5. rows' \subseteq RowRecords /\ \A z \in rows' : z \in rows \/ z = y
    BY <1>0, <2>2, <2>4 DEF TypeInv
  <2>6. y.timely => repos[y.slug] = y.of
    BY <2>2, <2>4 DEF RepoInv, RowsFollow
  <2>7. \A s \in Slugs : \A b : (s # x.slug \/ b # x.key) /\ HasRule(rows, s, b) => HasRule(rows', s, b)
    BY <2>2 DEF HasRule, Rules, At
  <2>8. counters' \in [Slugs -> Nat]
    BY <1>0, <1>4 DEF TypeInv
  <2> QED
    BY <1>3, <1>4, <2>2, <2>5, <2>6, <2>7, <2>8, OnlyRowsKeptRules
<1> QED
  BY <1>5, <1>6

\* The inserts: what ensure_repo_exists found may be gone by now, and the row is
\* timely only where it is not.
LEMMA InsertsKeep ==
    ASSUME RepoInv, NEW w \in Callers, session[w].step \in Tables, NEW r, NEW n \in Nat,
           NEW t, NEW k \in RowKeys, NEW v \in RowValues, t = session[w].step,
           r = Row(w, t, k, v), Inserted(w, t, r, n)
    PROVE  RepoInv'
<1>0. TypeInv
  BY DEF RepoInv
<1>1. session[w] \in Writing
  BY <1>0, SessionKinds DEF TypeInv
<1>2. PICK s \in Slugs, id \in RepoIds : s = session[w].slug /\ id = session[w].of
  BY <1>1 DEF Writing
<1>3. /\ session' \in [Callers -> Sessions]
      /\ \A u \in Callers : Pending(u)' => Pending(u) /\ session'[u] = session[u]
  BY <1>0, SessionEnds DEF Inserted
<1>4. UNCHANGED <<repos, info, aliases, transfers, dirs, used, made, torn>>
  BY DEF Inserted
<1>5. CASE repos[s] = NoRepo
  BY <1>2, <1>3, <1>4, <1>5, OnlySession DEF Inserted
<1>6. CASE repos[s] # NoRepo
  <2>1. r = [table |-> t, slug |-> s, key |-> k, value |-> v, of |-> id, timely |-> repos[s] = id]
    BY <1>2 DEF Row
  <2>2. r \in RowRecords /\ r.slug = s /\ r.of = id /\ (r.timely <=> repos[s] = id)
    <3>1. PICK z \in BOOLEAN : z = (repos[s] = id)
      OBVIOUS
    <3>2. r = [table |-> t, slug |-> s, key |-> k, value |-> v, of |-> id, timely |-> z]
      BY <2>1, <3>1
    <3>3. t \in Tables
      OBVIOUS
    <3>4. r \in RowRecords /\ r.slug = s /\ r.of = id /\ r.timely = z
      BY <3>2, <3>3 DEF RowRecords
    <3> QED
      BY <3>1, <3>4
  <2>3. rows' = Put(rows, r) /\ counters' = [counters EXCEPT ![s] = n]
    BY <1>2, <1>6 DEF Inserted
  <2>4. counters' \in [Slugs -> Nat]
    BY <1>0, <2>3 DEF TypeInv
  <2>5. /\ rows' \subseteq RowRecords /\ \A x \in rows' : x \in rows \/ x = r
        /\ \A u \in Slugs : \A b : HasRule(rows, u, b) => HasRule(rows', u, b)
    BY <1>0, <2>2, <2>3, PutKeepsRules DEF TypeInv
  <2> QED
    BY <1>3, <1>4, <2>2, <2>4, <2>5, OnlyRowsKeptRules
<1> QED
  BY <1>5, <1>6

LEMMA RowInsertKeeps ==
    ASSUME RepoInv, NEW w \in Callers, RowInsert(w)
    PROVE  RepoInv'
<1>0. TypeInv
  BY DEF RepoInv
<1>1. {"bug", "hook", "readme", "person"} \cup Branches \subseteq RowKeys /\ Nat \subseteq RowKeys
  BY DEF RowKeys
<1>2. {"label", "issue", "hook", "text", "write", "custom", "status"} \subseteq RowValues
  BY DEF RowValues, RuleKinds
<1>3. ASSUME session[w].step \in Tables PROVE session[w].slug \in Slugs /\ Stay(w) \in Nat
  <2>1. session[w] \in Writing
    BY <1>0, <1>3, SessionKinds DEF TypeInv
  <2> QED
    BY <1>0, <2>1 DEF Stay, Writing, TypeInv
<1>4. CASE CreateLabel(w)
  <2>1. session[w].step = "labels" /\ Inserted(w, "labels", Row(w, "labels", "bug", "label"), Stay(w))
    BY <1>4 DEF CreateLabel
  <2>2. "labels" \in Tables
    BY DEF Tables
  <2> QED
    BY <1>1, <1>2, <1>3, <2>1, <2>2, InsertsKeep
<1>5. CASE LabelExists(w)
  BY <1>0, <1>5, SessionEnds, OnlySession DEF LabelExists
<1>6. CASE CreateIssue(w)
  <2>1. PICK n : n = counters[session[w].slug] + 1
    OBVIOUS
  <2>2. Inserted(w, "issues", Row(w, "issues", n, "issue"), n)
    BY <1>6, <2>1 DEF CreateIssue
  <2>3. session[w].step = "issues" /\ "issues" \in Tables
    BY <2>2 DEF Inserted, Tables
  <2>4. n \in Nat
    BY <1>3, <2>1, <2>3 DEF Stay
  <2> QED
    BY <1>1, <1>2, <2>2, <2>3, <2>4, InsertsKeep
<1>7. CASE CreateWebhook(w)
  <2>1. Inserted(w, "webhooks", Row(w, "webhooks", "hook", "hook"), Stay(w))
    BY <1>7 DEF CreateWebhook
  <2>2. session[w].step = "webhooks" /\ "webhooks" \in Tables
    BY <2>1 DEF Inserted, Tables
  <2> QED
    BY <1>1, <1>2, <1>3, <2>1, <2>2, InsertsKeep
<1>8. CASE SetRepositoryReadme(w)
  <2>1. Inserted(w, "readmes", Row(w, "readmes", "readme", "text"), Stay(w))
    BY <1>8 DEF SetRepositoryReadme
  <2>2. session[w].step = "readmes" /\ "readmes" \in Tables
    BY <2>1 DEF Inserted, Tables
  <2> QED
    BY <1>1, <1>2, <1>3, <2>1, <2>2, InsertsKeep
<1>9. CASE GrantRepoAccess(w)
  <2>1. Inserted(w, "grants", Row(w, "grants", "person", "write"), Stay(w))
    BY <1>9 DEF GrantRepoAccess
  <2>2. session[w].step = "grants" /\ "grants" \in Tables
    BY <2>1 DEF Inserted, Tables
  <2> QED
    BY <1>1, <1>2, <1>3, <2>1, <2>2, InsertsKeep
<1>10. ASSUME NEW b \in Branches, NEW v \in {"custom", "status"}, SetBranchProtection(w, b, v) PROVE RepoInv'
  <2>1. Inserted(w, "rules", Row(w, "rules", b, v), Stay(w))
    BY <1>10 DEF SetBranchProtection
  <2>2. session[w].step = "rules" /\ "rules" \in Tables
    BY <2>1 DEF Inserted, Tables
  <2>3. b \in RowKeys /\ v \in RowValues
    BY <1>1, <1>2
  <2> QED
    BY <1>3, <2>1, <2>2, <2>3, InsertsKeep
<1> QED
  BY <1>4, <1>5, <1>6, <1>7, <1>8, <1>9, <1>10 DEF RowInsert

-----------------------------------------------------------------------------
(* Create and delete                                                           *)

LEMMA CreateKeeps ==
    ASSUME RepoInv, NEW w \in Callers, NEW s \in Slugs, NEW id \in RepoIds, NEW b \in Branches,
           CreateRepository(w, s, id, b)
    PROVE  RepoInv'
<1>0. TypeInv /\ id # NoRepo
  BY RepositoriesAssumption DEF RepoInv
<1>1. /\ session[w] = Idle /\ id \notin used /\ repos[s] = NoRepo
      /\ repos' = [repos EXCEPT ![s] = id] /\ used' = used \cup {id}
      /\ counters' = [counters EXCEPT ![s] = 0]
      /\ info' = [info EXCEPT ![id] = [NewInfo EXCEPT !.branch = b]]
      /\ rows' = EnsureDefaultProtection(rows, s, id, info'[id])
      /\ UNCHANGED <<aliases, transfers, dirs, made, torn>>
  BY DEF CreateRepository
<1>15. /\ info' \in [RepoIds -> Infos] /\ info'[id] \in Infos
       /\ \A r \in RepoIds \ {id} : info'[r] = info[r]
  <2>1. [NewInfo EXCEPT !.branch = b] \in Infos
    BY DEF NewInfo, Infos
  <2> QED
    BY <1>0, <1>1, <2>1 DEF TypeInv
<1>2. PICK x : x = [step |-> "materialize", slug |-> s, of |-> id, key |-> b]
  OBVIOUS
<1>3. x \in Sessions /\ x.of = id
  BY <1>2 DEF Sessions, Materializing
<1>4. session' = [session EXCEPT ![w] = x]
  BY <1>2 DEF CreateRepository
<1>5. /\ rows' \subseteq RowRecords /\ rows \subseteq rows'
      /\ \A y \in rows' : y \in rows \/ (y.slug = s /\ y.of = id)
      /\ ~info'[id].optOut => HasRule(rows', s, info'[id].branch)
  <2>1. rows \in SUBSET RowRecords
    BY <1>0 DEF TypeInv
  <2>2. PICK i \in Infos : i = info'[id]
    BY <1>15
  <2>3. rows' = EnsureDefaultProtection(rows, s, id, i)
    BY <1>1, <2>2
  <2> QED
    BY <2>1, <2>2, <2>3, EnsureProtects
<1>6. repos'[s] = id /\ \A t \in Slugs \ {s} : repos'[t] = repos[t]
  BY <1>0, <1>1 DEF TypeInv
<1>7. TypeInv'
  BY <1>0, <1>1, <1>3, <1>4, <1>5, <1>15 DEF TypeInv, SomeRepo
<1>8. OneSlugEach'
  BY <1>1, <1>6 DEF RepoInv, OneSlugEach
<1>9. RowsFollow'
  <2> SUFFICES ASSUME NEW y \in rows', y.timely PROVE repos'[y.slug] = y.of
    BY DEF RowsFollow
  <2>1. y \in RowRecords
    BY <1>5
  <2>2. y.of # NoRepo /\ y.slug \in Slugs
    BY <2>1, RepositoriesAssumption DEF RowRecords
  <2> QED
    BY <1>1, <1>5, <1>6, <2>2 DEF RepoInv, RowsFollow
<1>10. AliasesLeadHome'
  <2> SUFFICES ASSUME NEW t \in Slugs, aliases[t] # NoAlias
               PROVE  repos'[aliases[t].canonical] = aliases[t].of
    BY <1>1 DEF AliasesLeadHome
  <2>1. aliases[t].of # NoRepo /\ aliases[t].canonical \in Slugs
    BY <1>0, RepositoriesAssumption DEF TypeInv, AliasRecords
  <2>2. repos[aliases[t].canonical] = aliases[t].of
    BY DEF RepoInv, AliasesLeadHome
  <2> QED
    BY <1>1, <1>6, <2>1, <2>2
<1>11. DefaultBranchIsProtected'
  <2> SUFFICES ASSUME NEW t \in Slugs, repos'[t] # NoRepo, ~info'[repos'[t]].optOut
               PROVE  HasRule(rows', t, info'[repos'[t]].branch)
    BY DEF DefaultBranchIsProtected
  <2>1. CASE t = s
    BY <1>5, <1>6, <2>1
  <2>2. CASE t # s
    <3>1. repos'[t] = repos[t] /\ repos[t] \in RepoIds \ {id}
      BY <1>0, <1>1, <1>6, <2>2 DEF RepoInv, TypeInv, SomeRepo, OneSlugEach
    <3>2. HasRule(rows, t, info[repos[t]].branch)
      BY <1>15, <3>1 DEF RepoInv, DefaultBranchIsProtected
    <3> QED
      BY <1>5, <1>15, <3>1, <3>2, MoreRows
  <2> QED
    BY <2>1, <2>2
<1>12. DirectoriesInv'
  <2>1. /\ made' \subseteq used'
        /\ \A k \in TransferKeys : transfers'[k] # NoJournal => transfers'[k].id \in used'
        /\ \A t \in Slugs : dirs'[t] \in used' \cup {NoRepo}
        /\ \A t, u \in Slugs : dirs'[t] = dirs'[u] /\ dirs'[t] # NoRepo => t = u
    BY <1>1 DEF RepoInv, DirectoriesInv
  <2>2. session'[w] = x /\ \A v \in Callers \ {w} : session'[v] = session[v]
    BY <1>0, <1>4 DEF TypeInv
  <2>3. \A v \in Callers : Pending(v) => session[v].of \in used
    BY DEF RepoInv, DirectoriesInv
  <2>4. \A k \in TransferKeys : Stored(k) => transfers[k].id \in used
    BY <1>0, NoneIsNone DEF RepoInv, DirectoriesInv, Stored
  <2>5. ASSUME NEW v \in Callers, Pending(v)'
        PROVE  /\ session'[v].of \in used' \ made'
               /\ \A t \in Slugs : dirs'[t] # session'[v].of
               /\ \A k \in TransferKeys : Stored(k)' => transfers'[k].id # session'[v].of
               /\ \A u \in Callers : Pending(u)' /\ session'[u].of = session'[v].of => u = v
    <3>1. CASE v = w
      <4>1. id \in used' \ made'
        BY <1>1 DEF RepoInv, DirectoriesInv
      <4>2. \A t \in Slugs : dirs[t] # id
        BY <1>0, <1>1 DEF RepoInv, DirectoriesInv
      <4>3. \A k \in TransferKeys : Stored(k)' => transfers'[k].id # id
        BY <1>1, <2>4 DEF Stored
      <4>4. \A u \in Callers : Pending(u)' /\ session'[u].of = id => u = w
        BY <1>1, <2>2, <2>3 DEF Pending
      <4> QED
        BY <1>1, <1>3, <2>2, <3>1, <4>1, <4>2, <4>3, <4>4
    <3>2. CASE v # w
      <4>1. session'[v] = session[v] /\ Pending(v)
        BY <2>2, <2>5, <3>2 DEF Pending
      <4>2. session[v].of \in used \ made /\ session[v].of # id
        BY <1>1, <4>1 DEF RepoInv, DirectoriesInv
      <4>3. /\ \A t \in Slugs : dirs[t] # session[v].of
            /\ \A k \in TransferKeys : Stored(k)' => transfers'[k].id # session[v].of
        BY <1>1, <4>1 DEF RepoInv, DirectoriesInv, Stored
      <4>4. \A u \in Callers : Pending(u)' /\ session'[u].of = session[v].of => u = v
        BY <1>3, <2>2, <4>1, <4>2 DEF RepoInv, DirectoriesInv, Pending
      <4> QED
        BY <1>1, <4>1, <4>2, <4>3, <4>4
    <3> QED
      BY <3>1, <3>2
  <2> QED
    BY <2>1, <2>5 DEF DirectoriesInv
<1>13. TransfersInv'
  <2> SUFFICES ASSUME NEW k \in TransferKeys, Stored(k)', Settled(transfers[k].id)
               PROVE  /\ dirs[transfers[k].to] = transfers[k].id /\ repos'[transfers[k].from] = transfers[k].id
                      /\ transfers[k].from # transfers[k].to
                      /\ \A l \in TransferKeys : Stored(l)' /\ transfers[l].id = transfers[k].id => l = k
    BY <1>1 DEF TransfersInv, Settled
  <2>1. \A l \in TransferKeys : Stored(l)' <=> Stored(l)
    BY <1>1 DEF Stored
  <2>2. /\ dirs[transfers[k].to] = transfers[k].id /\ repos[transfers[k].from] = transfers[k].id
        /\ transfers[k].from # transfers[k].to
        /\ \A l \in TransferKeys : Stored(l) /\ transfers[l].id = transfers[k].id => l = k
    BY <2>1 DEF RepoInv, TransfersInv
  <2>3. transfers[k] \in Journals
    BY <1>0, <2>1, NoneIsNone DEF TypeInv, Stored
  <2>4. transfers[k].id # NoRepo /\ transfers[k].from \in Slugs
    BY <2>3, RepositoriesAssumption DEF Journals
  <2> QED
    BY <1>1, <1>6, <2>1, <2>2, <2>4
<1>14. DiskFollowsRegistry'
  <2>1. id \notin made
    BY <1>1 DEF RepoInv, DirectoriesInv
  <2> QED
    BY <1>1, <1>6, <2>1 DEF RepoInv, DiskFollowsRegistry
<1> QED
  BY <1>7, <1>8, <1>9, <1>10, <1>11, <1>12, <1>13, <1>14 DEF RepoInv

LEMMA MaterializeKeeps ==
    ASSUME RepoInv, NEW w \in Callers, Materialize(w)
    PROVE  RepoInv'
<1>0. TypeInv
  BY DEF RepoInv
<1>1. session[w] \in Materializing /\ Pending(w)
  BY <1>0, SessionKinds DEF TypeInv, Materialize, Pending
<1>2. PICK s \in Slugs, id \in RepoIds : s = session[w].slug /\ id = session[w].of
  BY <1>1 DEF Materializing
<1>3. /\ session' \in [Callers -> Sessions]
      /\ \A v \in Callers : Pending(v)' => Pending(v) /\ session'[v] = session[v]
  BY <1>0, SessionEnds DEF Materialize
<1>4. UNCHANGED <<repos, info, aliases, transfers, rows, counters, used, torn>>
  BY DEF Materialize
<1>5. CASE dirs[s] # NoRepo
  BY <1>2, <1>3, <1>4, <1>5, OnlySession DEF Materialize
<1>6. CASE dirs[s] = NoRepo
  <2>1. /\ dirs' = [dirs EXCEPT ![s] = id]
        /\ made' = IF repos[s] = id THEN made \cup {id} ELSE made
    BY <1>2, <1>6 DEF Materialize
  <2>2. dirs'[s] = id /\ \A t \in Slugs \ {s} : dirs'[t] = dirs[t]
    BY <1>0, <2>1 DEF TypeInv
  <2>3. /\ id \in used \ made /\ \A t \in Slugs : dirs[t] # id
        /\ \A k \in TransferKeys : Stored(k) => transfers[k].id # id
        /\ \A v \in Callers : Pending(v) /\ session[v].of = id => v = w
    BY <1>1, <1>2 DEF RepoInv, DirectoriesInv
  <2>4. \A v \in Callers : Pending(v)' => v # w
    BY <1>0, SessionKinds DEF Materialize, Pending, TypeInv
  <2>5. TypeInv'
    BY <1>0, <1>3, <1>4, <2>1 DEF TypeInv, SomeRepo
  <2>6. OneSlugEach' /\ RowsFollow' /\ AliasesLeadHome' /\ DefaultBranchIsProtected'
    BY <1>4 DEF RepoInv, OneSlugEach, RowsFollow, AliasesLeadHome, DefaultBranchIsProtected, HasRule, Rules, At
  <2>7. made' \subseteq used /\ \A r \in made' : r \in made \/ (r = id /\ repos[s] = id)
    BY <2>1, <2>3 DEF RepoInv, DirectoriesInv
  <2>8. DirectoriesInv'
    <3>1. /\ made' \subseteq used'
          /\ \A k \in TransferKeys : transfers'[k] # NoJournal => transfers'[k].id \in used'
          /\ \A t \in Slugs : dirs'[t] \in used' \cup {NoRepo}
      BY <1>4, <2>2, <2>3, <2>7 DEF RepoInv, DirectoriesInv
    <3>2. \A t, u \in Slugs : dirs'[t] = dirs'[u] /\ dirs'[t] # NoRepo => t = u
      BY <2>2, <2>3 DEF RepoInv, DirectoriesInv
    <3>3. ASSUME NEW v \in Callers, Pending(v)'
          PROVE  /\ session'[v].of \in used' \ made'
                 /\ \A t \in Slugs : dirs'[t] # session'[v].of
                 /\ \A k \in TransferKeys : Stored(k)' => transfers'[k].id # session'[v].of
                 /\ \A u \in Callers : Pending(u)' /\ session'[u].of = session'[v].of => u = v
      <4>1. session'[v] = session[v] /\ Pending(v) /\ session[v].of # id
        BY <1>3, <2>3, <2>4, <3>3
      <4>2. session[v].of \in used' \ made'
        BY <1>4, <2>7, <4>1 DEF RepoInv, DirectoriesInv
      <4>3. /\ \A t \in Slugs : dirs'[t] # session[v].of
            /\ \A k \in TransferKeys : Stored(k)' => transfers'[k].id # session[v].of
        BY <1>4, <2>2, <4>1 DEF RepoInv, DirectoriesInv, Stored
      <4>4. \A u \in Callers : Pending(u)' /\ session'[u].of = session[v].of => u = v
        BY <1>3, <4>1 DEF RepoInv, DirectoriesInv
      <4> QED
        BY <4>1, <4>2, <4>3, <4>4
    <3> QED
      BY <3>1, <3>2, <3>3 DEF DirectoriesInv
  <2>9. TransfersInv'
    <3> SUFFICES ASSUME NEW k \in TransferKeys, Stored(k)', Settled(transfers[k].id)'
                 PROVE  /\ dirs'[transfers[k].to] = transfers[k].id /\ repos[transfers[k].from] = transfers[k].id
                        /\ transfers[k].from # transfers[k].to
                        /\ \A l \in TransferKeys : Stored(l)' /\ transfers[l].id = transfers[k].id => l = k
      BY <1>4 DEF TransfersInv
    <3>1. \A l \in TransferKeys : Stored(l)' <=> Stored(l)
      BY <1>4 DEF Stored
    <3>2. transfers[k].id # id /\ Settled(transfers[k].id)
      BY <1>4, <2>3, <2>7, <3>1 DEF Settled
    <3>3. /\ dirs[transfers[k].to] = transfers[k].id /\ repos[transfers[k].from] = transfers[k].id
          /\ transfers[k].from # transfers[k].to
          /\ \A l \in TransferKeys : Stored(l) /\ transfers[l].id = transfers[k].id => l = k
      BY <3>1, <3>2 DEF RepoInv, TransfersInv
    <3>4. transfers[k] \in Journals
      BY <1>0, <3>1, NoneIsNone DEF TypeInv, Stored
    <3>5. transfers[k].id # NoRepo /\ transfers[k].to \in Slugs
      BY <3>4, RepositoriesAssumption DEF Journals
    <3> QED
      BY <1>6, <2>2, <3>1, <3>3, <3>5
  <2>10. DiskFollowsRegistry'
    <3> SUFFICES ASSUME NEW t \in Slugs, repos[t] \in made' \ torn,
                        ~\E k \in TransferKeys : Stored(k) /\ transfers[k].id = repos[t]
                 PROVE  dirs'[t] = repos[t]
      BY <1>4 DEF DiskFollowsRegistry, Stored
    <3>1. CASE repos[t] = id
      <4>1. repos[s] = id
        BY <2>3, <2>7, <3>1
      <4>2. t = s
        BY <1>2, <3>1, <4>1, RepositoriesAssumption DEF RepoInv, OneSlugEach
      <4> QED
        BY <2>2, <3>1, <4>2
    <3>2. CASE repos[t] # id
      <4>1. repos[t] \in made \ torn
        BY <2>7, <3>2
      <4>2. dirs[t] = repos[t]
        BY <4>1 DEF RepoInv, DiskFollowsRegistry, Stored
      <4>3. repos[t] # NoRepo
        BY <1>0, <4>1, RepositoriesAssumption DEF TypeInv, RepoInv, DirectoriesInv
      <4> QED
        BY <1>6, <2>2, <4>2, <4>3
    <3> QED
      BY <3>1, <3>2
  <2> QED
    BY <2>5, <2>6, <2>8, <2>9, <2>10 DEF RepoInv
<1> QED
  BY <1>5, <1>6

LEMMA DeleteKeeps ==
    ASSUME RepoInv, NEW s \in Slugs, DeleteRepository(s)
    PROVE  RepoInv'
<1>0. TypeInv
  BY DEF RepoInv
<1>1. PICK id \in RepoIds : id = repos[s]
  BY <1>0 DEF TypeInv, SomeRepo, DeleteRepository
<1>2. /\ repos' = [repos EXCEPT ![s] = NoRepo] /\ rows' = rows \ At(rows, s)
      /\ counters' = [counters EXCEPT ![s] = 0]
      /\ aliases' = [t \in Slugs |-> IF aliases[t].of = id THEN NoAlias ELSE aliases[t]]
      /\ transfers' = [k \in TransferKeys |->
                          IF transfers[k] # NoJournal /\ transfers[k].id = id
                          THEN NoJournal ELSE transfers[k]]
      /\ info' = [info EXCEPT ![id] = NewInfo]
      /\ UNCHANGED <<dirs, session, used, made, torn>>
  BY <1>1 DEF DeleteRepository
<1>3. id # NoRepo
  BY RepositoriesAssumption
<1>4. repos'[s] = NoRepo /\ \A t \in Slugs \ {s} : repos'[t] = repos[t] /\ repos[t] # id
  BY <1>0, <1>1, <1>2, <1>3 DEF TypeInv, RepoInv, OneSlugEach
<1>5. TypeInv'
  BY <1>0, <1>2, NoneIsNone DEF TypeInv, SomeRepo
<1>6. OneSlugEach'
  BY <1>2, <1>4 DEF RepoInv, OneSlugEach
<1>7. RowsFollow'
  <2> SUFFICES ASSUME NEW y \in rows', y.timely PROVE repos'[y.slug] = y.of
    BY DEF RowsFollow
  <2>1. y \in rows /\ y.slug \in Slugs \ {s}
    BY <1>0, <1>2 DEF TypeInv, RowRecords, At
  <2> QED
    BY <1>4, <2>1 DEF RepoInv, RowsFollow
<1>8. AliasesLeadHome'
  <2> SUFFICES ASSUME NEW t \in Slugs, aliases'[t] # NoAlias
               PROVE  repos'[aliases'[t].canonical] = aliases'[t].of
    BY DEF AliasesLeadHome
  <2>1. aliases'[t] = aliases[t] /\ aliases[t].of # id
    BY <1>2
  <2>2. aliases[t].canonical \in Slugs /\ repos[aliases[t].canonical] = aliases[t].of
    BY <1>0, <2>1 DEF TypeInv, AliasRecords, RepoInv, AliasesLeadHome
  <2> QED
    BY <1>1, <1>4, <2>1, <2>2
<1>9. DefaultBranchIsProtected'
  <2> SUFFICES ASSUME NEW t \in Slugs, repos'[t] # NoRepo, ~info'[repos'[t]].optOut
               PROVE  HasRule(rows', t, info'[repos'[t]].branch)
    BY DEF DefaultBranchIsProtected
  <2>1. t # s /\ repos'[t] = repos[t] /\ repos[t] # id /\ repos[t] \in RepoIds
    BY <1>0, <1>4 DEF TypeInv, SomeRepo
  <2>2. info'[repos[t]] = info[repos[t]]
    BY <1>0, <1>2, <2>1 DEF TypeInv
  <2>3. HasRule(rows, t, info[repos[t]].branch)
    BY <2>1, <2>2 DEF RepoInv, DefaultBranchIsProtected
  <2>4. HasRule(rows', t, info[repos[t]].branch)
    BY <1>2, <2>1, <2>3 DEF HasRule, Rules, At
  <2> QED
    BY <2>1, <2>2, <2>4
<1>10. \A k \in TransferKeys :
          /\ Stored(k)' => Stored(k) /\ transfers[k].id # id /\ transfers'[k] = transfers[k]
          /\ Stored(k) /\ transfers[k].id # id => Stored(k)' /\ transfers'[k] = transfers[k]
          /\ transfers'[k] # NoJournal => transfers[k] # NoJournal /\ transfers'[k] = transfers[k]
  BY <1>2, NoneIsNone DEF Stored
<1>11. DirectoriesInv'
  BY <1>2, <1>10 DEF RepoInv, DirectoriesInv, Pending
<1>12. TransfersInv'
  <2> SUFFICES ASSUME NEW k \in TransferKeys, Stored(k)', Settled(transfers'[k].id)
               PROVE  /\ dirs[transfers'[k].to] = transfers'[k].id /\ repos'[transfers'[k].from] = transfers'[k].id
                      /\ transfers'[k].from # transfers'[k].to
                      /\ \A l \in TransferKeys : Stored(l)' /\ transfers'[l].id = transfers'[k].id => l = k
    BY <1>2 DEF TransfersInv, Settled
  <2>1. transfers'[k] = transfers[k] /\ Stored(k) /\ transfers[k].id # id
    BY <1>10
  <2>2. /\ dirs[transfers[k].to] = transfers[k].id /\ repos[transfers[k].from] = transfers[k].id
        /\ transfers[k].from # transfers[k].to
        /\ \A l \in TransferKeys : Stored(l) /\ transfers[l].id = transfers[k].id => l = k
    BY <2>1 DEF RepoInv, TransfersInv
  <2>3. transfers[k] \in Journals
    BY <1>0, <2>1, NoneIsNone DEF TypeInv, Stored
  <2>4. transfers[k].from \in Slugs \ {s}
    BY <1>1, <2>1, <2>2, <2>3 DEF Journals
  <2>5. \A l \in TransferKeys : Stored(l)' => Stored(l) /\ transfers'[l] = transfers[l]
    BY <1>10
  <2> QED
    BY <1>4, <2>1, <2>2, <2>4, <2>5
<1>13. DiskFollowsRegistry'
  <2> SUFFICES ASSUME NEW t \in Slugs, repos'[t] \in made \ torn,
                      ~\E k \in TransferKeys : Stored(k)' /\ transfers'[k].id = repos'[t]
               PROVE  dirs[t] = repos'[t]
    BY <1>2 DEF DiskFollowsRegistry, Stored
  <2>1. NoRepo \notin made
    BY <1>0, RepositoriesAssumption DEF RepoInv, TypeInv, DirectoriesInv
  <2>2. t # s /\ repos'[t] = repos[t] /\ repos[t] # id
    BY <1>4, <2>1
  <2>3. ~\E k \in TransferKeys : Stored(k) /\ transfers[k].id = repos[t]
    BY <1>10, <2>2
  <2> QED
    BY <2>2, <2>3 DEF RepoInv, DiskFollowsRegistry, Stored
<1> QED
  BY <1>5, <1>6, <1>7, <1>8, <1>9, <1>11, <1>12, <1>13 DEF RepoInv

-----------------------------------------------------------------------------
(* Moves                                                                       *)

RegistryPart ==
    /\ repos \in [Slugs -> SomeRepo] /\ rows \subseteq RowRecords /\ counters \in [Slugs -> Nat]
    /\ aliases \in [Slugs -> {NoAlias} \cup AliasRecords]
    /\ OneSlugEach /\ RowsFollow /\ AliasesLeadHome /\ DefaultBranchIsProtected

\* MoveRegistry with the new registry as arguments.
RekeyedTo(rp, rs, cs, al, as, id, old, new) ==
    /\ rp = [repos EXCEPT ![old] = NoRepo, ![new] = id] /\ rs = Rekeyed(rows, old, new)
    /\ cs = [counters EXCEPT ![old] = 0, ![new] = counters[old]]
    /\ al = RecordAlias(as, id, old, new)

\* The repository id is at new, where no other is, and nothing else has moved.
MovedTo(rp, id, old, new) ==
    /\ rp[old] = NoRepo /\ rp[new] = id
    /\ \A t \in Slugs \ {old, new} : rp[t] = repos[t] /\ repos[t] # id

\* The re-keyed registry: the rows, the aliases and the rule go with the
\* repository, whether or not the alias at the target was reclaimed.
LEMMA RegistryMoves ==
    ASSUME RepoInv, NEW id, NEW old \in Slugs, NEW new \in Slugs, NEW as,
           as \in [Slugs -> {NoAlias} \cup AliasRecords],
           \A t \in Slugs : as[t] = aliases[t] \/ as[t] = NoAlias,
           repos[old] = id, id # NoRepo, repos[new] = NoRepo,
           RekeyedTo(repos', rows', counters', aliases', as, id, old, new), UNCHANGED <<info, used>>
    PROVE  RegistryPart' /\ MovedTo(repos', id, old, new)
<1>0. TypeInv /\ old # new /\ id \in RepoIds
  BY DEF RepoInv, TypeInv, SomeRepo
<1>1. /\ repos' = [repos EXCEPT ![old] = NoRepo, ![new] = id] /\ rows' = Rekeyed(rows, old, new)
      /\ counters' = [counters EXCEPT ![old] = 0, ![new] = counters[old]]
      /\ aliases' = RecordAlias(as, id, old, new)
  BY DEF RekeyedTo
<1>2. /\ repos'[old] = NoRepo /\ repos'[new] = id
      /\ \A t \in Slugs \ {old, new} : repos'[t] = repos[t] /\ repos[t] # id
  BY <1>0, <1>1 DEF TypeInv, RepoInv, OneSlugEach
<1>3. repos' \in [Slugs -> SomeRepo] /\ counters' \in [Slugs -> Nat]
  BY <1>0, <1>1 DEF TypeInv, SomeRepo
<1>4. OneSlugEach'
  BY <1>2 DEF RepoInv, OneSlugEach
<1>5. /\ rows' \subseteq RowRecords
      /\ \A y \in rows' :
            \/ y \in rows /\ y.slug # old
            \/ \E x \in rows : x.slug = old /\ y.slug = new /\ y.of = x.of /\ (y.timely <=> x.timely)
      /\ \A b : HasRule(rows, old, b) => HasRule(rows', new, b)
      /\ \A s \in Slugs \ {old, new} : \A b : HasRule(rows, s, b) => HasRule(rows', s, b)
  <2>1. rows \in SUBSET RowRecords
    BY <1>0 DEF TypeInv
  <2> QED
    BY <1>0, <1>1, <2>1, RekeyMovesRows
<1>6. RowsFollow'
  <2> SUFFICES ASSUME NEW y \in rows', y.timely PROVE repos'[y.slug] = y.of
    BY DEF RowsFollow
  <2>1. CASE y \in rows /\ y.slug # old
    <3>1. y.slug \in Slugs /\ y.of # NoRepo /\ repos[y.slug] = y.of
      BY <1>0, <2>1, RepositoriesAssumption DEF TypeInv, RowRecords, RepoInv, RowsFollow
    <3> QED
      BY <1>2, <2>1, <3>1
  <2>2. ASSUME NEW x \in rows, x.slug = old, y.slug = new, y.of = x.of, y.timely <=> x.timely
        PROVE  repos'[y.slug] = y.of
    BY <1>2, <2>2 DEF RepoInv, RowsFollow
  <2> QED
    BY <1>5, <2>1, <2>2
<1>7. ASSUME NEW t \in Slugs
      PROVE  /\ aliases'[t] \in {NoAlias} \cup AliasRecords
             /\ aliases'[t] # NoAlias => repos'[aliases'[t].canonical] = aliases'[t].of
  <2>1. CASE t = old
    <3>1. aliases'[t] = [of |-> id, canonical |-> new]
      BY <1>1, <2>1 DEF RecordAlias
    <3> QED
      BY <1>0, <1>2, <3>1 DEF AliasRecords
  <2>2. CASE t # old /\ as[t].of = id
    <3>1. as[t] \in AliasRecords
      BY <1>0, <2>2, NoneIsNone DEF RepoInv
    <3>2. aliases'[t] = [as[t] EXCEPT !.canonical = new]
      BY <1>1, <2>2 DEF RecordAlias
    <3> QED
      BY <1>2, <2>2, <3>1, <3>2 DEF AliasRecords
  <2>3. CASE t # old /\ as[t].of # id
    <3>1. aliases'[t] = as[t]
      BY <1>1, <2>3 DEF RecordAlias
    <3>2. ASSUME as[t] # NoAlias PROVE repos'[as[t].canonical] = as[t].of
      <4>1. as[t] = aliases[t] /\ as[t] \in AliasRecords
        BY <3>2
      <4>2. repos[as[t].canonical] = as[t].of
        BY <3>2, <4>1 DEF RepoInv, AliasesLeadHome
      <4>3. as[t].canonical \in Slugs /\ as[t].of # NoRepo
        BY <4>1, RepositoriesAssumption DEF AliasRecords
      <4> QED
        BY <1>2, <2>3, <4>2, <4>3
    <3> QED
      BY <3>1, <3>2
  <2> QED
    BY <2>1, <2>2, <2>3
<1>8. aliases' \in [Slugs -> {NoAlias} \cup AliasRecords] /\ AliasesLeadHome'
  <2>1. aliases' = [t \in Slugs |-> aliases'[t]]
    BY <1>1 DEF RecordAlias
  <2> QED
    BY <1>7, <2>1 DEF AliasesLeadHome
<1>9. DefaultBranchIsProtected'
  BY <1>2, <1>5 DEF RepoInv, DefaultBranchIsProtected
<1>10. MovedTo(repos', id, old, new)
  BY <1>2 DEF MovedTo
<1> QED
  BY <1>3, <1>4, <1>5, <1>6, <1>8, <1>9, <1>10 DEF RegistryPart

\* A directory that moves to a free place.
LEMMA DirectoryMoves ==
    ASSUME RepoInv, NEW old \in Slugs, NEW new \in Slugs, CanRelocate(old, new),
           dirs' = Moved(dirs, old, new), UNCHANGED <<made, used>>,
           \A k \in TransferKeys : transfers'[k] # NoJournal => transfers'[k].id \in used,
           \A k \in TransferKeys : Stored(k)' => Stored(k) \/ transfers'[k].id = dirs[old],
           \A k \in TransferKeys : Stored(k)' => transfers'[k].id = transfers[k].id,
           \A w \in Callers : Pending(w)' => Pending(w) /\ session'[w] = session[w]
    PROVE  /\ DirectoriesInv' /\ dirs' \in [Slugs -> SomeRepo] /\ old # new
           /\ dirs'[old] = NoRepo /\ dirs'[new] = dirs[old]
           /\ \A t \in Slugs \ {old, new} : dirs'[t] = dirs[t]
<1>0. TypeInv /\ old # new
  BY DEF RepoInv, CanRelocate
<1>1. dirs' = [dirs EXCEPT ![old] = NoRepo, ![new] = dirs[old]]
  BY DEF Moved
<1>2. /\ dirs'[old] = NoRepo /\ dirs'[new] = dirs[old]
      /\ \A t \in Slugs \ {old, new} : dirs'[t] = dirs[t]
  BY <1>0, <1>1 DEF TypeInv
<1>3. dirs' \in [Slugs -> SomeRepo]
  BY <1>0, <1>1 DEF TypeInv, SomeRepo
<1>4. \A s, t \in Slugs : dirs'[s] = dirs'[t] /\ dirs'[s] # NoRepo => s = t
  BY <1>2 DEF RepoInv, DirectoriesInv
<1>5. \A t \in Slugs : dirs'[t] \in used' \cup {NoRepo}
  BY <1>2 DEF RepoInv, DirectoriesInv
<1>6. ASSUME NEW v \in Callers, Pending(v)'
      PROVE  /\ session'[v].of \in used' \ made'
             /\ \A t \in Slugs : dirs'[t] # session'[v].of
             /\ \A k \in TransferKeys : Stored(k)' => transfers'[k].id # session'[v].of
             /\ \A u \in Callers : Pending(u)' /\ session'[u].of = session'[v].of => u = v
  <2>1. session'[v] = session[v] /\ Pending(v)
    BY <1>6
  <2>2. /\ session[v].of \in used \ made
        /\ \A s \in Slugs : dirs[s] # session[v].of
        /\ \A k \in TransferKeys : Stored(k) => transfers[k].id # session[v].of
        /\ \A u \in Callers : Pending(u) /\ session[u].of = session[v].of => u = v
    BY <2>1 DEF RepoInv, DirectoriesInv
  <2>3. session[v].of # NoRepo
    BY <1>0, <2>2, RepositoriesAssumption DEF TypeInv
  <2> QED
    BY <1>2, <2>1, <2>2, <2>3
<1>7. made' \subseteq used' /\ \A k \in TransferKeys : transfers'[k] # NoJournal => transfers'[k].id \in used'
  BY DEF RepoInv, DirectoriesInv
<1> QED
  BY <1>0, <1>2, <1>3, <1>4, <1>5, <1>6, <1>7 DEF DirectoriesInv

\* What a stored transfer of a repository that nothing tore says.
LEMMA StoredIsAhead ==
    ASSUME RepoInv, NEW k \in TransferKeys, Stored(k)
    PROVE  /\ transfers[k] \in Journals /\ transfers[k] # NoJournal
           /\ transfers[k].id \in used /\ transfers[k].id # NoRepo
           /\ transfers[k].from \in Slugs /\ transfers[k].to \in Slugs
           /\ Settled(transfers[k].id) =>
                 /\ dirs[transfers[k].to] = transfers[k].id /\ repos[transfers[k].from] = transfers[k].id
                 /\ transfers[k].from # transfers[k].to
                 /\ \A l \in TransferKeys : Stored(l) /\ transfers[l].id = transfers[k].id => l = k
<1>1. transfers[k] \in Journals /\ transfers[k] # NoJournal
  BY NoneIsNone DEF RepoInv, TypeInv, Stored
<1>2. transfers[k].id # NoRepo /\ transfers[k].from \in Slugs /\ transfers[k].to \in Slugs
  BY <1>1, RepositoriesAssumption DEF Journals
<1> QED
  BY <1>1, <1>2 DEF RepoInv, DirectoriesInv, TransfersInv

LEMMA RenameKeeps ==
    ASSUME RepoInv, NEW old \in Slugs, NEW new \in Slugs, RenameRepository(old, new)
    PROVE  RepoInv'
<1>0. TypeInv
  BY DEF RepoInv
<1>1. PICK id \in RepoIds : id = repos[old]
  BY <1>0 DEF TypeInv, SomeRepo, RenameRepository, MayRename
<1>2. PICK as : as = [aliases EXCEPT ![new] = NoAlias]
  OBVIOUS
<1>3. /\ repos[new] = NoRepo /\ old # new
      /\ RekeyedTo(repos', rows', counters', aliases', as, id, old, new)
      /\ CanRelocate(old, new) /\ dirs' = Moved(dirs, old, new)
      /\ torn' = IF dirs[old] = id THEN torn ELSE torn \cup {dirs[old]} \cup ({id} \cap made)
      /\ UNCHANGED <<info, transfers, session, used, made>>
  BY <1>1, <1>2 DEF RenameRepository, MayRename, Relocated, MoveRegistry, RekeyedTo
<1>4. /\ RegistryPart'
      /\ repos'[old] = NoRepo /\ repos'[new] = id
      /\ \A t \in Slugs \ {old, new} : repos'[t] = repos[t] /\ repos[t] # id
  <2>1. as \in [Slugs -> {NoAlias} \cup AliasRecords] /\ \A t \in Slugs : as[t] = aliases[t] \/ as[t] = NoAlias
    BY <1>0, <1>2 DEF TypeInv
  <2>2. id # NoRepo /\ repos[old] = id
    BY <1>1, RepositoriesAssumption
  <2>3. UNCHANGED <<info, used>>
    BY <1>3
  <2>4. /\ \A t \in Slugs : as[t] = aliases[t] \/ as[t] = NoAlias
        /\ repos[old] = id /\ repos[new] = NoRepo /\ RekeyedTo(repos', rows', counters', aliases', as, id, old, new)
    BY <1>3, <2>1, <2>2
  <2>5. RegistryPart' /\ MovedTo(repos', id, old, new)
    BY <2>1, <2>2, <2>3, <2>4, RegistryMoves
  <2> QED
    BY <2>5 DEF MovedTo
<1>5. /\ DirectoriesInv' /\ dirs' \in [Slugs -> SomeRepo]
      /\ dirs'[old] = NoRepo /\ dirs'[new] = dirs[old]
      /\ \A t \in Slugs \ {old, new} : dirs'[t] = dirs[t]
  <2>1. \A k \in TransferKeys : Stored(k)' => Stored(k)
    BY <1>3 DEF Stored
  <2>2. \A w \in Callers : Pending(w)' => Pending(w) /\ session'[w] = session[w]
    BY <1>3 DEF Pending
  <2>3. \A k \in TransferKeys : transfers'[k] # NoJournal => transfers'[k].id \in used
    BY <1>3 DEF RepoInv, DirectoriesInv
  <2> QED
    BY <1>3, <2>1, <2>2, <2>3, DirectoryMoves
<1>6. /\ dirs[old] # NoRepo /\ dirs[new] = NoRepo /\ NoRepo \notin made
      /\ \A r \in made \ torn' : r \notin torn /\ (r = dirs[old] => r = id) /\ (r = id => dirs[old] = id)
  BY <1>0, <1>3, RepositoriesAssumption DEF CanRelocate, RepoInv, DirectoriesInv, TypeInv
<1>7. TransfersInv'
  <2> SUFFICES ASSUME NEW k \in TransferKeys, Stored(k), transfers[k].id \in made \ torn'
               PROVE  /\ dirs'[transfers[k].to] = transfers[k].id /\ repos'[transfers[k].from] = transfers[k].id
                      /\ transfers[k].from # transfers[k].to
                      /\ \A l \in TransferKeys : Stored(l) /\ transfers[l].id = transfers[k].id => l = k
    BY <1>3 DEF TransfersInv, Settled, Stored
  <2>1. Settled(transfers[k].id)
    BY <1>6 DEF Settled
  <2>2. /\ dirs[transfers[k].to] = transfers[k].id /\ repos[transfers[k].from] = transfers[k].id
        /\ transfers[k].from # transfers[k].to
        /\ \A l \in TransferKeys : Stored(l) /\ transfers[l].id = transfers[k].id => l = k
        /\ transfers[k].from \in Slugs /\ transfers[k].to \in Slugs /\ transfers[k].id # NoRepo
    BY <2>1, StoredIsAhead
  <2>3. transfers[k].id # id
    <3>1. SUFFICES ASSUME transfers[k].id = id PROVE FALSE
      OBVIOUS
    <3>2. transfers[k].from = old /\ dirs[old] = id
      BY <1>1, <1>6, <2>2, <3>1 DEF RepoInv, OneSlugEach
    <3>3. transfers[k].to = old
      BY <1>6, <2>2, <3>1, <3>2 DEF RepoInv, DirectoriesInv
    <3> QED
      BY <2>2, <3>2, <3>3
  <2>4. transfers[k].from \notin {old, new} /\ transfers[k].to \notin {old, new}
    BY <1>1, <1>3, <1>6, <2>2, <2>3
  <2> QED
    BY <1>4, <1>5, <2>2, <2>4
<1>8. DiskFollowsRegistry'
  <2> SUFFICES ASSUME NEW t \in Slugs, repos'[t] \in made \ torn',
                      ~\E k \in TransferKeys : Stored(k) /\ transfers[k].id = repos'[t]
               PROVE  dirs'[t] = repos'[t]
    BY <1>3 DEF DiskFollowsRegistry, Stored
  <2>1. t # old
    BY <1>4, <1>6
  <2>2. CASE t = new
    BY <1>4, <1>5, <1>6, <2>2
  <2>3. CASE t # new
    <3>1. repos'[t] = repos[t] /\ repos[t] \in made \ torn
      BY <1>4, <1>6, <2>1, <2>3
    <3>2. dirs[t] = repos[t]
      BY <3>1 DEF RepoInv, DiskFollowsRegistry, Stored
    <3> QED
      BY <1>5, <2>1, <2>3, <3>1, <3>2
  <2> QED
    BY <2>2, <2>3
<1>9. TypeInv'
  BY <1>0, <1>3, <1>4, <1>5 DEF TypeInv, RegistryPart
<1> QED
  BY <1>4, <1>5, <1>7, <1>8, <1>9 DEF RepoInv, RegistryPart

\* A directory that moves and is put back is where it was.
LEMMA PutBackUndoes ==
    ASSUME RepoInv, NEW old \in Slugs, NEW new \in Slugs, CanRelocate(old, new),
           dirs' = PutBack(Moved(dirs, old, new), old, new)
    PROVE  dirs' = dirs
<1>0. TypeInv
  BY DEF RepoInv
<1>2. old # new /\ dirs[new] = NoRepo
  BY DEF CanRelocate
<1>3. PICK m : m = Moved(dirs, old, new)
  OBVIOUS
<1>4. /\ m = [dirs EXCEPT ![old] = NoRepo, ![new] = dirs[old]]
      /\ dirs' = [m EXCEPT ![new] = NoRepo, ![old] = m[new]]
  BY <1>3 DEF Moved, PutBack
<1>5. /\ m[new] = dirs[old] /\ m[old] = NoRepo /\ \A t \in Slugs \ {old, new} : m[t] = dirs[t]
      /\ m \in [Slugs -> SomeRepo]
  BY <1>0, <1>2, <1>4 DEF TypeInv, SomeRepo
<1>6. dirs' \in [Slugs -> SomeRepo] /\ \A t \in Slugs : dirs'[t] = dirs[t]
  BY <1>0, <1>2, <1>4, <1>5 DEF TypeInv, SomeRepo
<1> QED
  BY <1>0, <1>6 DEF TypeInv

\* The directory moved and the registry did not: the process stopped, or the
\* directory was not put back.
LEMMA LeftApartKeeps ==
    ASSUME RepoInv, NEW old \in Slugs, NEW new \in Slugs, CanRelocate(old, new),
           dirs' = Moved(dirs, old, new), torn' = torn \cup {repos[old], dirs[old]},
           session' \in [Callers -> Sessions],
           \A w \in Callers : Pending(w)' => Pending(w) /\ session'[w] = session[w],
           UNCHANGED <<repos, info, aliases, transfers, rows, counters, used, made>>
    PROVE  RepoInv'
<1>0. TypeInv
  BY DEF RepoInv
<1>3. /\ DirectoriesInv' /\ dirs' \in [Slugs -> SomeRepo]
      /\ dirs'[old] = NoRepo /\ dirs'[new] = dirs[old]
      /\ \A t \in Slugs \ {old, new} : dirs'[t] = dirs[t]
  <2>1. \A k \in TransferKeys : Stored(k)' => Stored(k)
    BY DEF Stored
  <2>2. \A k \in TransferKeys : transfers'[k] # NoJournal => transfers'[k].id \in used
    BY DEF RepoInv, DirectoriesInv
  <2> QED
    BY <2>1, <2>2, DirectoryMoves
<1>4. /\ dirs[new] = NoRepo /\ NoRepo \notin made
      /\ \A r \in made \ torn' : r \notin torn /\ r # dirs[old] /\ r # repos[old]
  BY <1>0, RepositoriesAssumption DEF CanRelocate, RepoInv, DirectoriesInv, TypeInv
<1>5. TransfersInv'
  <2> SUFFICES ASSUME NEW k \in TransferKeys, Stored(k), transfers[k].id \in made \ torn'
               PROVE  /\ dirs'[transfers[k].to] = transfers[k].id /\ repos[transfers[k].from] = transfers[k].id
                      /\ transfers[k].from # transfers[k].to
                      /\ \A l \in TransferKeys : Stored(l) /\ transfers[l].id = transfers[k].id => l = k
    BY DEF TransfersInv, Settled, Stored
  <2>1. Settled(transfers[k].id)
    BY <1>4 DEF Settled
  <2>2. /\ dirs[transfers[k].to] = transfers[k].id /\ repos[transfers[k].from] = transfers[k].id
        /\ transfers[k].from # transfers[k].to
        /\ \A l \in TransferKeys : Stored(l) /\ transfers[l].id = transfers[k].id => l = k
        /\ transfers[k].to \in Slugs /\ transfers[k].id # NoRepo
    BY <2>1, StoredIsAhead
  <2>3. transfers[k].to \notin {old, new}
    BY <1>4, <2>2
  <2> QED
    BY <1>3, <2>2, <2>3
<1>6. DiskFollowsRegistry'
  <2> SUFFICES ASSUME NEW t \in Slugs, repos[t] \in made \ torn',
                      ~\E k \in TransferKeys : Stored(k) /\ transfers[k].id = repos[t]
               PROVE  dirs'[t] = repos[t]
    BY DEF DiskFollowsRegistry, Stored
  <2>1. dirs[t] = repos[t]
    BY <1>4 DEF RepoInv, DiskFollowsRegistry, Stored
  <2> QED
    BY <1>3, <1>4, <2>1
<1>7. TypeInv'
  BY <1>0, <1>3 DEF TypeInv
<1>8. OneSlugEach' /\ RowsFollow' /\ AliasesLeadHome' /\ DefaultBranchIsProtected'
  BY DEF RepoInv, OneSlugEach, RowsFollow, AliasesLeadHome, DefaultBranchIsProtected, HasRule, Rules, At
<1> QED
  BY <1>3, <1>5, <1>6, <1>7, <1>8 DEF RepoInv

\* The registry moved and the directory was put back, and the process stopped.
LEMMA StoppedLateKeeps ==
    ASSUME RepoInv, NEW old \in Slugs, NEW new \in Slugs, RenameStoppedLate(old, new)
    PROVE  RepoInv'
<1>0. TypeInv
  BY DEF RepoInv
<1>1. PICK id \in RepoIds : id = repos[old]
  BY <1>0 DEF TypeInv, SomeRepo, RenameStoppedLate, MayRename
<1>2. PICK as : as = [aliases EXCEPT ![new] = NoAlias]
  OBVIOUS
<1>3. /\ repos[new] = NoRepo /\ old # new
      /\ RekeyedTo(repos', rows', counters', aliases', as, id, old, new)
      /\ torn' = torn \cup {id} /\ session' = [w \in Callers |-> Idle]
      /\ UNCHANGED <<info, transfers, used, made>>
  BY <1>1, <1>2 DEF RenameStoppedLate, MayRename, MoveRegistry, RekeyedTo
<1>4. /\ RegistryPart'
      /\ repos'[old] = NoRepo /\ repos'[new] = id
      /\ \A t \in Slugs \ {old, new} : repos'[t] = repos[t] /\ repos[t] # id
  <2>1. as \in [Slugs -> {NoAlias} \cup AliasRecords] /\ \A t \in Slugs : as[t] = aliases[t] \/ as[t] = NoAlias
    BY <1>0, <1>2 DEF TypeInv
  <2>2. id # NoRepo /\ repos[old] = id
    BY <1>1, RepositoriesAssumption
  <2>3. UNCHANGED <<info, used>>
    BY <1>3
  <2>4. /\ \A t \in Slugs : as[t] = aliases[t] \/ as[t] = NoAlias
        /\ repos[old] = id /\ repos[new] = NoRepo /\ RekeyedTo(repos', rows', counters', aliases', as, id, old, new)
    BY <1>3, <2>1, <2>2
  <2>5. RegistryPart' /\ MovedTo(repos', id, old, new)
    BY <2>1, <2>2, <2>3, <2>4, RegistryMoves
  <2> QED
    BY <2>5 DEF MovedTo
<1>5. dirs' = dirs
  BY PutBackUndoes DEF RenameStoppedLate
<1>6. session' \in [Callers -> Sessions] /\ \A w \in Callers : ~Pending(w)'
  BY <1>3, SessionKinds DEF Pending
<1>7. DirectoriesInv'
  BY <1>3, <1>5, <1>6 DEF RepoInv, DirectoriesInv, Stored
<1>8. NoRepo \notin made
  BY <1>0, RepositoriesAssumption DEF RepoInv, DirectoriesInv, TypeInv
<1>9. TransfersInv'
  <2> SUFFICES ASSUME NEW k \in TransferKeys, Stored(k), transfers[k].id \in made \ torn'
               PROVE  /\ dirs'[transfers[k].to] = transfers[k].id /\ repos'[transfers[k].from] = transfers[k].id
                      /\ transfers[k].from # transfers[k].to
                      /\ \A l \in TransferKeys : Stored(l) /\ transfers[l].id = transfers[k].id => l = k
    BY <1>3 DEF TransfersInv, Settled, Stored
  <2>1. Settled(transfers[k].id) /\ transfers[k].id # id
    BY <1>3 DEF Settled
  <2>2. /\ dirs[transfers[k].to] = transfers[k].id /\ repos[transfers[k].from] = transfers[k].id
        /\ transfers[k].from # transfers[k].to
        /\ \A l \in TransferKeys : Stored(l) /\ transfers[l].id = transfers[k].id => l = k
        /\ transfers[k].from \in Slugs /\ transfers[k].id # NoRepo
    BY <2>1, StoredIsAhead
  <2>3. transfers[k].from \notin {old, new}
    BY <1>1, <1>3, <2>1, <2>2
  <2> QED
    BY <1>4, <1>5, <2>2, <2>3
<1>10. DiskFollowsRegistry'
  <2> SUFFICES ASSUME NEW t \in Slugs, repos'[t] \in made \ torn',
                      ~\E k \in TransferKeys : Stored(k) /\ transfers[k].id = repos'[t]
               PROVE  dirs[t] = repos'[t]
    BY <1>3, <1>5 DEF DiskFollowsRegistry, Stored
  <2>1. t # old /\ t # new
    BY <1>3, <1>4, <1>8
  <2>2. repos'[t] = repos[t] /\ repos[t] \in made \ torn
    BY <1>3, <1>4, <2>1
  <2> QED
    BY <2>2 DEF RepoInv, DiskFollowsRegistry, Stored
<1>11. TypeInv'
  BY <1>0, <1>3, <1>4, <1>5, <1>6 DEF TypeInv, RegistryPart
<1> QED
  BY <1>4, <1>7, <1>9, <1>10, <1>11 DEF RepoInv, RegistryPart

\* The renames that fail.
LEMMA FailedRenamesKeep ==
    ASSUME RepoInv, NEW old \in Slugs, NEW new \in Slugs,
           \/ \E back \in BOOLEAN : RenameNotPersisted(old, new, back)
           \/ RenameStopped(old, new)
    PROVE  RepoInv'
<1>0. TypeInv
  BY DEF RepoInv
<1>1. ASSUME RenameNotPersisted(old, new, TRUE) PROVE RepoInv'
  <2>1. dirs' = dirs
    BY <1>1, PutBackUndoes DEF RenameNotPersisted
  <2> QED
    BY <1>0, <1>1, <2>1, SessionStays, OnlySession DEF RenameNotPersisted
<1>2. ASSUME RenameNotPersisted(old, new, FALSE) PROVE RepoInv'
  <2>1. /\ CanRelocate(old, new) /\ dirs' = Moved(dirs, old, new)
        /\ torn' = torn \cup {repos[old], dirs[old]}
        /\ UNCHANGED <<repos, info, aliases, transfers, rows, counters, used, made, session>>
    BY <1>2 DEF RenameNotPersisted, Relocated
  <2> QED
    BY <1>0, <2>1, SessionStays, LeftApartKeeps
<1>3. ASSUME RenameStopped(old, new) PROVE RepoInv'
  <2>1. /\ CanRelocate(old, new) /\ dirs' = Moved(dirs, old, new)
        /\ torn' = torn \cup {repos[old], dirs[old]} /\ session' = [w \in Callers |-> Idle]
        /\ UNCHANGED <<repos, info, aliases, transfers, rows, counters, used, made>>
    BY <1>3 DEF RenameStopped, Relocated
  <2>2. session' \in [Callers -> Sessions] /\ \A w \in Callers : ~Pending(w)'
    BY <2>1, SessionKinds DEF Pending
  <2> QED
    BY <2>1, <2>2, LeftApartKeeps
<1> QED
  BY <1>1, <1>2, <1>3

LEMMA PrepareKeeps ==
    ASSUME RepoInv, NEW k \in TransferKeys, NEW id \in RepoIds, NEW o \in Owners,
           PrepareRepositoryTransfer(k, id, o)
    PROVE  RepoInv'
<1>0. TypeInv
  BY DEF RepoInv
<1>1. PICK old \in Slugs : old = SlugOf(id) /\ repos[old] = id
  BY DEF PrepareRepositoryTransfer, Registered, SlugOf
<1>2. PICK new \in Slugs : new = <<o, old[2]>>
  BY <1>1 DEF PrepareRepositoryTransfer
<1>3. PICK j : j = [status |-> "Prepared", id |-> id, from |-> old, to |-> new, stored |-> FALSE]
  OBVIOUS
<1>4. j \in Journals /\ j.id = id /\ ~j.stored
  BY <1>3 DEF Journals
<1>5. /\ transfers[k] = NoJournal /\ transfers' = [transfers EXCEPT ![k] = j]
      /\ UNCHANGED <<repos, info, aliases, rows, counters, dirs, session, used, made, torn>>
  BY <1>1, <1>2, <1>3 DEF PrepareRepositoryTransfer
<1>6. transfers'[k] = j /\ \A l \in TransferKeys \ {k} : transfers'[l] = transfers[l]
  BY <1>0, <1>5 DEF TypeInv
<1>7. ASSUME NEW l \in TransferKeys
      PROVE  /\ (Stored(l)' <=> Stored(l)) /\ (Stored(l) => transfers'[l] = transfers[l])
             /\ transfers'[l] # NoJournal => transfers'[l].id \in used
  <2>1. CASE l = k
    <3>1. ~Stored(l) /\ ~Stored(l)'
      BY <1>4, <1>5, <1>6, <2>1, NoneIsNone DEF Stored
    <3>2. id \in used
      BY <1>1, RepositoriesAssumption DEF RepoInv, OneSlugEach
    <3> QED
      BY <1>4, <1>6, <2>1, <3>1, <3>2
  <2>2. CASE l # k
    BY <1>6, <2>2 DEF Stored, RepoInv, DirectoriesInv
  <2> QED
    BY <2>1, <2>2
<1>8. DiskPart' /\ OneSlugEach'
  BY <1>5, <1>7, DiskStays DEF Pending
<1>9. TypeInv'
  BY <1>0, <1>4, <1>5 DEF TypeInv
<1>10. RowsFollow' /\ AliasesLeadHome' /\ DefaultBranchIsProtected'
  BY <1>5 DEF RepoInv, RowsFollow, AliasesLeadHome, DefaultBranchIsProtected, HasRule, Rules, At
<1> QED
  BY <1>8, <1>9, <1>10 DEF RepoInv, DiskPart

\* The journal of one transfer changes, its repository and its two ends do not.
LEMMA JournalMoves ==
    ASSUME RepoInv, NEW k \in TransferKeys, transfers[k].status = "Prepared", NEW x, NEW b \in BOOLEAN,
           x \in {"Prepared", "Committed", "Failed"},
           transfers' = [transfers EXCEPT ![k] = [transfers[k] EXCEPT !.status = x, !.stored = b]],
           UNCHANGED used
    PROVE  /\ transfers' \in [TransferKeys -> {NoJournal} \cup Journals]
           /\ transfers[k] \in Journals /\ transfers[k].id \in used /\ transfers[k].id # NoRepo
           /\ transfers[k].from \in Slugs /\ transfers[k].to \in Slugs
           /\ transfers'[k].status = x /\ (transfers'[k].stored <=> b)
           /\ transfers'[k].id = transfers[k].id /\ transfers'[k].from = transfers[k].from
           /\ transfers'[k].to = transfers[k].to
           /\ \A l \in TransferKeys \ {k} : transfers'[l] = transfers[l] /\ (Stored(l)' <=> Stored(l))
           /\ \A l \in TransferKeys : transfers'[l] # NoJournal => transfers'[l].id \in used
<1>0. TypeInv
  BY DEF RepoInv
<1>1. transfers[k] \in Journals /\ transfers[k] # NoJournal
  BY <1>0, NoneIsNone DEF TypeInv
<1>2. PICK j : j = [transfers[k] EXCEPT !.status = x, !.stored = b]
  OBVIOUS
<1>3. /\ j \in Journals /\ j.status = x /\ (j.stored <=> b)
      /\ j.id = transfers[k].id /\ j.from = transfers[k].from /\ j.to = transfers[k].to
  BY <1>1, <1>2 DEF Journals
<1>4. transfers'[k] = j /\ \A l \in TransferKeys \ {k} : transfers'[l] = transfers[l]
  BY <1>0, <1>2 DEF TypeInv
<1>5. transfers' \in [TransferKeys -> {NoJournal} \cup Journals]
  BY <1>0, <1>2, <1>3 DEF TypeInv
<1>6. transfers[k].id \in used /\ transfers[k].id # NoRepo
  BY <1>1, RepositoriesAssumption DEF RepoInv, DirectoriesInv, Journals
<1>7. transfers[k].from \in Slugs /\ transfers[k].to \in Slugs
  BY <1>1 DEF Journals
<1>8. \A l \in TransferKeys : transfers'[l] # NoJournal => transfers'[l].id \in used
  BY <1>3, <1>4, <1>6 DEF RepoInv, DirectoriesInv
<1>9. \A l \in TransferKeys \ {k} : transfers'[l] = transfers[l] /\ (Stored(l)' <=> Stored(l))
  BY <1>4 DEF Stored
<1> QED
  BY <1>1, <1>3, <1>4, <1>5, <1>6, <1>7, <1>8, <1>9

LEMMA MoveStorageKeeps ==
    ASSUME RepoInv, NEW k \in TransferKeys, MoveStorage(k)
    PROVE  RepoInv'
<1>0. TypeInv
  BY DEF RepoInv
<1>1. /\ transfers[k].status = "Prepared" /\ ~transfers[k].stored
      /\ transfers' = [transfers EXCEPT ![k].stored = TRUE]
      /\ UNCHANGED <<repos, info, aliases, rows, counters, session, used, made, torn>>
  BY DEF MoveStorage
<1>2. transfers' = [transfers EXCEPT ![k] = [transfers[k] EXCEPT !.status = "Prepared", !.stored = TRUE]]
  <2>1. transfers[k] \in Journals
    BY <1>0, <1>1, NoneIsNone DEF TypeInv
  <2>2. [transfers[k] EXCEPT !.stored = TRUE] = [transfers[k] EXCEPT !.status = "Prepared", !.stored = TRUE]
    BY <1>1, <2>1 DEF Journals
  <2> QED
    BY <1>1, <2>2
<1>3. PICK id \in used, old \in Slugs, new \in Slugs :
         id = transfers[k].id /\ old = transfers[k].from /\ new = transfers[k].to
  <2>1. transfers[k] \in Journals /\ transfers[k] # NoJournal
    BY <1>0, <1>1, NoneIsNone DEF TypeInv
  <2> QED
    BY <2>1 DEF Journals, RepoInv, DirectoriesInv
<1>4. /\ transfers' \in [TransferKeys -> {NoJournal} \cup Journals]
      /\ transfers'[k].status = "Prepared" /\ transfers'[k].stored /\ id # NoRepo
      /\ transfers'[k].id = id /\ transfers'[k].from = old /\ transfers'[k].to = new
      /\ \A l \in TransferKeys \ {k} : transfers'[l] = transfers[l] /\ (Stored(l)' <=> Stored(l))
      /\ \A l \in TransferKeys : transfers'[l] # NoJournal => transfers'[l].id \in used
  BY <1>1, <1>2, <1>3, JournalMoves
<1>5. /\ repos[old] = id /\ dirs[old] = id /\ CanRelocate(old, new) /\ dirs' = Moved(dirs, old, new)
  BY <1>3 DEF MoveStorage, Relocated
<1>6. Stored(k)' /\ ~Stored(k)
  BY <1>1, <1>4 DEF Stored
<1>7. /\ DirectoriesInv' /\ dirs' \in [Slugs -> SomeRepo] /\ old # new
      /\ dirs'[old] = NoRepo /\ dirs'[new] = id
      /\ \A t \in Slugs \ {old, new} : dirs'[t] = dirs[t]
  <2>1. \A l \in TransferKeys : /\ Stored(l)' => Stored(l) \/ transfers'[l].id = dirs[old]
                                /\ Stored(l)' => transfers'[l].id = transfers[l].id
    BY <1>3, <1>4, <1>5
  <2>2. \A w \in Callers : Pending(w)' => Pending(w) /\ session'[w] = session[w]
    BY <1>1 DEF Pending
  <2> QED
    BY <1>1, <1>4, <1>5, <2>1, <2>2, DirectoryMoves
<1>8. dirs[new] = NoRepo
  BY <1>5 DEF CanRelocate
<1>9. ASSUME NEW l \in TransferKeys \ {k}, Stored(l), Settled(transfers[l].id)
      PROVE  transfers[l].id # id /\ transfers[l].to \notin {old, new}
  <2>1. /\ dirs[transfers[l].to] = transfers[l].id /\ repos[transfers[l].from] = transfers[l].id
        /\ transfers[l].from # transfers[l].to /\ transfers[l].id # NoRepo
        /\ transfers[l].from \in Slugs /\ transfers[l].to \in Slugs
    BY <1>9, StoredIsAhead
  <2>2. transfers[l].id # id
    BY <1>4, <1>5, <2>1 DEF RepoInv, OneSlugEach, DirectoriesInv
  <2> QED
    BY <1>5, <1>8, <2>1, <2>2
<1>10. TransfersInv'
  <2> SUFFICES ASSUME NEW l \in TransferKeys, Stored(l)', Settled(transfers'[l].id)
               PROVE  /\ dirs'[transfers'[l].to] = transfers'[l].id /\ repos[transfers'[l].from] = transfers'[l].id
                      /\ transfers'[l].from # transfers'[l].to
                      /\ \A m \in TransferKeys : Stored(m)' /\ transfers'[m].id = transfers'[l].id => m = l
    BY <1>1 DEF TransfersInv, Settled
  <2>1. CASE l = k
    <3>1. \A m \in TransferKeys \ {k} : ~(Stored(m)' /\ transfers'[m].id = id)
      <4> SUFFICES ASSUME NEW m \in TransferKeys \ {k}, Stored(m)', transfers'[m].id = id PROVE FALSE
        OBVIOUS
      <4>1. Stored(m) /\ transfers[m].id = id
        BY <1>4
      <4>2. Settled(transfers[m].id)
        BY <1>4, <2>1, <4>1
      <4> QED
        BY <1>9, <4>1, <4>2
    <3> QED
      BY <1>4, <1>5, <1>7, <2>1, <3>1
  <2>2. CASE l # k
    <3>1. transfers'[l] = transfers[l] /\ Stored(l) /\ Settled(transfers[l].id)
      BY <1>4, <2>2
    <3>2. transfers[l].id # id /\ transfers[l].to \notin {old, new}
      BY <1>9, <2>2, <3>1
    <3>3. /\ dirs[transfers[l].to] = transfers[l].id /\ repos[transfers[l].from] = transfers[l].id
          /\ transfers[l].from # transfers[l].to /\ transfers[l].to \in Slugs
          /\ \A m \in TransferKeys : Stored(m) /\ transfers[m].id = transfers[l].id => m = l
      BY <3>1, StoredIsAhead
    <3>4. \A m \in TransferKeys : Stored(m)' /\ transfers'[m].id = transfers[l].id => m = l
      BY <1>4, <3>2, <3>3
    <3> QED
      BY <1>7, <3>1, <3>2, <3>3, <3>4
  <2> QED
    BY <2>1, <2>2
<1>11. DiskFollowsRegistry'
  <2> SUFFICES ASSUME NEW t \in Slugs, repos[t] \in made \ torn,
                      ~\E l \in TransferKeys : Stored(l)' /\ transfers'[l].id = repos[t]
               PROVE  dirs'[t] = repos[t]
    BY <1>1 DEF DiskFollowsRegistry, Stored
  <2>1. repos[t] # id
    BY <1>4, <1>6
  <2>2. ~\E l \in TransferKeys : Stored(l) /\ transfers[l].id = repos[t]
    BY <1>4, <1>6
  <2>3. dirs[t] = repos[t]
    BY <2>2 DEF RepoInv, DiskFollowsRegistry, Stored
  <2>4. repos[t] # NoRepo
    BY <1>0, RepositoriesAssumption DEF RepoInv, DirectoriesInv, TypeInv
  <2> QED
    BY <1>5, <1>7, <1>8, <2>1, <2>3, <2>4
<1>12. TypeInv'
  BY <1>0, <1>1, <1>4, <1>7 DEF TypeInv
<1>13. OneSlugEach' /\ RowsFollow' /\ AliasesLeadHome' /\ DefaultBranchIsProtected'
  BY <1>1 DEF RepoInv, OneSlugEach, RowsFollow, AliasesLeadHome, DefaultBranchIsProtected, HasRule, Rules, At
<1> QED
  BY <1>7, <1>10, <1>11, <1>12, <1>13 DEF RepoInv

\* The directory waits at the destination, and the repository follows.
LEMMA CommitKeeps ==
    ASSUME RepoInv, NEW k \in TransferKeys, CommitRepositoryTransfer(k)
    PROVE  RepoInv'
<1>0. TypeInv
  BY DEF RepoInv
<1>1. /\ transfers[k].status = "Prepared" /\ transfers[k].stored
      /\ transfers' = [transfers EXCEPT ![k].status = "Committed"]
      /\ UNCHANGED <<info, dirs, session, used, made, torn>>
  BY DEF CommitRepositoryTransfer
<1>2. transfers' = [transfers EXCEPT ![k] = [transfers[k] EXCEPT !.status = "Committed", !.stored = TRUE]]
  <2>1. transfers[k] \in Journals
    BY <1>0, <1>1, NoneIsNone DEF TypeInv
  <2>2. [transfers[k] EXCEPT !.status = "Committed"] = [transfers[k] EXCEPT !.status = "Committed", !.stored = TRUE]
    BY <1>1, <2>1 DEF Journals
  <2> QED
    BY <1>1, <2>2
<1>3. PICK id \in used, old \in Slugs, new \in Slugs :
         id = transfers[k].id /\ old = transfers[k].from /\ new = transfers[k].to
  <2>1. transfers[k] \in Journals /\ transfers[k] # NoJournal
    BY <1>0, <1>1, NoneIsNone DEF TypeInv
  <2> QED
    BY <2>1 DEF Journals, RepoInv, DirectoriesInv
<1>4. /\ transfers' \in [TransferKeys -> {NoJournal} \cup Journals]
      /\ transfers'[k].status = "Committed" /\ id # NoRepo /\ id \in used
      /\ \A l \in TransferKeys \ {k} : transfers'[l] = transfers[l] /\ (Stored(l)' <=> Stored(l))
      /\ \A l \in TransferKeys : transfers'[l] # NoJournal => transfers'[l].id \in used
  BY <1>1, <1>2, <1>3, JournalMoves
<1>5. ~Stored(k)' /\ Stored(k)
  BY <1>1, <1>4 DEF Stored
<1>6. /\ repos[old] = id /\ repos[new] = NoRepo
      /\ RekeyedTo(repos', rows', counters', aliases', aliases, id, old, new)
  BY <1>3 DEF CommitRepositoryTransfer, CanRekey, MoveRegistry, RekeyedTo
<1>7. RegistryPart' /\ MovedTo(repos', id, old, new)
  <2>1. aliases \in [Slugs -> {NoAlias} \cup AliasRecords] /\ \A t \in Slugs : aliases[t] = aliases[t] \/ aliases[t] = NoAlias
    BY <1>0 DEF TypeInv
  <2>2. UNCHANGED <<info, used>>
    BY <1>1
  <2>3. PICK as : as = aliases
    OBVIOUS
  <2>4. /\ as \in [Slugs -> {NoAlias} \cup AliasRecords]
        /\ \A t \in Slugs : as[t] = aliases[t] \/ as[t] = NoAlias
        /\ RekeyedTo(repos', rows', counters', aliases', as, id, old, new)
    BY <1>6, <2>1, <2>3
  <2> QED
    BY <1>4, <1>6, <2>2, <2>4, RegistryMoves
<1>8. /\ repos'[old] = NoRepo /\ repos'[new] = id
      /\ \A t \in Slugs \ {old, new} : repos'[t] = repos[t] /\ repos[t] # id
  BY <1>7 DEF MovedTo
<1>9. DirectoriesInv'
  <2>1. \A l \in TransferKeys : Stored(l)' => Stored(l) /\ transfers'[l] = transfers[l]
    BY <1>4, <1>5
  <2> QED
    BY <1>1, <1>4, <2>1 DEF RepoInv, DirectoriesInv, Pending
<1>10. TransfersInv'
  <2> SUFFICES ASSUME NEW l \in TransferKeys, Stored(l)', Settled(transfers'[l].id)
               PROVE  /\ dirs[transfers'[l].to] = transfers'[l].id /\ repos'[transfers'[l].from] = transfers'[l].id
                      /\ transfers'[l].from # transfers'[l].to
                      /\ \A m \in TransferKeys : Stored(m)' /\ transfers'[m].id = transfers'[l].id => m = l
    BY <1>1 DEF TransfersInv, Settled
  <2>1. l # k /\ transfers'[l] = transfers[l] /\ Stored(l)
    BY <1>4, <1>5
  <2>2. /\ dirs[transfers[l].to] = transfers[l].id /\ repos[transfers[l].from] = transfers[l].id
        /\ transfers[l].from # transfers[l].to /\ transfers[l].id # NoRepo /\ transfers[l].from \in Slugs
        /\ \A m \in TransferKeys : Stored(m) /\ transfers[m].id = transfers[l].id => m = l
    BY <2>1, StoredIsAhead
  <2>3. transfers[l].id # id
    BY <1>3, <1>5, <2>1, <2>2
  <2>4. transfers[l].from \notin {old, new}
    BY <1>6, <2>2, <2>3
  <2>5. \A m \in TransferKeys : Stored(m)' => Stored(m) /\ transfers'[m] = transfers[m]
    BY <1>4, <1>5
  <2> QED
    BY <1>8, <2>1, <2>2, <2>4, <2>5
<1>11. DiskFollowsRegistry'
  <2> SUFFICES ASSUME NEW t \in Slugs, repos'[t] \in made \ torn,
                      ~\E l \in TransferKeys : Stored(l)' /\ transfers'[l].id = repos'[t]
               PROVE  dirs[t] = repos'[t]
    BY <1>1 DEF DiskFollowsRegistry, Stored
  <2>1. t # old
    BY <1>0, <1>8, RepositoriesAssumption DEF RepoInv, DirectoriesInv, TypeInv
  <2>2. CASE t = new
    <3>1. Settled(id)
      BY <1>8, <2>2 DEF Settled
    <3> QED
      BY <1>3, <1>5, <1>8, <2>2, <3>1, StoredIsAhead
  <2>3. CASE t # new
    <3>1. repos'[t] = repos[t] /\ repos[t] # id
      BY <1>8, <2>1, <2>3
    <3>2. ~\E l \in TransferKeys : Stored(l) /\ transfers[l].id = repos[t]
      BY <1>3, <1>4, <3>1
    <3> QED
      BY <3>1, <3>2 DEF RepoInv, DiskFollowsRegistry, Stored
  <2> QED
    BY <2>2, <2>3
<1>12. TypeInv'
  BY <1>0, <1>1, <1>4, <1>7 DEF TypeInv, RegistryPart
<1> QED
  BY <1>7, <1>9, <1>10, <1>11, <1>12 DEF RepoInv, RegistryPart

LEMMA FailKeeps ==
    ASSUME RepoInv, NEW k \in TransferKeys, FailRepositoryTransfer(k)
    PROVE  RepoInv'
<1>0. TypeInv
  BY DEF RepoInv
<1>1. /\ transfers[k].status = "Prepared"
      /\ transfers' = [transfers EXCEPT ![k].status = "Failed"]
      /\ UNCHANGED <<repos, info, aliases, rows, counters, session, used, made, torn>>
  BY DEF FailRepositoryTransfer
<1>2. PICK b \in BOOLEAN : /\ b <=> transfers[k].stored
                           /\ transfers' = [transfers EXCEPT ![k] = [transfers[k] EXCEPT !.status = "Failed", !.stored = b]]
  <2>1. transfers[k] \in Journals
    BY <1>0, <1>1, NoneIsNone DEF TypeInv
  <2>2. PICK b \in BOOLEAN : b = transfers[k].stored
    BY <2>1 DEF Journals
  <2>3. [transfers[k] EXCEPT !.status = "Failed"] = [transfers[k] EXCEPT !.status = "Failed", !.stored = b]
    BY <2>1, <2>2 DEF Journals
  <2> QED
    BY <1>1, <2>2, <2>3
<1>3. PICK id \in used, old \in Slugs, new \in Slugs :
         id = transfers[k].id /\ old = transfers[k].from /\ new = transfers[k].to
  <2>1. transfers[k] \in Journals /\ transfers[k] # NoJournal
    BY <1>0, <1>1, NoneIsNone DEF TypeInv
  <2> QED
    BY <2>1 DEF Journals, RepoInv, DirectoriesInv
<1>4. /\ transfers' \in [TransferKeys -> {NoJournal} \cup Journals]
      /\ transfers'[k].status = "Failed" /\ id # NoRepo /\ transfers'[k].id = id
      /\ \A l \in TransferKeys \ {k} : transfers'[l] = transfers[l] /\ (Stored(l)' <=> Stored(l))
      /\ \A l \in TransferKeys : transfers'[l] # NoJournal => transfers'[l].id \in used
  BY <1>1, <1>2, <1>3, JournalMoves
<1>5. ~Stored(k)' /\ (Stored(k) <=> transfers[k].stored)
  BY <1>1, <1>4 DEF Stored
<1>6. \A l \in TransferKeys : Stored(l)' => l # k /\ Stored(l) /\ transfers'[l] = transfers[l]
  BY <1>4, <1>5
<1>7. OneSlugEach' /\ RowsFollow' /\ AliasesLeadHome' /\ DefaultBranchIsProtected'
  BY <1>1 DEF RepoInv, OneSlugEach, RowsFollow, AliasesLeadHome, DefaultBranchIsProtected, HasRule, Rules, At
<1>8. \A w \in Callers : (Pending(w)' => Pending(w)) /\ session'[w] = session[w]
  BY <1>1 DEF Pending
<1>9. CASE dirs' = dirs /\ (transfers[k].stored => dirs[new] # id)
  <2>1. DirectoriesInv'
    BY <1>1, <1>4, <1>6, <1>8, <1>9 DEF RepoInv, DirectoriesInv
  <2>2. TransfersInv'
    BY <1>1, <1>6, <1>9 DEF RepoInv, TransfersInv, Settled
  <2>3. DiskFollowsRegistry'
    <3> SUFFICES ASSUME NEW t \in Slugs, repos[t] \in made \ torn,
                        ~\E l \in TransferKeys : Stored(l)' /\ transfers'[l].id = repos[t]
                 PROVE  dirs[t] = repos[t]
      BY <1>1, <1>9 DEF DiskFollowsRegistry, Stored
    <3>1. ~(Stored(k) /\ repos[t] = id)
      BY <1>3, <1>5, <1>9, StoredIsAhead DEF Settled
    <3>2. ~\E l \in TransferKeys : Stored(l) /\ transfers[l].id = repos[t]
      BY <1>3, <1>4, <3>1
    <3> QED
      BY <3>2 DEF RepoInv, DiskFollowsRegistry, Stored
  <2>4. TypeInv'
    BY <1>0, <1>1, <1>4, <1>9 DEF TypeInv
  <2> QED
    BY <1>7, <2>1, <2>2, <2>3, <2>4 DEF RepoInv
<1>10. CASE /\ transfers[k].stored /\ dirs[new] = id /\ CanRelocate(new, old)
            /\ dirs' = Moved(dirs, new, old)
  <2>1. /\ DirectoriesInv' /\ dirs' \in [Slugs -> SomeRepo] /\ old # new
        /\ dirs'[new] = NoRepo /\ dirs'[old] = id
        /\ \A t \in Slugs \ {old, new} : dirs'[t] = dirs[t]
    <3>1. /\ \A l \in TransferKeys : Stored(l)' => Stored(l) \/ transfers'[l].id = dirs[new]
          /\ \A l \in TransferKeys : Stored(l)' => transfers'[l].id = transfers[l].id
          /\ \A w \in Callers : Pending(w)' => Pending(w) /\ session'[w] = session[w]
      BY <1>6, <1>8
    <3> QED
      BY <1>1, <1>4, <1>10, <3>1, DirectoryMoves
  <2>2. Stored(k) /\ dirs[old] = NoRepo
    BY <1>5, <1>10 DEF CanRelocate
  <2>3. TransfersInv'
    <3> SUFFICES ASSUME NEW l \in TransferKeys, Stored(l)', Settled(transfers'[l].id)
                 PROVE  /\ dirs'[transfers'[l].to] = transfers'[l].id /\ repos[transfers'[l].from] = transfers'[l].id
                        /\ transfers'[l].from # transfers'[l].to
                        /\ \A m \in TransferKeys : Stored(m)' /\ transfers'[m].id = transfers'[l].id => m = l
      BY <1>1 DEF TransfersInv, Settled
    <3>1. l # k /\ transfers'[l] = transfers[l] /\ Stored(l)
      BY <1>6
    <3>2. /\ dirs[transfers[l].to] = transfers[l].id /\ repos[transfers[l].from] = transfers[l].id
          /\ transfers[l].from # transfers[l].to /\ transfers[l].id # NoRepo /\ transfers[l].to \in Slugs
          /\ \A m \in TransferKeys : Stored(m) /\ transfers[m].id = transfers[l].id => m = l
      BY <3>1, StoredIsAhead
    <3>3. transfers[l].id # id
      BY <1>3, <2>2, <3>1, <3>2
    <3>4. transfers[l].to \notin {old, new}
      BY <1>10, <2>2, <3>2, <3>3
    <3> QED
      BY <1>6, <2>1, <3>1, <3>2, <3>4
  <2>4. DiskFollowsRegistry'
    <3> SUFFICES ASSUME NEW t \in Slugs, repos[t] \in made \ torn,
                        ~\E l \in TransferKeys : Stored(l)' /\ transfers'[l].id = repos[t]
                 PROVE  dirs'[t] = repos[t]
      BY <1>1 DEF DiskFollowsRegistry, Stored
    <3>1. CASE repos[t] = id
      <4>1. repos[old] = id
        BY <1>3, <2>2, <3>1, StoredIsAhead DEF Settled
      <4>2. t = old
        BY <1>4, <3>1, <4>1 DEF RepoInv, OneSlugEach
      <4> QED
        BY <2>1, <3>1, <4>2
    <3>2. CASE repos[t] # id
      <4>1. ~\E l \in TransferKeys : Stored(l) /\ transfers[l].id = repos[t]
        BY <1>3, <1>4, <3>2
      <4>2. dirs[t] = repos[t]
        BY <4>1 DEF RepoInv, DiskFollowsRegistry, Stored
      <4>3. repos[t] # NoRepo
        BY <1>0, RepositoriesAssumption DEF RepoInv, DirectoriesInv, TypeInv
      <4> QED
        BY <1>10, <2>1, <2>2, <3>2, <4>2, <4>3
    <3> QED
      BY <3>1, <3>2
  <2>5. TypeInv'
    BY <1>0, <1>1, <1>4, <2>1 DEF TypeInv
  <2> QED
    BY <1>7, <2>1, <2>3, <2>4, <2>5 DEF RepoInv
<1> QED
  BY <1>3, <1>9, <1>10 DEF FailRepositoryTransfer, Relocated

-----------------------------------------------------------------------------
(* The theorem                                                                 *)

LEMMA CallersKeep ==
    ASSUME RepoInv, NEW w \in Callers,
           \/ \E s \in Slugs, id \in RepoIds, b \in Branches : CreateRepository(w, s, id, b)
           \/ \E s \in Slugs, b \in Branches : PointHeadAt(w, s, b)
           \/ \E s \in Slugs, t \in Tables : EnsureRepoExists(w, t, s)
           \/ Materialize(w) \/ SetDefaultBranch(w) \/ PlanRekey(w) \/ ApplyRekey(w)
           \/ RowInsert(w)
    PROVE  RepoInv'
  BY CreateKeeps, LookupsKeep, MaterializeKeeps, SetDefaultBranchKeeps, ApplyRekeyKeeps, RowInsertKeeps

LEMMA RepositoriesKeep ==
    ASSUME RepoInv, NEW s \in Slugs,
           \/ DeleteRepository(s) \/ ReconcileHead(s) \/ RevokeRepoAccess(s) \/ CreateDeployment(s)
           \/ \E x \in BOOLEAN : SetRepositoryArchived(s, x) \/ SetOptOut(s, x)
           \/ \E b \in Branches : DeleteBranchProtection(s, b)
           \/ \E t \in Slugs :
                \/ RenameRepository(s, t) \/ RenameStopped(s, t) \/ RenameStoppedLate(s, t)
                \/ \E back \in BOOLEAN : RenameNotPersisted(s, t, back)
    PROVE  RepoInv'
<1>1. ASSUME DeleteRepository(s) \/ ReconcileHead(s) \/ RevokeRepoAccess(s) \/ CreateDeployment(s)
      PROVE  RepoInv'
  BY <1>1, DeleteKeeps, ServiceStepsKeep, RemovalsKeep
<1>2. ASSUME NEW x \in BOOLEAN, SetRepositoryArchived(s, x) \/ SetOptOut(s, x) PROVE RepoInv'
  BY <1>2, SetArchivedKeeps, SetOptOutKeeps
<1>3. ASSUME NEW t \in Slugs,
             \/ RenameRepository(s, t) \/ RenameStopped(s, t) \/ RenameStoppedLate(s, t)
             \/ \E back \in BOOLEAN : RenameNotPersisted(s, t, back)
      PROVE  RepoInv'
  BY <1>3, RenameKeeps, StoppedLateKeeps, FailedRenamesKeep
<1> QED
  BY <1>1, <1>2, <1>3, RemovalsKeep

LEMMA TransfersKeep ==
    ASSUME RepoInv, NEW k \in TransferKeys,
           \/ \E id \in RepoIds, o \in Owners : PrepareRepositoryTransfer(k, id, o)
           \/ MoveStorage(k) \/ CommitRepositoryTransfer(k) \/ FailRepositoryTransfer(k)
    PROVE  RepoInv'
  BY PrepareKeeps, MoveStorageKeeps, CommitKeeps, FailKeeps

LEMMA RepoStutters ==
    ASSUME RepoInv, UNCHANGED repoVars
    PROVE  RepoInv'
<1>1. TypeInv /\ UNCHANGED <<repos, info, aliases, transfers, rows, counters, dirs, session, used, made, torn>>
  BY DEF RepoInv, repoVars
<1> QED
  BY <1>1, SessionStays, OnlySession

\* A move or a delete takes everything along and a repository is whole between
\* them (rekey_repository, record_alias, delete_repository, relocate_bare,
\* set_repository_default_branch, rekey_encoded_branch_protections), for any
\* number of repositories, names, transfers and callers.
THEOREM RepositoriesAreWhole == RepoSpec => []RepositoriesStayWhole
<1>1. RepoInit => RepoInv
  BY RepoInitHolds
<1>2. RepoInv /\ [RepoNext]_repoVars => RepoInv'
  <2> SUFFICES ASSUME RepoInv, [RepoNext]_repoVars PROVE RepoInv'
    OBVIOUS
  <2>1. CASE UNCHANGED repoVars
    BY <2>1, RepoStutters
  <2>2. CASE RepoNext
    BY <2>2, CallersKeep, RepositoriesKeep, TransfersKeep DEF RepoNext
  <2> QED
    BY <2>1, <2>2
<1>3. RepoInv => RepositoriesStayWhole
  BY DEF RepoInv, RepositoriesStayWhole
<1> QED
  BY <1>1, <1>2, <1>3, PTL DEF RepoSpec

-----------------------------------------------------------------------------
(* Bugs *)

Statuses == Terminal \cup Open
Initial == {"needs_triage", "needs_info"}
BugEvents == [bug : BugIds, status : Statuses \cup {"attempt"}]
Attempts == [bug : BugIds, status : {"failed", "verified"}]
BugRecords == {NoBug} \cup [status : Statuses]

BugTypeOK ==
    /\ bugs \in [BugIds -> BugRecords]
    /\ bugEvents \in Seq(BugEvents) /\ attempted \in Seq(Attempts)
    /\ keyed \in [SubmitKeys -> SUBSET BugIds] /\ answers \in [SubmitKeys -> SUBSET BugIds]
    /\ instant \in 0 .. MaxUpdates

\* A key's submissions were answered with its bug.
KeysInv ==
    \A k \in SubmitKeys : answers[k] \subseteq keyed[k] /\ \A i, j \in keyed[k] : i = j

\* What is told of a bug, and that nothing is before its submission; a bug of
\* this instant has not been triaged.
TrailOf(id) ==
    /\ bugs[id] = NoBug => EventsAbout(id) = {} /\ Own(attempted, id) = {}
    /\ bugs[id] # NoBug =>
          /\ EndsWith(bugEvents, Triaged(bugEvents, EventsAbout(id)), bugs[id].status)
          /\ \E i \in EventsAbout(id) : bugEvents[i].status \in Initial /\ \A j \in EventsAbout(id) : i <= j
          /\ \A i, j \in Triaged(bugEvents, EventsAbout(id)) :
                i < j /\ bugEvents[i].status \in Terminal => bugEvents[j].status = bugEvents[i].status
    /\ id[2] > instant => bugs[id] = NoBug
    /\ id[2] = instant => \A i \in Triaged(bugEvents, EventsAbout(id)) : bugEvents[i].status \in Initial
    /\ Cardinality({i \in EventsAbout(id) : bugEvents[i].status = "attempt"}) = AttemptCount(id)

BugInv == BugTypeOK /\ KeysInv /\ \A id \in BugIds : TrailOf(id)

LEMMA OwnAfterAppend ==
  ASSUME NEW S, NEW list \in Seq(S), NEW e \in S, NEW id
  PROVE  LET n == Len(list) + 1 IN
         /\ Append(list, e) \in Seq(S) /\ n \in Nat /\ n \notin Own(list, id) /\ Own(list, id) \subseteq 1 .. Len(list)
         /\ Own(Append(list, e), id) = IF e.bug = id THEN Own(list, id) \cup {n} ELSE Own(list, id)
         /\ \A i \in Own(list, id) : Append(list, e)[i] = list[i] /\ i < n
         /\ Append(list, e)[n] = e
<1> DEFINE n == Len(list) + 1
<1>1. Append(list, e) \in Seq(S) /\ Len(list) \in Nat /\ DOMAIN list = 1 .. Len(list)
      /\ DOMAIN Append(list, e) = 1 .. n /\ Append(list, e)[n] = e
      /\ \A i \in 1 .. Len(list) : Append(list, e)[i] = list[i]
  OBVIOUS
<1>2. Own(list, id) \subseteq 1 .. Len(list) /\ n \notin Own(list, id)
  BY <1>1 DEF Own
<1>3. \A i : i \in 1 .. n <=> i \in 1 .. Len(list) \/ i = n
  BY <1>1
<1>4. Own(Append(list, e), id) = IF e.bug = id THEN Own(list, id) \cup {n} ELSE Own(list, id)
  BY <1>1, <1>3 DEF Own
<1> QED BY <1>1, <1>2, <1>4

LEMMA OwnIsFinite ==
  ASSUME NEW S, NEW list \in Seq(S), NEW id, NEW T, T \subseteq Own(list, id)
  PROVE  IsFiniteSet(T)
<1>1. T \subseteq 1 .. Len(list) /\ Len(list) \in Nat
  BY DEF Own
<1>2. IsFiniteSet(1 .. Len(list))
  BY <1>1, FS_Interval
<1> QED BY <1>1, <1>2, FS_Subset

\* A bug nothing is told of in a step.
LEMMA TrailStays ==
  ASSUME NEW id \in BugIds, TrailOf(id), BugTypeOK, bugs'[id] = bugs[id],
         EventsAbout(id)' = EventsAbout(id), \A i \in EventsAbout(id) : bugEvents'[i] = bugEvents[i],
         Own(attempted, id)' = Own(attempted, id), instant' \in {instant, instant + 1}
  PROVE  TrailOf(id)'
<1>1. Triaged(bugEvents, EventsAbout(id))' = Triaged(bugEvents, EventsAbout(id))
      /\ {i \in EventsAbout(id) : bugEvents[i].status = "attempt"}' = {i \in EventsAbout(id) : bugEvents[i].status = "attempt"}
  BY DEF Triaged
<1>2. \A i \in Triaged(bugEvents, EventsAbout(id)) : i \in EventsAbout(id) /\ bugEvents'[i] = bugEvents[i]
  BY DEF Triaged
<1>3. AttemptCount(id)' = AttemptCount(id)
  BY DEF AttemptCount
<1>4. instant \in Nat /\ id[2] \in Nat
  BY BugTrackerAssumption DEF BugTypeOK, BugIds
<1>5. id[2] = instant' => \A i \in Triaged(bugEvents, EventsAbout(id)) : bugEvents[i].status \in Initial
  <2>1. CASE instant' = instant
    BY <2>1 DEF TrailOf
  <2>2. CASE instant' = instant + 1 /\ id[2] = instant'
    <3>1. id[2] > instant
      BY <1>4, <2>2
    <3>2. EventsAbout(id) = {}
      BY <3>1 DEF TrailOf
    <3> QED BY <3>2 DEF Triaged
  <2> QED BY <2>1, <2>2
<1>6. id[2] > instant' => id[2] > instant
  BY <1>4
<1>7. EndsWith(bugEvents, Triaged(bugEvents, EventsAbout(id)), bugs[id].status)
        => EndsWith(bugEvents, Triaged(bugEvents, EventsAbout(id)), bugs[id].status)'
  BY <1>1, <1>2 DEF EndsWith
<1> QED BY <1>1, <1>2, <1>3, <1>5, <1>6, <1>7 DEF TrailOf

\* A bug that gets a status, by its submission or by an update.
LEMMA TrailTells ==
  ASSUME NEW id \in BugIds, TrailOf(id), BugTypeOK, NEW status \in Statuses,
         bugEvents' = Append(bugEvents, [bug |-> id, status |-> status]),
         bugs'[id].status = status, bugs'[id] # NoBug, UNCHANGED attempted,
         bugs[id] = NoBug => status \in Initial,
         \A i \in Triaged(bugEvents, EventsAbout(id)) : bugEvents[i].status \in Terminal => status = bugEvents[i].status,
         instant' \in Nat, id[2] <= instant',
         id[2] = instant' => status \in Initial /\ instant' = instant
  PROVE  TrailOf(id)'
<1> DEFINE e == [bug |-> id, status |-> status]
           n == Len(bugEvents) + 1
           old == EventsAbout(id)
<1>0. e \in BugEvents /\ bugEvents \in Seq(BugEvents) /\ e.bug = id /\ e.status = status /\ status # "attempt"
  BY DEF BugEvents, BugTypeOK, Statuses, Terminal, Open
<1>1. /\ n \in Nat /\ n \notin old /\ EventsAbout(id)' = old \cup {n} /\ bugEvents'[n] = e
      /\ \A i \in old : bugEvents'[i] = bugEvents[i] /\ i < n /\ i \in Nat
  <2>1. bugEvents' = Append(bugEvents, e)
    OBVIOUS
  <2> HIDE DEF e
  <2> QED BY <1>0, <2>1, OwnAfterAppend DEF EventsAbout
<1>2. Triaged(bugEvents, EventsAbout(id))' = Triaged(bugEvents, old) \cup {n}
  BY <1>0, <1>1 DEF Triaged
<1>3. \A i \in Triaged(bugEvents, old) : i \in old /\ bugEvents'[i] = bugEvents[i] /\ i < n /\ i \in Nat
  BY <1>1 DEF Triaged
<1>4. EndsWith(bugEvents, Triaged(bugEvents, EventsAbout(id)), bugs[id].status)'
  <2>1. bugEvents'[n].status = bugs'[id].status
    BY <1>0, <1>1
  <2>2. \A j \in Triaged(bugEvents, old) \cup {n} : j <= n
    BY <1>1, <1>3
  <2> HIDE DEF n
  <2> QED BY <1>2, <2>1, <2>2 DEF EndsWith
<1>5. (\E i \in EventsAbout(id) : bugEvents[i].status \in Initial /\ \A j \in EventsAbout(id) : i <= j)'
  <2>1. CASE bugs[id] = NoBug
    BY <1>0, <1>1, <2>1 DEF TrailOf
  <2>2. CASE bugs[id] # NoBug
    <3>1. PICK i \in old : bugEvents[i].status \in Initial /\ \A j \in old : i <= j
      BY <2>2 DEF TrailOf
    <3>2. i <= n
      BY <1>1
    <3>3. bugEvents'[i].status \in Initial
      BY <1>1, <3>1
    <3> HIDE DEF n
    <3> QED BY <1>1, <3>1, <3>2, <3>3
  <2> QED BY <2>1, <2>2
<1>6. (\A i, j \in Triaged(bugEvents, EventsAbout(id)) :
          i < j /\ bugEvents[i].status \in Terminal => bugEvents[j].status = bugEvents[i].status)'
  <2>1. \A i, j \in Triaged(bugEvents, old) :
          i < j /\ bugEvents[i].status \in Terminal => bugEvents[j].status = bugEvents[i].status
    <3>1. bugs[id] = NoBug => Triaged(bugEvents, old) = {}
      BY DEF TrailOf, Triaged
    <3> QED BY <3>1 DEF TrailOf
  <2>2. \A i, j \in Triaged(bugEvents, old) \cup {n} : i < j => i \in Triaged(bugEvents, old)
    BY <1>1, <1>3
  <2>3. bugEvents'[n].status = status
    BY <1>0, <1>1
  <2> HIDE DEF n
  <2>4. ASSUME NEW i \in Triaged(bugEvents, old) \cup {n}, NEW j \in Triaged(bugEvents, old) \cup {n},
               i < j, bugEvents'[i].status \in Terminal
        PROVE bugEvents'[j].status = bugEvents'[i].status
    <3>1. i \in Triaged(bugEvents, old) /\ bugEvents'[i] = bugEvents[i]
      BY <1>3, <2>2, <2>4
    <3>2. CASE j = n
      BY <2>3, <2>4, <3>1, <3>2
    <3>3. CASE j \in Triaged(bugEvents, old)
      <4>1. bugEvents'[j] = bugEvents[j]
        BY <1>3, <3>3
      <4>2. bugEvents[j].status = bugEvents[i].status
        BY <2>1, <2>4, <3>1, <3>3
      <4> QED BY <3>1, <4>1, <4>2
    <3> QED BY <2>4, <3>2, <3>3
  <2> HIDE DEF n
  <2> QED BY <1>2, <2>4
<1>7. id[2] = instant' => \A i \in Triaged(bugEvents, old) \cup {n} : bugEvents'[i].status \in Initial
  BY <1>0, <1>1, <1>3 DEF TrailOf
<1>8. {i \in EventsAbout(id) : bugEvents[i].status = "attempt"}' = {i \in EventsAbout(id) : bugEvents[i].status = "attempt"}
  BY <1>0, <1>1
<1>9. AttemptCount(id)' = AttemptCount(id)
  BY DEF AttemptCount, Own
<1>10. ~(id[2] > instant')
  BY BugTrackerAssumption DEF BugTypeOK, BugIds
<1> QED BY <1>2, <1>4, <1>5, <1>6, <1>7, <1>8, <1>9, <1>10 DEF TrailOf

\* A bug an attempt is recorded of.
LEMMA TrailCounts ==
  ASSUME NEW id \in BugIds, TrailOf(id), BugTypeOK, NEW status \in {"failed", "verified"}, bugs[id] # NoBug,
         bugEvents' = Append(bugEvents, [bug |-> id, status |-> "attempt"]),
         attempted' = Append(attempted, [bug |-> id, status |-> status]),
         bugs' = bugs, instant' = instant
  PROVE  TrailOf(id)'
<1>e. PICK e \in BugEvents : e = [bug |-> id, status |-> "attempt"]
  BY DEF BugEvents
<1>a. PICK a \in Attempts : a = [bug |-> id, status |-> status]
  BY DEF Attempts
<1>n. PICK n : n = Len(bugEvents) + 1
  OBVIOUS
<1>1. /\ n \in Nat /\ n \notin EventsAbout(id) /\ EventsAbout(id)' = EventsAbout(id) \cup {n} /\ bugEvents'[n] = e
      /\ \A i \in EventsAbout(id) : bugEvents'[i] = bugEvents[i] /\ i < n
  <2>1. bugEvents' = Append(bugEvents, e) /\ bugEvents \in Seq(BugEvents) /\ e.bug = id
    BY <1>e DEF BugTypeOK
  <2> QED BY <1>n, <2>1, OwnAfterAppend DEF EventsAbout
<1>2. \E m : m \notin Own(attempted, id) /\ Own(attempted, id)' = Own(attempted, id) \cup {m}
  <2>1. attempted' = Append(attempted, a) /\ attempted \in Seq(Attempts) /\ a.bug = id
    BY <1>a DEF BugTypeOK
  <2>2. Len(attempted) + 1 \notin Own(attempted, id) /\ Own(attempted', id) = Own(attempted, id) \cup {Len(attempted) + 1}
    BY <2>1, OwnAfterAppend
  <2> QED BY <2>2
<1>3. AttemptCount(id)' = AttemptCount(id) + 1
  <2>1. IsFiniteSet(Own(attempted, id))
    BY OwnIsFinite DEF BugTypeOK
  <2> QED BY <1>2, <2>1, FS_AddElement DEF AttemptCount
<1>4. Cardinality({i \in EventsAbout(id) : bugEvents[i].status = "attempt"}')
        = Cardinality({i \in EventsAbout(id) : bugEvents[i].status = "attempt"}) + 1
  <2>1. {i \in EventsAbout(id) : bugEvents[i].status = "attempt"}'
          = {i \in EventsAbout(id) : bugEvents[i].status = "attempt"} \cup {n}
    <3>1. e.status = "attempt"
      BY <1>e
    <3>2. \A i : i \in EventsAbout(id)' <=> i \in EventsAbout(id) \/ i = n
      BY <1>1
    <3> QED BY <1>1, <3>1, <3>2
  <2>2. IsFiniteSet({i \in EventsAbout(id) : bugEvents[i].status = "attempt"})
    BY OwnIsFinite DEF BugTypeOK, EventsAbout
  <2>3. n \notin {i \in EventsAbout(id) : bugEvents[i].status = "attempt"}
    BY <1>1
  <2> QED BY <2>1, <2>2, <2>3, FS_AddElement
<1>5. Triaged(bugEvents, EventsAbout(id))' = Triaged(bugEvents, EventsAbout(id))
  <2>1. e.status = "attempt"
    BY <1>e
  <2>2. \A i : i \in EventsAbout(id)' <=> i \in EventsAbout(id) \/ i = n
    BY <1>1
  <2> QED BY <1>1, <2>1, <2>2 DEF Triaged
<1>6. \A i \in Triaged(bugEvents, EventsAbout(id)) : bugEvents'[i] = bugEvents[i]
  BY <1>1 DEF Triaged
<1>7. EndsWith(bugEvents, Triaged(bugEvents, EventsAbout(id)), bugs[id].status)'
  BY <1>5, <1>6 DEF TrailOf, EndsWith
<1>8. (\E i \in EventsAbout(id) : bugEvents[i].status \in Initial /\ \A j \in EventsAbout(id) : i <= j)'
  <2>1. PICK i \in EventsAbout(id) : bugEvents[i].status \in Initial /\ \A j \in EventsAbout(id) : i <= j
    BY DEF TrailOf
  <2>2. i \in Nat
    BY DEF EventsAbout, Own, BugTypeOK
  <2>3. i <= n
    BY <1>1, <2>1, <2>2
  <2>4. bugEvents'[i].status \in Initial
    BY <1>1, <2>1
  <2> QED BY <1>1, <2>1, <2>3, <2>4
<1>9. (\A i, j \in Triaged(bugEvents, EventsAbout(id)) :
          i < j /\ bugEvents[i].status \in Terminal => bugEvents[j].status = bugEvents[i].status)'
  <2>1. \A i, j \in Triaged(bugEvents, EventsAbout(id)) :
          i < j /\ bugEvents[i].status \in Terminal => bugEvents[j].status = bugEvents[i].status
    BY DEF TrailOf
  <2>2. ASSUME NEW i \in Triaged(bugEvents, EventsAbout(id)), NEW j \in Triaged(bugEvents, EventsAbout(id)),
               i < j, bugEvents'[i].status \in Terminal
        PROVE bugEvents'[j].status = bugEvents'[i].status
    <3>1. bugEvents'[i] = bugEvents[i] /\ bugEvents'[j] = bugEvents[j]
      BY <1>6
    <3>2. bugEvents[j].status = bugEvents[i].status
      BY <2>1, <2>2, <3>1
    <3> QED BY <3>1, <3>2
  <2> QED BY <1>5, <2>2
<1> QED BY <1>3, <1>4, <1>5, <1>6, <1>7, <1>8, <1>9 DEF TrailOf

\* What a step tells of one bug, it does not tell of another.
LEMMA OthersStay ==
  ASSUME NEW id \in BugIds, NEW other \in BugIds, other # id, TrailOf(other), BugTypeOK,
         NEW e \in BugEvents, e.bug = id, bugEvents' = Append(bugEvents, e),
         \/ attempted' = attempted
         \/ \E a \in Attempts : a.bug = id /\ attempted' = Append(attempted, a),
         bugs'[other] = bugs[other], instant' \in {instant, instant + 1}
  PROVE  TrailOf(other)'
<1>1. EventsAbout(other)' = EventsAbout(other) /\ \A i \in EventsAbout(other) : bugEvents'[i] = bugEvents[i]
  BY OwnAfterAppend DEF EventsAbout, BugTypeOK
<1>2. Own(attempted, other)' = Own(attempted, other)
  <2>1. CASE attempted' = attempted
    BY <2>1 DEF Own
  <2>2. ASSUME NEW a \in Attempts, a.bug = id, attempted' = Append(attempted, a)
        PROVE Own(attempted, other)' = Own(attempted, other)
    BY <2>2, OwnAfterAppend DEF BugTypeOK
  <2> QED BY <2>1, <2>2
<1> QED BY <1>1, <1>2, TrailStays

LEMMA SubmitKeeps ==
  ASSUME BugInv, NEW title \in Titles, NEW reproducible \in BOOLEAN, NEW key \in SubmitKeys \cup {NoKey},
         SubmitBug(title, reproducible, key)
  PROVE  BugInv'
<1> DEFINE status == InitialStatus(reproducible)
<1>i. PICK id : id = BugId(title)
  OBVIOUS
<1>0. /\ id \in BugIds /\ id[2] = instant /\ status \in Initial /\ Initial \subseteq Statuses /\ "absent" \notin Statuses
      /\ UNCHANGED <<attempted, instant>> /\ instant \in Nat
  BY <1>i, BugTrackerAssumption DEF SubmitBug, BugId, BugIds, BugInv, BugTypeOK, InitialStatus, Initial, Statuses, Terminal, Open
<1>1. CASE Retried(key)
  <2>1. UNCHANGED <<bugs, bugEvents, keyed, attempted, instant>> /\ key \in SubmitKeys
        /\ answers' = [answers EXCEPT ![key] = @ \cup {CHOOSE i \in keyed[key] : TRUE}]
        /\ (CHOOSE i \in keyed[key] : TRUE) \in keyed[key]
    BY <1>1 DEF SubmitBug, Retried, Answered
  <2>2. BugTypeOK' /\ KeysInv'
    BY <2>1 DEF BugInv, BugTypeOK, KeysInv
  <2>3. \A x \in BugIds : TrailOf(x)'
    BY <2>1, TrailStays DEF BugInv, EventsAbout, Own
  <2> QED BY <2>2, <2>3 DEF BugInv
<1>2. CASE ~Retried(key)
  <2>1. /\ bugs' = [bugs EXCEPT ![id] = [status |-> status]]
        /\ keyed' = IF key = NoKey THEN keyed ELSE [keyed EXCEPT ![key] = {id}]
        /\ bugEvents' = Append(bugEvents, [bug |-> id, status |-> status])
        /\ answers' = IF key = NoKey THEN answers ELSE [answers EXCEPT ![key] = @ \cup {id}]
    BY <1>2, <1>i DEF SubmitBug, Answered
  <2>2. PICK e \in BugEvents : e = [bug |-> id, status |-> status]
    BY <1>0 DEF BugEvents
  <2>3. bugEvents' \in Seq(BugEvents)
    BY <2>1, <2>2, OwnAfterAppend DEF BugInv, BugTypeOK
  <2>4. bugs' \in [BugIds -> BugRecords] /\ bugs'[id] = [status |-> status] /\ \A x \in BugIds : x # id => bugs'[x] = bugs[x]
    BY <1>0, <2>1 DEF BugInv, BugTypeOK, BugRecords
  <2>5. BugTypeOK'
    BY <1>0, <2>1, <2>3, <2>4 DEF BugInv, BugTypeOK
  <2>6. KeysInv'
    <3>1. key # NoKey => key \in SubmitKeys /\ keyed[key] = {} /\ answers[key] = {}
      BY <1>2 DEF Retried, BugInv, KeysInv, BugTypeOK
    <3> QED BY <2>1, <3>1 DEF BugInv, BugTypeOK, KeysInv
  <2>7. TrailOf(id)'
    <3>1. bugs'[id].status = status /\ bugs'[id] # NoBug
      BY <1>0, <2>4 DEF NoBug
    <3>2. \A i \in Triaged(bugEvents, EventsAbout(id)) : bugEvents[i].status \in Initial
      BY <1>0 DEF BugInv, TrailOf
    <3>3. Initial \cap Terminal = {}
      BY DEF Initial, Terminal
    <3>4. id[2] <= instant' /\ instant' \in Nat
      BY <1>0
    <3> QED BY <1>0, <2>1, <3>1, <3>2, <3>3, <3>4, TrailTells DEF BugInv
  <2>8. ASSUME NEW x \in BugIds, x # id PROVE TrailOf(x)'
    <3>1. e.bug = id /\ bugEvents' = Append(bugEvents, e)
      BY <2>1, <2>2
    <3> QED BY <1>0, <2>4, <2>8, <3>1, OthersStay DEF BugInv
  <2> QED BY <2>5, <2>6, <2>7, <2>8 DEF BugInv
<1> QED BY <1>1, <1>2

LEMMA UpdateKeeps ==
  ASSUME BugInv, NEW id \in BugIds, NEW status \in {"ready", "done", "invalid"}, UpdateBug(id, status)
  PROVE  BugInv'
<1>1. /\ bugs[id] # NoBug /\ instant < MaxUpdates /\ instant' = instant + 1
      /\ bugs[id].status \in Terminal => status = bugs[id].status
      /\ bugs' = [bugs EXCEPT ![id].status = status]
      /\ bugEvents' = Append(bugEvents, [bug |-> id, status |-> status])
      /\ UNCHANGED <<attempted, keyed, answers>>
  BY DEF UpdateBug, ValidTransition
<1>2. status \in Statuses /\ "absent" \notin Statuses /\ instant \in Nat /\ instant' \in 0 .. MaxUpdates /\ id[2] \in Nat
  BY <1>1, BugTrackerAssumption DEF BugInv, BugTypeOK, Statuses, Terminal, Open, BugIds
<1>3. PICK e \in BugEvents : e = [bug |-> id, status |-> status]
  BY <1>2 DEF BugEvents
<1>4. bugEvents' \in Seq(BugEvents)
  BY <1>1, <1>3, OwnAfterAppend DEF BugInv, BugTypeOK
<1>5. /\ bugs' \in [BugIds -> BugRecords] /\ bugs'[id].status = status /\ bugs'[id] # NoBug
      /\ \A x \in BugIds : x # id => bugs'[x] = bugs[x]
  <2>1. bugs[id] \in [status : Statuses]
    BY <1>1 DEF BugInv, BugTypeOK, BugRecords
  <2>2. [bugs[id] EXCEPT !.status = status] \in [status : Statuses] /\ [bugs[id] EXCEPT !.status = status].status = status
    BY <1>2, <2>1
  <2>3. bugs' = [bugs EXCEPT ![id] = [bugs[id] EXCEPT !.status = status]]
    BY <1>1
  <2>4. NoBug \notin [status : Statuses]
    BY <1>2 DEF NoBug
  <2> QED BY <2>2, <2>3, <2>4 DEF BugInv, BugTypeOK, BugRecords
<1>6. BugTypeOK' /\ KeysInv'
  BY <1>1, <1>2, <1>4, <1>5 DEF BugInv, BugTypeOK, KeysInv
<1>7. TrailOf(id)'
  <2>1. ASSUME NEW i \in Triaged(bugEvents, EventsAbout(id)), bugEvents[i].status \in Terminal
        PROVE status = bugEvents[i].status
    <3>1. PICK k \in Triaged(bugEvents, EventsAbout(id)) :
             bugEvents[k].status = bugs[id].status /\ \A j \in Triaged(bugEvents, EventsAbout(id)) : j <= k
      BY <1>1 DEF BugInv, TrailOf, EndsWith
    <3>2. i \in Nat /\ k \in Nat
      BY DEF Triaged, EventsAbout, Own, BugInv, BugTypeOK
    <3>3. i < k \/ i = k
      BY <3>1, <3>2
    <3>4. bugEvents[k].status = bugEvents[i].status
      BY <1>1, <2>1, <3>3 DEF BugInv, TrailOf
    <3> QED BY <1>1, <2>1, <3>1, <3>4
  <2>2. id[2] <= instant
    <3>1. ~(id[2] > instant)
      BY <1>1 DEF BugInv, TrailOf
    <3> QED BY <1>2, <3>1
  <2>3. id[2] <= instant' /\ id[2] # instant' /\ instant' \in Nat
    BY <1>1, <1>2, <2>2
  <2> QED BY <1>1, <1>2, <1>5, <2>1, <2>3, TrailTells DEF BugInv
<1>8. ASSUME NEW x \in BugIds, x # id PROVE TrailOf(x)'
  <2>1. e.bug = id /\ bugEvents' = Append(bugEvents, e)
    BY <1>1, <1>3
  <2> QED BY <1>1, <1>5, <1>8, <2>1, OthersStay DEF BugInv
<1> QED BY <1>6, <1>7, <1>8 DEF BugInv

LEMMA AttemptKeeps ==
  ASSUME BugInv, NEW id \in BugIds, NEW status \in {"failed", "verified"}, RecordAttempt(id, status)
  PROVE  BugInv'
<1>1. /\ bugs[id] # NoBug
      /\ bugEvents' = Append(bugEvents, [bug |-> id, status |-> "attempt"])
      /\ attempted' = Append(attempted, [bug |-> id, status |-> status])
      /\ UNCHANGED <<bugs, keyed, answers, instant>>
  BY DEF RecordAttempt
<1>2. PICK e \in BugEvents : e = [bug |-> id, status |-> "attempt"]
  BY DEF BugEvents
<1>3. PICK a \in Attempts : a = [bug |-> id, status |-> status]
  BY DEF Attempts
<1>4. bugEvents' \in Seq(BugEvents) /\ attempted' \in Seq(Attempts)
  BY <1>1, <1>2, <1>3, OwnAfterAppend DEF BugInv, BugTypeOK
<1>5. BugTypeOK' /\ KeysInv'
  BY <1>1, <1>4 DEF BugInv, BugTypeOK, KeysInv
<1>6. TrailOf(id)'
  BY <1>1, TrailCounts DEF BugInv
<1>7. ASSUME NEW x \in BugIds, x # id PROVE TrailOf(x)'
  <2>1. e.bug = id /\ bugEvents' = Append(bugEvents, e) /\ a.bug = id /\ attempted' = Append(attempted, a)
    BY <1>1, <1>2, <1>3
  <2> QED BY <1>1, <1>7, <2>1, OthersStay DEF BugInv
<1> QED BY <1>5, <1>6, <1>7 DEF BugInv

LEMMA BugInvKept == BugInv /\ [BugNext]_bugVars => BugInv'
<1> SUFFICES ASSUME BugInv, [BugNext]_bugVars PROVE BugInv'
  OBVIOUS
<1>1. CASE UNCHANGED bugVars
  <2>1. \A id \in BugIds : TrailOf(id)'
    BY <1>1, TrailStays DEF bugVars, BugInv, EventsAbout, Own
  <2>2. BugTypeOK' /\ KeysInv'
    BY <1>1 DEF bugVars, BugInv, BugTypeOK, KeysInv
  <2> QED BY <2>1, <2>2 DEF BugInv
<1> QED BY <1>1, SubmitKeeps, UpdateKeeps, AttemptKeeps DEF BugNext

LEMMA BugInvStarts == BugInit => BugInv
<1> SUFFICES ASSUME BugInit PROVE BugInv
  OBVIOUS
<1>1. BugTypeOK /\ KeysInv
  BY BugTrackerAssumption DEF BugInit, BugTypeOK, BugRecords, KeysInv
<1>2. ASSUME NEW id \in BugIds PROVE TrailOf(id)
  <2>1. EventsAbout(id) = {} /\ Own(attempted, id) = {} /\ bugs[id] = NoBug
    BY DEF BugInit, EventsAbout, Own
  <2>2. {i \in EventsAbout(id) : bugEvents[i].status = "attempt"} = {} /\ Triaged(bugEvents, EventsAbout(id)) = {}
    BY <2>1 DEF Triaged
  <2> QED BY <2>1, <2>2 DEF TrailOf, AttemptCount
<1> QED BY <1>1, <1>2 DEF BugInv

\* What an entry's own page says of a bug, the trail says.
LEMMA BugInvGives == BugInv => BugTrailIsTrue
<1> SUFFICES ASSUME BugInv PROVE BugTrailIsTrue
  OBVIOUS
<1>1. ASSUME NEW k \in SubmitKeys PROVE Cardinality(answers[k]) <= 1
  <2>1. answers[k] = {} \/ \E i : answers[k] = {i}
    BY DEF BugInv, KeysInv
  <2>2. CASE answers[k] = {}
    BY <2>2, FS_EmptySet
  <2>3. ASSUME NEW i, answers[k] = {i} PROVE Cardinality(answers[k]) <= 1
    <3>1. Cardinality({i}) = 1
      BY FS_Singleton
    <3> QED BY <2>3, <3>1
  <2> QED BY <2>1, <2>2, <2>3
<1>2. ASSUME NEW id \in BugIds
      PROVE LET page == ShowBug(id)
                failed == {i \in DOMAIN page.attempts : page.attempts[i].status = "failed"} IN
            id \in ReadyBugs <=> /\ EndsWith(page.events, Triaged(page.events, DOMAIN page.events), "ready")
                                 /\ Cardinality(failed) < FailureLimit
  <2> DEFINE page == ShowBug(id)
             failed == {i \in DOMAIN page.attempts : page.attempts[i].status = "failed"}
             told == Triaged(bugEvents, EventsAbout(id))
  <2>1. /\ page.events = [i \in EventsAbout(id) |-> bugEvents[i]]
        /\ page.attempts = [i \in Own(attempted, id) |-> attempted[i]]
    BY DEF ShowBug, Restrict
  <2>2. failed = {i \in Own(attempted, id) : attempted[i].status = "failed"}
    BY <2>1
  <2>3. Cardinality(failed) = FailedCount(id)
    BY <2>2 DEF FailedCount
  <2>4. Triaged(page.events, DOMAIN page.events) = told
    BY <2>1 DEF Triaged
  <2>5. EndsWith(page.events, Triaged(page.events, DOMAIN page.events), "ready") <=> EndsWith(bugEvents, told, "ready")
    <3>1. \A i \in told : page.events[i] = bugEvents[i]
      BY <2>1 DEF Triaged
    <3> QED BY <2>4, <3>1 DEF EndsWith
  <2>6. EndsWith(bugEvents, told, "ready") <=> bugs[id].status = "ready"
    <3>1. CASE bugs[id] = NoBug
      <4>1. told = {}
        BY <3>1 DEF BugInv, TrailOf, Triaged
      <4> QED BY <3>1, <4>1 DEF EndsWith, NoBug
    <3>2. CASE bugs[id] # NoBug
      <4>1. PICK k \in told : bugEvents[k].status = bugs[id].status /\ \A j \in told : j <= k
        BY <3>2 DEF BugInv, TrailOf, EndsWith
      <4>2. ASSUME NEW l \in told, \A j \in told : j <= l PROVE l = k
        <5>1. l \in Nat /\ k \in Nat
          BY DEF Triaged, EventsAbout, Own, BugInv, BugTypeOK
        <5>2. l <= k /\ k <= l
          BY <4>1, <4>2
        <5> QED BY <5>1, <5>2
      <4> QED BY <4>1, <4>2 DEF EndsWith
    <3> QED BY <3>1, <3>2
  <2>7. id \in ReadyBugs <=> bugs[id].status = "ready" /\ FailedCount(id) < FailureLimit
    BY DEF ReadyBugs, ListBugs
  <2> QED BY <2>3, <2>5, <2>6, <2>7
<1> QED BY <1>1, <1>2 DEF BugInv, TrailOf, BugTrailIsTrue, Initial

\* A key is answered with one bug, a trail tells what became of a bug and of
\* every attempt, nothing follows a terminal status but itself, and agents are
\* offered what its page calls ready (submit_bug, update_bug, record_attempt,
\* ready_bugs, show_bug), for any reports, keys and number of calls.
THEOREM TrailsAreTrue == BugSpec => []BugTrailIsTrue
<1> QED BY BugInvStarts, BugInvKept, BugInvGives, PTL DEF BugSpec
=============================================================================
