----------------------------- MODULE Migrations -----------------------------
(* Schema migrations on open.  There is no version number: every open runs    *)
(* every migration, each guarded by the column or table text it adds, so a     *)
(* file may come from any older release or from an open that stopped between   *)
(* two statements.  A statement outside a transaction commits by itself.       *)
EXTENDS Integers, Sequences, FiniteSets

CONSTANTS
    FamilyRepos,    \* repositories in the file
    Provenance,     \* what the file says of each: "split", "prefix" or "plain"
    Kids,           \* ids of rows of the child tables of bots
    MaxStops        \* bound on opens that stop midway

ASSUME MigrationsAssumption ==
    /\ Provenance \in [FamilyRepos -> {"split", "prefix", "plain"}]
    /\ MaxStops \in Nat

VARIABLES
    cols,       \* columns present, of those the migrations add
    sourced,    \* whether the old pull request has its source_repository
    family,     \* family of each repository, "" for NULL
    bots,       \* shape of bots: "absent", "checked" (0017), "free" (0021), "team" (0023)
    kids,       \* rows of the child tables of bots
    logins,     \* "canonical", "mixed case" or "colliding" account logins
    fkOn,       \* PRAGMA foreign_keys of the connection
    at,         \* 0 closed, a step of Plan, or Opened
    refused,    \* whether an open returned an error
    edited,     \* families an operator set, and to what
    expected,   \* child rows written and not removed by the program
    stops

migVars == <<cols, sourced, family, bots, kids, logins, fkOn, at, refused, edited, expected, stops>>

----------------------------------------------------------------------------
(* The steps, in the order of apply_migrations *)
Tables(m) == [op |-> "tables", of |-> m]
Column(c) == [op |-> "column", of |-> c]
Step(o) == [op |-> o, of |-> ""]

PlanThrough0010 ==
    <<Tables("0001-0003"), Step("source"), Step("backfill"), Step("family"), Step("seed"), Step("prefix"),
      Tables("0006-0008"), Column("must_change_password"), Column("csrf_token"), Tables("0009"),
      Step("logins"), Column("display_name"), Column("status"), Column("account epoch"),
      Column("session epoch"), Column("token epoch"), Tables("0010")>>

PlanThrough0020 ==
    PlanThrough0010
    \o <<Column("head_sha"), Tables("0012"), Column("pushed_at"), Column("opt_out"), Column("origin"),
         Column("dismissed_review_id"), Tables("0017"), Tables("0018-0020")>>

Plan ==
    PlanThrough0020
    \o <<Step("kind"), Step("rotation"), Step("owner_kind"), Step("diff identity"), Tables("0025"),
         Column("dismissal_authority"), Column("creation_sequence")>>

Opened == Len(Plan) + 1

\* Columns a step of the plan adds.
AddedBy(s) ==
    CASE s.op = "column" -> {s.of}
      [] s.op = "source" -> {"source_repository"}
      [] s.op = "family" -> {"family"}
      [] s.op = "rotation" -> {"rotation_secret_version"}
      [] s.op = "diff identity" -> {"pull patch ids", "review patch ids"}
      [] OTHER -> {}

AllColumns == UNION {AddedBy(Plan[i]) : i \in DOMAIN Plan}

\* Whether table_info of a table lists a column.
ColumnExists(c) == c \in cols

----------------------------------------------------------------------------
(* Steps.  Each one commits what it changes and goes on; Fail returns Err.     *)
Here(o) == /\ at \in DOMAIN Plan /\ Plan[at].op = o /\ ~refused
           /\ UNCHANGED <<logins, edited, expected, stops, refused>>
GoOn == at' = at + 1

\* CREATE TABLE IF NOT EXISTS; the file of 0017 brings bots with its CHECK, and
\* the files of 0001 and 0010 turn foreign keys on.
CreateTables ==
    /\ Here("tables") /\ GoOn
    /\ bots' = IF Plan[at].of = "0017" /\ bots = "absent" THEN "checked" ELSE bots
    /\ fkOn' = (fkOn \/ Plan[at].of \in {"0001-0003", "0010"})
    /\ UNCHANGED <<cols, sourced, family, kids>>

AddColumnIfMissing ==
    /\ Here("column") /\ GoOn
    /\ cols' = cols \cup {Plan[at].of}
    /\ UNCHANGED <<sourced, family, bots, kids, fkOn>>

\* Mutant: the column is added without looking for it.
AddSourceUnguarded ==
    /\ at \in DOMAIN Plan /\ Plan[at].op = "source" /\ ~refused
    /\ IF ColumnExists("source_repository") THEN refused' = TRUE /\ UNCHANGED <<at, cols>>
       ELSE GoOn /\ cols' = cols \cup {"source_repository"} /\ UNCHANGED refused
    /\ UNCHANGED <<sourced, family, bots, kids, logins, fkOn, edited, expected, stops>>

\* 0004: the column, then the backfill, which runs on every open.
AddSource ==
    /\ Here("source") /\ GoOn
    /\ cols' = cols \cup {"source_repository"}
    /\ UNCHANGED <<sourced, family, bots, kids, fkOn>>

BackfillSource ==
    /\ Here("backfill") /\ GoOn
    /\ sourced' = TRUE
    /\ UNCHANGED <<cols, family, bots, kids, fkOn>>

\* The step after the two seeds.
AfterSeed == at + 3

\* 0005: the guard is the column; what follows the column runs once or never.
AddFamily ==
    /\ Here("family")
    /\ at' = IF ColumnExists("family") THEN AfterSeed ELSE at + 1
    /\ cols' = cols \cup {"family"}
    /\ UNCHANGED <<sourced, family, bots, kids, fkOn>>

\* family_from_import_provenance, a repository at a time.
SeedRepositoryFamilies ==
    /\ Here("seed")
    /\ LET left == {r \in FamilyRepos : Provenance[r] = "split" /\ family[r] = ""} IN
       \/ \E r \in left : family' = [family EXCEPT ![r] = "split"] /\ UNCHANGED at
       \/ left = {} /\ GoOn /\ UNCHANGED family
    /\ UNCHANGED <<cols, sourced, bots, kids, fkOn>>

SeedPrefixes ==
    /\ Here("prefix") /\ GoOn
    /\ family' = [r \in FamilyRepos |->
                    IF family[r] = "" /\ Provenance[r] = "prefix" THEN "prefix" ELSE family[r]]
    /\ UNCHANGED <<cols, sourced, bots, kids, fkOn>>

\* validate_canonical_account_logins.
ValidateLogins ==
    /\ at \in DOMAIN Plan /\ Plan[at].op = "logins" /\ ~refused
    /\ IF logins = "canonical" THEN GoOn /\ UNCHANGED refused
       ELSE refused' = TRUE /\ UNCHANGED at
    /\ UNCHANGED <<cols, sourced, family, bots, kids, logins, fkOn, edited, expected, stops>>

\* The setting while the rebuild drops bots.
ForeignKeysOff == FALSE

\* rebuild_bots: copy, drop, rename in one transaction.  With foreign keys on
\* the drop deletes every child row.  The setting is put back afterwards.
RebuildBots(shape) ==
    /\ bots' = shape
    /\ kids' = IF ForeignKeysOff THEN {} ELSE kids

Migration0021 ==
    /\ Here("kind") /\ GoOn
    /\ IF bots = "checked" THEN RebuildBots("free") ELSE UNCHANGED <<bots, kids>>
    /\ UNCHANGED <<cols, sourced, family, fkOn>>

Migration0022 ==
    /\ Here("rotation") /\ GoOn
    /\ cols' = cols \cup {"rotation_secret_version"}
    /\ UNCHANGED <<sourced, family, bots, kids, fkOn>>

Migration0023 ==
    /\ Here("owner_kind") /\ GoOn
    /\ IF bots = "team" THEN UNCHANGED <<bots, kids>> ELSE RebuildBots("team")
    /\ UNCHANGED <<cols, sourced, family, fkOn>>

\* 0024: two columns in one transaction, guarded by the second.
Migration0024 ==
    /\ Here("diff identity") /\ GoOn
    /\ cols' = cols \cup {"pull patch ids", "review patch ids"}
    /\ UNCHANGED <<sourced, family, bots, kids, fkOn>>

----------------------------------------------------------------------------
(* The process *)
StartOpen ==
    /\ at = 0 /\ ~refused /\ at' = 1
    /\ fkOn' = TRUE     \* as open_bound ends
    /\ UNCHANGED <<cols, sourced, family, bots, kids, logins, refused, edited, expected, stops>>

\* A stop drops the connection and its setting, and rolls a transaction back.
StopOpen ==
    /\ at # 0 /\ at' = 0
    /\ at = Opened \/ stops < MaxStops
    /\ stops' = IF at = Opened THEN stops ELSE stops + 1
    /\ fkOn' = FALSE
    /\ UNCHANGED <<cols, sourced, family, bots, kids, logins, refused, edited, expected>>

\* The forge at work: a family is set or cleared, a bot gains and loses rows.
SetFamily(r, f) ==
    /\ at = Opened /\ edited[r] = "untouched"
    /\ family' = [family EXCEPT ![r] = f]
    /\ edited' = [edited EXCEPT ![r] = f]
    /\ UNCHANGED <<cols, sourced, bots, kids, logins, fkOn, at, refused, expected, stops>>

ChangeKid(k) ==
    /\ at = Opened
    /\ kids' = IF k \in kids THEN kids \ {k} ELSE kids \cup {k}
    /\ expected' = kids'
    /\ UNCHANGED <<cols, sourced, family, bots, logins, fkOn, at, refused, edited, stops>>

\* The columns a release before step i left, and what its rows held.
MigInit ==
    /\ \E i \in 1 .. Opened :
          LET done == {Plan[j] : j \in 1 .. (i - 1)} IN
          /\ cols = UNION {AddedBy(s) : s \in done}
          /\ sourced = (Step("backfill") \in done)
          /\ family = [r \in FamilyRepos |->
                         IF Step("family") \notin done \/ Provenance[r] = "plain" THEN "" ELSE Provenance[r]]
          /\ bots = IF Step("owner_kind") \in done THEN "team" ELSE IF Step("kind") \in done THEN "free"
                    ELSE IF Tables("0017") \in done THEN "checked" ELSE "absent"
          /\ kids = IF Tables("0017") \in done THEN Kids ELSE {}
          /\ logins \in (IF Step("logins") \in done THEN {"canonical"}
                         ELSE {"canonical", "mixed case", "colliding"})
    /\ fkOn = FALSE /\ at = 0 /\ refused = FALSE /\ stops = 0
    /\ edited = [r \in FamilyRepos |-> "untouched"]
    /\ expected = kids

MigNext ==
    \/ StartOpen \/ StopOpen
    \/ CreateTables \/ AddColumnIfMissing \/ AddSource \/ BackfillSource
    \/ AddFamily \/ SeedRepositoryFamilies \/ SeedPrefixes \/ ValidateLogins
    \/ Migration0021 \/ Migration0022 \/ Migration0023 \/ Migration0024
    \/ \E r \in FamilyRepos, f \in {"", "other"} : SetFamily(r, f)
    \/ \E k \in Kids : ChangeKid(k)

MigSpec == MigInit /\ [][MigNext]_migVars

----------------------------------------------------------------------------
(* From a file of any release, and whatever opens stopped midway before: an    *)
(* open that succeeds has every column, the team shape of bots, sources for    *)
(* old pull requests and foreign keys on; no open is refused but for logins;   *)
(* no child row of a bot is ever lost; and no later open overwrites a family   *)
(* an operator set or cleared (apply_migrations).                              *)
OpenedFileIsWhole ==
    /\ at = Opened => cols = AllColumns /\ bots = "team" /\ sourced /\ fkOn
    /\ refused => logins # "canonical"
    /\ kids = expected
    /\ \A r \in FamilyRepos : edited[r] # "untouched" => family[r] = edited[r]

(* A repository a release before families left has, once the file is open, the *)
(* family its import or name gives it, unless an operator changed it           *)
(* (apply_migration_0005).                                                     *)
FamiliesAreSeeded ==
    at = Opened => \A r \in FamilyRepos :
        edited[r] = "untouched" /\ Provenance[r] # "plain" => family[r] = Provenance[r]
=============================================================================
