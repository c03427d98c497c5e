---------------------------- MODULE MCMigrations ----------------------------
(* The migrations alone: one repository with the provenance of a split         *)
(* import and one whose name has a known prefix.                               *)
EXTENDS Migrations

MCProvenance == [r \in FamilyRepos |-> IF r = "q1" THEN "split" ELSE "prefix"]
=============================================================================
