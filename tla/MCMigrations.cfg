SPECIFICATION MigSpec
CONSTANTS
  FamilyRepos = {"q1", "q2"}
  Kids = {"k1", "k2"}
  MaxStops = 2
  Provenance <- MCProvenance
INVARIANT
  FamiliesAreSeeded
CHECK_DEADLOCK FALSE
