CONSTANTS
  core = core
  routes = routes
  Paths = {core, routes}
  Owned = {routes}
  Workflows = {w1, w2}
  RunnerIdentity = TRUE
  GeneratedBy = 2
  Edits <- MCEdits
  MaxCommits = 3
  Kinds = {"plain", "breaking", "deleting"}
  MaxLocal = 1
CHECK_DEADLOCK FALSE
SYMMETRY Symmetry
SPECIFICATION Spec
INVARIANTS
  TypeOK
  ProvenanceHonest
  BreakingIsAnnounced
PROPERTIES
  VersionNeverRegresses
  OwnedFilesKept
