CONSTANTS
  core = core
  routes = routes
  Paths = {core, routes}
  Owned = {routes}
  Workflows = {w1}
  RunnerIdentity = TRUE
  GeneratedBy = 2
  Edits <- MCEdits
  MaxCommits = 3
  Kinds = {"plain", "incompatible"}
  MaxLocal = 1
CHECK_DEADLOCK FALSE
SPECIFICATION Spec
INVARIANT CompatibilityIsManual
