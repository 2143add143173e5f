CONSTANTS
  Programs = {p1, p2}
  Envs <- MCEnvs
  Emails = {e1, e2}
  Last = 2
  AuthMigration = 2
  MaxSteps = 3
  Nobody = Nobody
  Unset = Unset
  Junk = Junk
SPECIFICATION FairSpec
INVARIANTS
  TypeOK
  VersionTruthful
  ServingIsConfigured
  AccountsAreWhole
PROPERTIES
  DirtyIsLeftAlone
  ImplementsSchemaLevels
  MigratedMeansComplete
  OneCreatorPerAccount
  EveryProgramEnds
