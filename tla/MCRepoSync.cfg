SPECIFICATION Spec
CONSTANTS
  g1 = g1
  g2 = g2
  a = a
  b = b
  c = c
  meta = meta
  Syncs = {s1, s2}
  Scheduler = s1
  Sources <- MCSources
  Repos <- MCRepos
  Limit <- MCLimit
  Dir <- MCDir
  MetaRepo = meta
  MaxRevs = 1
  Modes <- MCModes
  MaxSyncs = 1
  MaxCrashes = 1
  User = {"edit", "detach", "other"}
  Edited = {b}
  Broken = {g2}
  Faults = {"git", "crash"}
  None = None
PROPERTIES OutcomesAreTrue OkMeansAll MissingIsCloned
