SPECIFICATION Spec
CONSTANTS
  Services = {s1, s2}
  Consoles = {c1}
  Benchmarks = {}
  Queries = TRUE
  MaxPolls = 1
  MaxCrashes = 1
SYMMETRY ServiceSymmetry
INVARIANTS
  OneGoverns
  SettingsComeBack
  StoppedMeansRestored
PROPERTY KeepsContract
