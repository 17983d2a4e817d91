SPECIFICATION Spec
CONSTANTS
  Services = {s1, s2}
  Consoles = {}
  Benchmarks = {b1}
  Queries = FALSE
  MaxPolls = 1
  MaxCrashes = 1
PROPERTIES
  StopCompletes
  FailedServiceReturns
  CliAnswers
