\* A build whose configure_observability raises at the log sinks.
CONSTANTS
  Hosts = {h1}
  MaxBoots = 2
  Sinks <- MCSinks
  Faults = {"sink"}
SPECIFICATION Spec
INVARIANTS
  FailedBuildIsUndone
