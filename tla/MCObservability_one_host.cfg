\* One host built and served again and again, with builds that fail while
\* or after configuring and a metric reader that fails to shut down.
CONSTANTS
  Hosts = {h1}
  MaxBoots = 4
  Sinks <- MCSinks
  Faults = {"sink", "build", "meter"}
SPECIFICATION Spec
INVARIANTS
  TypeOK
  ConfiguredIsWhole
  SinksOfThisBoot
  NothingOrphaned
  ServingIsObserved
