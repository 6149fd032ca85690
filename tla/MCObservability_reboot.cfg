\* A second boot of the process, without any fault.
CONSTANTS
  Hosts = {h1}
  MaxBoots = 2
  Sinks <- MCSinks
  Faults = {}
SPECIFICATION Spec
INVARIANTS
  FreshConfigure
