\* The flush after a dispose() that raises.
CONSTANTS
  N = 1
  Names = {"a"}
  AppResources = 2
  Faults = {"dispose"}
SPECIFICATION Spec
INVARIANTS
  FlushAlways
