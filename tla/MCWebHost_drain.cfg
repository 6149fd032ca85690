\* The graceful window ends with a request in flight; no fault strikes.
CONSTANTS
  N = 0
  Names = {"a"}
  AppResources = 1
  Faults = {}
  Requests = {r1}
  ScopedResources = 1
SPECIFICATION WebSpec
PROPERTIES
  ResourcesOutliveScopes
