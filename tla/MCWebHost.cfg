\* Two services and two requests, two scoped finalizers each.  Handlers may
\* hang, and services may ignore stopping but end when they are cancelled.
CONSTANTS
  N = 2
  Names = {"a", "b"}
  AppResources = 1
  Faults <- HonestFaults
  Requests = {r1, r2}
  ScopedResources = 2
SPECIFICATION WebLiveSpec
INVARIANTS
  WebTypeOK
  ServedInWindow
  ScopeFinalized
  NothingLeaked
PROPERTIES
  SignalEndsHost
  TeardownEnds
