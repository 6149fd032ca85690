\* Safety: up to three services, two names, two APP-scoped finalizers, every fault.
CONSTANTS
  N = 3
  Names = {"a", "b"}
  AppResources = 2
  Faults <- AllFaults
SPECIFICATION Spec
INVARIANTS
  TypeOK
  NoServiceAtClose
  GracePeriod
  BodyWindow
  DisposedUnlessCut
  FlushedUnlessFailed
PROPERTIES
  TeardownOrder
  ImplementsTeardown
