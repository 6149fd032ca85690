\* Every choice of lifetimes, two tasks in a scope beside the host's.
CONSTANTS
  app = app
  r1 = r1
  t1 = t1
  t2 = t2
  host = host
  none = none
  Services = {1, 2, 3}
  Graphs <- SharedGraphs
  Root <- app
  Scopes = {r1}
  Tasks = {t1, t2, host}
  HomeOf <- RequestAndHost
  MaxGets = 2
  None <- none
SPECIFICATION LiveSpec
INVARIANTS
  TypeOK
  SingletonOnce
  ScopedOnce
  DisposedOnce
PROPERTIES
  DependentsFirst
  GetEnds
