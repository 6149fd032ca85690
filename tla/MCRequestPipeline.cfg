\* One builder, built twice, and two connections: two middleware of the
\* application at every place around the built-ins, or any small endpoint.
CONSTANTS
  Connections = {c1, c2}
  Nobody = Nobody
  MaxBuilds = 2
  MaxParams = 2
  Orders = {50, 100, 200, 300}
  Programs <- MCPrograms
SYMMETRY ConnectionSymmetry
SPECIFICATION Spec
INVARIANTS
  TypeOK
  ScopeReachable
  FailureLogged
  ResolvedIsDisposed
  CalledComplete
  BuildsAgree
