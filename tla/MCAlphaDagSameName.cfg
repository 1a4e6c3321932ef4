\* A table and a function of one name, which is legal: the two have separate
\* name spaces.
SPECIFICATION Spec
CONSTANTS
  Files = {f1, f2, f3}
  SqlFiles = {f1, f2, f3}
  Tables = {x}
  Functions = {x}
  None = None
  Contents <- Parsable
  Arguments <- OneOrder
  Flags <- GraphFlags
  TableRoles <- FewTableRoles
  FunctionRoles <- AllFunctionRoles
INVARIANTS
  QueriesOrderedAsFilesSay
