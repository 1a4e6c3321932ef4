\* Two files that may do anything with one table and one function; all flags;
\* arguments that repeat a path, a path that is no SQL file, syntax errors.
SPECIFICATION Spec
CONSTANTS
  Files = {f1, f2, f3}
  SqlFiles = {f1, f2}
  Tables = {t}
  Functions = {n}
  None = None
  Contents <- Anything
  Arguments <- ShortArguments
  Flags <- MostFlags
  TableRoles <- AllTableRoles
  FunctionRoles <- AllFunctionRoles
SYMMETRY Symmetry
INVARIANTS
  Inv
  NoSelfDependency
  EndpointsAreVertices
  ExternalTablesAreExact
  QueriesOrderedAsFilesSay
