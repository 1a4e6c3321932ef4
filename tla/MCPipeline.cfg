\* Three files and two tables, from alphadag to the parallel run.
SPECIFICATION FairPipelineSpec
CONSTANTS
  Files = {f1, f2, f3}
  SqlFiles = {f1, f2, f3}
  Tables = {t1, t2}
  t1 = t1
  t2 = t2
  Functions = {n}
  None = None
  Contents <- ThreeFiles
  Arguments <- OneOrder
  Flags <- SomeFlags
  Lakes <- SomeLakes
INVARIANTS
  QueriesOrderedAsFilesSay
  PipelineInv
  OrderIsOfFiles
  CheckedQueriesRun
  RunIsDeterminate
  NoQueryRunsEarly
PROPERTIES
  PipelineEnds
