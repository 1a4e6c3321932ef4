\* Tables in two spellings, procedures and functions, temporary or not; every
\* kind of column in the schema.
SPECIFICATION FairSpec
CONSTANTS
  Files = {f1, f2}
  f1 = f1
  f2 = f2
  Names = {t, T, u}
  Keys = {t, u}
  t = t
  T = T
  u = u
  Routines = {p, q, f}
  p = p
  q = q
  f = f
  NoName = NoName
  Missing = Missing
  Columns <- AllColumns
  Nesting <- NestingOf
  Lower <- LowerCase
  Bodies <- BodyOf
  Inputs <- AllInputs
  Plan <- FirstThenSecond
  MaxDepth = 3
INVARIANTS
  Inv
  NoEntryDangles
  SchemaIsWhole
  CatalogTellsHistory
  LastDefinitionCounts
  TempTablesAreLocal
  FunctionsTellHistory
  TempFunctionsAreFound
  DuplicatesEndTheCheck
PROPERTIES
  CheckEnds
