\* A temporary table and a permanent one of the same name.
SPECIFICATION Spec
CONSTANTS
  Files = {f1, f2}
  f1 = f1
  f2 = f2
  Names = {t, T, u}
  Keys = {t, u}
  t = t
  T = T
  u = u
  Routines = {p, q, f}
  p = p
  q = q
  f = f
  NoName = NoName
  Missing = Missing
  Columns <- AllColumns
  Nesting <- NestingOf
  Lower <- LowerCase
  Bodies <- BodyOf
  Inputs <- TableInputs
  Plan <- FirstThenSecond
  MaxDepth = 3
INVARIANTS
  RemovedTablesAreTemporary
