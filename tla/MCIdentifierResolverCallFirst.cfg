\* A file that calls a procedure may be read before the one that defines it.
SPECIFICATION Spec
CONSTANTS
  Files = {f1, f2}
  Tables = {t, u}
  Functions = {p, q}
  t = t
  u = u
  p = p
  q = q
  NoName = NoName
  Blocks <- ProcedureBlocks
  MaxBlocks = 1
  Scripts <- TwoFiles
  Orders <- OneOrder
INVARIANTS
  CallersCreate
