\* What a script depends on beside its temporary tables and functions.
SPECIFICATION Spec
CONSTANTS
  Files = {f1, f2}
  Tables = {t, u}
  Functions = {p, q}
  t = t
  u = u
  p = p
  q = q
  NoName = NoName
  Blocks <- TempBlocks
  MaxBlocks = 1
  Scripts <- TwoFiles
  Orders <- OneOrder
INVARIANTS
  DependenciesAreFound
