\* Tables, temporary tables, side effects, procedures and functions, on top, in
\* branches and in bodies.
SPECIFICATION Spec
CONSTANTS
  Files = {f1, f2}
  Tables = {t, u}
  Functions = {p, q}
  t = t
  u = u
  p = p
  q = q
  NoName = NoName
  Blocks <- MixedBlocks
  MaxBlocks = 2
  Scripts <- TwoFiles
  Orders <- OneOrder
INVARIANTS
  Inv
  SideEffectsAreOwn
  WarningsAreErrors
  CreatedIsExact
