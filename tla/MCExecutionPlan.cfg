\* Every graph of up to five edges over three vertices.  The refinement includes
\* liveness, so that the vertices are not declared interchangeable.
SPECIFICATION FairSpec
CONSTANTS
  Vertex = {v1, v2, v3}
  Graphs <- BoundedGraphs
  MaxEdges = 5
INVARIANTS
  Inv
  CycleVerdict
  NeverNotADag
  PlanIsTopological
  PlanIsComplete
PROPERTIES
  ImplementsPromise
