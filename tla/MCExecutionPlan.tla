---------------------------- MODULE MCExecutionPlan ----------------------------
(***************************************************************************)
(* Bounds for ExecutionPlan.  Over three vertices every graph of at most   *)
(* MaxEdges edges is tried, self-loops included, with every set of query   *)
(* vertices: cycles of length one, two and three, a query that depends on  *)
(* another only through a table, vertices nobody uses.                     *)
(***************************************************************************)
EXTENDS ExecutionPlan, FiniteSetsExt

CONSTANT MaxEdges

BoundedGraphs ==
  [edge : UNION {kSubset(k, Vertex \X Vertex) : k \in 0..MaxEdges},
   query : SUBSET Vertex]
===============================================================================
