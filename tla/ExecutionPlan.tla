---------------------------- MODULE ExecutionPlan ----------------------------
(***************************************************************************)
(* GetExecutionPlan (alphacheck.cc): read the dot file, walk the graph     *)
(* depth first with a cycle_detector, exit when it saw a back edge,        *)
(* otherwise walk the graph again with topological_sort, and keep the      *)
(* query vertices of the sorted list as the plan.                          *)
(*                                                                         *)
(* The walk is Boost's depth_first_search, one action per visitor event.   *)
(* The order in which vertices and out-edges are examined is the order of  *)
(* the dot file, which nothing constrains: here it is any order.           *)
(***************************************************************************)
EXTENDS DagOrder

CONSTANTS
  Vertex,   \* the nodes a dot file may declare
  Graphs    \* the graphs that may be in the file

ASSUME GraphsAssumption ==
  Graphs \subseteq [edge : SUBSET (Vertex \X Vertex), query : SUBSET Vertex]

VARIABLES
  graph,      \* the dot file: its edges and the vertices whose type is "query"
  phase,      \* where GetExecutionPlan is
  color,      \* the color map of the current walk
  stack,      \* the vertices being visited, the deepest last
  todo,       \* per vertex, the out-edges the walk has not examined
  hasCycle,   \* has_cycle, set by cycle_detector
  result,     \* the list topological_sort fills through front_inserter
  pos,        \* the loop over result: the next element to look at
  plan        \* execution_plan

walk == <<color, stack, todo>>
vars == <<graph, phase, color, stack, todo, hasCycle, result, pos, plan>>

Walking == {"detect", "sort"}
Final   == {"done", "cycle", "not_a_dag", "unread"}
Phases  == {"read", "emit"} \cup Walking \cup Final

FreshColors == [v \in Vertex |-> "white"]
AllEdges    == [v \in Vertex |-> Successors(graph.edge, v)]
Top         == stack[Len(stack)]

TypeOK ==
  /\ graph \in Graphs
  /\ phase \in Phases
  /\ color \in [Vertex -> {"white", "gray", "black"}]
  /\ stack \in Seq(Vertex)
  /\ todo \in [Vertex -> SUBSET Vertex]
  /\ hasCycle \in BOOLEAN
  /\ result \in Seq(Vertex)
  /\ pos \in Nat \ {0}
  /\ plan \in Seq(Vertex)

-----------------------------------------------------------------------------
Init ==
  /\ graph \in Graphs
  /\ phase = "read"
  /\ color = FreshColors
  /\ stack = << >>
  /\ todo = AllEdges
  /\ hasCycle = FALSE
  /\ result = << >>
  /\ pos = 1
  /\ plan = << >>

\* read_graphviz succeeds, and the walk with cycle_detector begins.
ReadGraph ==
  /\ phase = "read"
  /\ phase' = "detect"
  /\ UNCHANGED <<graph, walk, hasCycle, result, pos, plan>>

\* read_graphviz returns false: so does GetExecutionPlan, with an empty plan
\* (main does not look at what it returns).
ReadFails ==
  /\ phase = "read"
  /\ phase' = "unread"
  /\ UNCHANGED <<graph, walk, hasCycle, result, pos, plan>>

\* depth_first_search starts a tree at a white vertex.
StartVertex(v) ==
  /\ phase \in Walking
  /\ stack = << >>
  /\ color[v] = "white"
  /\ stack' = <<v>>
  /\ color' = [color EXCEPT ![v] = "gray"]
  /\ UNCHANGED <<graph, phase, todo, hasCycle, result, pos, plan>>

\* Take the unexamined edge from the deepest vertex to v.
Examine(v) ==
  /\ phase \in Walking
  /\ stack # << >>
  /\ v \in todo[Top]
  /\ todo' = [todo EXCEPT ![Top] = @ \ {v}]

TreeEdge(v) ==
  /\ Examine(v)
  /\ color[v] = "white"
  /\ stack' = Append(stack, v)
  /\ color' = [color EXCEPT ![v] = "gray"]
  /\ UNCHANGED <<graph, phase, hasCycle, result, pos, plan>>

\* cycle_detector as it would be if it judged edges by what is finished.
BackEdgeMissed(v) ==
  /\ Examine(v)
  /\ color[v] = "gray"
  /\ UNCHANGED <<graph, phase, color, stack, hasCycle, result, pos, plan>>

\* The visitor's back_edge: cycle_detector notes it and the walk goes on;
\* topological_sort throws not_a_dag.
BackEdge(v) ==
  /\ Examine(v)
  /\ color[v] = "gray"
  /\ IF phase = "detect"
     THEN hasCycle' = TRUE /\ UNCHANGED phase
     ELSE phase' = "not_a_dag" /\ UNCHANGED hasCycle
  /\ UNCHANGED <<graph, color, stack, result, pos, plan>>

ForwardOrCrossEdge(v) ==
  /\ Examine(v)
  /\ color[v] = "black"
  /\ UNCHANGED <<graph, phase, color, stack, hasCycle, result, pos, plan>>

\* A slip: a back_inserter instead of the front_inserter.
FinishVertexAtBack ==
  /\ phase \in Walking
  /\ stack # << >>
  /\ todo[Top] = {}
  /\ color' = [color EXCEPT ![Top] = "black"]
  /\ stack' = SubSeq(stack, 1, Len(stack) - 1)
  /\ result' = IF phase = "sort" THEN Append(result, Top) ELSE result
  /\ UNCHANGED <<graph, phase, todo, hasCycle, pos, plan>>

\* A slip: one list filled by both walks.
FinishVertexAlways ==
  /\ phase \in Walking
  /\ stack # << >>
  /\ todo[Top] = {}
  /\ color' = [color EXCEPT ![Top] = "black"]
  /\ stack' = SubSeq(stack, 1, Len(stack) - 1)
  /\ result' = <<Top>> \o result
  /\ UNCHANGED <<graph, phase, todo, hasCycle, pos, plan>>

\* finish_vertex: no out-edge is left.  topological_sort puts the vertex at
\* the front of the list, cycle_detector does nothing.
FinishVertex ==
  /\ phase \in Walking
  /\ stack # << >>
  /\ todo[Top] = {}
  /\ color' = [color EXCEPT ![Top] = "black"]
  /\ stack' = SubSeq(stack, 1, Len(stack) - 1)
  /\ result' = IF phase = "sort" THEN <<Top>> \o result ELSE result
  /\ UNCHANGED <<graph, phase, todo, hasCycle, pos, plan>>

WalkIsOver ==
  /\ stack = << >>
  /\ \A v \in Vertex : color[v] = "black"

\* A slip: sort without looking at has_cycle.
EndDetectionUnchecked ==
  /\ phase = "detect"
  /\ WalkIsOver
  /\ phase' = "sort"
  /\ color' = FreshColors
  /\ todo' = AllEdges
  /\ UNCHANGED <<graph, stack, hasCycle, result, pos, plan>>

\* The first walk is over: exit(1) when it saw a back edge, else sort.
EndDetection ==
  /\ phase = "detect"
  /\ WalkIsOver
  /\ IF hasCycle
     THEN phase' = "cycle" /\ UNCHANGED walk
     ELSE /\ phase' = "sort"
          /\ color' = FreshColors
          /\ todo' = AllEdges
          /\ UNCHANGED stack
  /\ UNCHANGED <<graph, hasCycle, result, pos, plan>>

EndSort ==
  /\ phase = "sort"
  /\ WalkIsOver
  /\ phase' = "emit"
  /\ UNCHANGED <<graph, walk, hasCycle, result, pos, plan>>

\* One turn of the loop over result: only query vertices enter the plan.
EmitVertex ==
  /\ phase = "emit"
  /\ pos <= Len(result)
  /\ plan' = IF result[pos] \in graph.query THEN Append(plan, result[pos]) ELSE plan
  /\ pos' = pos + 1
  /\ UNCHANGED <<graph, phase, walk, hasCycle, result>>

\* A slip: the loop stops one element early.
EndEmitEarly ==
  /\ phase = "emit"
  /\ pos >= Len(result)
  /\ phase' = "done"
  /\ UNCHANGED <<graph, walk, hasCycle, result, pos, plan>>

EndEmit ==
  /\ phase = "emit"
  /\ pos > Len(result)
  /\ phase' = "done"
  /\ UNCHANGED <<graph, walk, hasCycle, result, pos, plan>>

\* GetExecutionPlan has returned, thrown or exited.
Terminated == phase \in Final /\ UNCHANGED vars

Next ==
  \/ ReadGraph
  \/ ReadFails
  \/ \E v \in Vertex :
       \/ StartVertex(v)
       \/ TreeEdge(v)
       \/ BackEdge(v)
       \/ ForwardOrCrossEdge(v)
  \/ FinishVertex
  \/ EndDetection
  \/ EndSort
  \/ EmitVertex
  \/ EndEmit
  \/ Terminated

Spec == Init /\ [][Next]_vars

\* One thread runs the function and nothing in it blocks.
FairSpec == Spec /\ WF_vars(Next)

-----------------------------------------------------------------------------
(* What the function must guarantee.                                       *)

\* The verdict of the first walk is right: alphacheck exits over a cycle
\* only if the graph has one, and goes on to sort (alphacheck.cc:433-441)
\* only if it has none.
CycleVerdict ==
  /\ phase = "cycle" => Cyclic(Vertex, graph.edge)
  /\ phase \in {"sort", "emit", "done"} => ~Cyclic(Vertex, graph.edge)

\* topological_sort never throws: its walk meets a back edge only in a graph
\* on which the first walk has already made the program exit.  Nothing
\* catches the exception.
NeverNotADag == phase # "not_a_dag"

\* Whenever a query is in the plan, every query that it comes after in the
\* graph, directly or through tables and functions, stands before it in the
\* plan, although the vertices in between are filtered out.
PlanIsTopological == RespectsOrder(Vertex, graph.edge, plan)

\* The finished plan holds every query of the file, each once: the filter
\* and the front inserter lose and repeat nothing.
PlanIsComplete ==
  phase = "done" => Elements(plan) = graph.query /\ Distinct(plan)

-----------------------------------------------------------------------------
(* Why it does: the inductive invariant, by parts.                         *)

Black == {v \in Vertex : color[v] = "black"}
Gray  == {v \in Vertex : color[v] = "gray"}

\* The stack is a path without repetitions through exactly the gray vertices.
StackIsGrayPath ==
  /\ Distinct(stack)
  /\ Elements(stack) = Gray
  /\ \A i \in 1..(Len(stack) - 1) : <<stack[i], stack[i + 1]>> \in graph.edge

\* What is left to examine: everything of a white vertex, nothing of a black one.
TodoIsLeft ==
  \A v \in Vertex :
    /\ todo[v] \subseteq Successors(graph.edge, v)
    /\ color[v] = "white" => todo[v] = Successors(graph.edge, v)
    /\ color[v] = "black" => todo[v] = {}

\* An edge that was examined without being a back edge leads to a finished
\* vertex, or to the vertex next on the stack.
ExaminedEdges ==
  ~hasCycle =>
    \A x, y \in Vertex :
      <<x, y>> \in graph.edge /\ y \notin todo[x] =>
        \/ color[y] = "black"
        \/ \E k \in 1..(Len(stack) - 1) : stack[k] = x /\ stack[k + 1] = y

\* has_cycle tells the truth about what the walk has finished.
VerdictSoFar ==
  IF hasCycle
  THEN Cyclic(Vertex, graph.edge)
  ELSE \A S \in SUBSET Black : S # {} => ~Endless(graph.edge, S)

\* The sorted list holds the finished vertices, each once, later ones of an
\* edge further back.
ResultIsSorted ==
  /\ Distinct(result)
  /\ \A i, j \in DOMAIN result :
       <<result[i], result[j]>> \in graph.edge => i < j
  /\ CASE phase = "sort" -> Elements(result) = Black
       [] phase \in {"emit", "done"} -> Elements(result) = Vertex
       [] OTHER -> result = << >>

\* The plan is what the loop has kept of the list so far, in its order.
PlanFollowsResult ==
  /\ phase \notin {"emit", "done"} => pos = 1
  /\ pos \in 1..(Len(result) + 1)
  /\ phase = "done" => pos = Len(result) + 1
  /\ \A i \in DOMAIN plan :
       plan[i] \in graph.query /\ \E a \in 1..(pos - 1) : result[a] = plan[i]
  /\ \A i, j \in DOMAIN plan : i < j =>
       \E a, b \in 1..(pos - 1) : a < b /\ result[a] = plan[i] /\ result[b] = plan[j]
  /\ \A a \in 1..(pos - 1) :
       result[a] \in graph.query => \E i \in DOMAIN plan : plan[i] = result[a]

PhaseFacts ==
  /\ phase \in {"read", "unread", "sort", "emit", "done"} => ~hasCycle
  /\ phase \in {"sort", "emit", "done"} => ~Cyclic(Vertex, graph.edge)
  /\ phase = "cycle" => hasCycle
  /\ phase # "not_a_dag"

Inv ==
  /\ TypeOK
  /\ StackIsGrayPath
  /\ TodoIsLeft
  /\ ExaminedEdges
  /\ VerdictSoFar
  /\ ResultIsSorted
  /\ PlanFollowsResult
  /\ PhaseFacts

-----------------------------------------------------------------------------
(* The promise that the function implements (PlanSpec): one decision about *)
(* the graph.                                                              *)
Promise == INSTANCE PlanSpec WITH
  outcome <- IF phase \in Final THEN phase ELSE "none",
  plan    <- IF phase = "done" THEN plan ELSE << >>

ImplementsPromise == Promise!FairSpec
===============================================================================
