------------------------------- MODULE PlanSpec -------------------------------
(***************************************************************************)
(* What GetExecutionPlan promises to main (alphacheck.cc:472-489): about   *)
(* the graph in the dot file it takes one decision.  The file cannot be    *)
(* read, or the graph has a cycle and the program exits, or the plan is    *)
(* some topological order of the queries of the graph, complete.           *)
(***************************************************************************)
EXTENDS DagOrder

CONSTANTS Vertex, Graphs

VARIABLES graph, outcome, plan

vars == <<graph, outcome, plan>>

Orders(query, p) ==
  /\ p \in Seq(query)
  /\ Elements(p) = query
  /\ Distinct(p)
  /\ RespectsOrder(Vertex, graph.edge, p)

Init ==
  /\ graph \in Graphs
  /\ outcome = "none"
  /\ plan = << >>

GiveUp ==
  /\ outcome = "none"
  /\ outcome' = "unread"
  /\ UNCHANGED <<graph, plan>>

Refuse ==
  /\ outcome = "none"
  /\ Cyclic(Vertex, graph.edge)
  /\ outcome' = "cycle"
  /\ UNCHANGED <<graph, plan>>

Deliver ==
  /\ outcome = "none"
  /\ ~Cyclic(Vertex, graph.edge)
  /\ outcome' = "done"
  /\ Orders(graph.query, plan')
  /\ UNCHANGED graph

Next == GiveUp \/ Refuse \/ Deliver

Spec == Init /\ [][Next]_vars

\* The decision is taken some time.
FairSpec == Spec /\ <>(outcome # "none")
===============================================================================
