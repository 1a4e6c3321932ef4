------------------------------- MODULE DagOrder -------------------------------
(***************************************************************************)
(* What "cycle" and "before" mean for the dependency graph that alphadag   *)
(* writes and alphacheck reads.  An edge <<u, v>> says that u must run     *)
(* before v.                                                               *)
(*                                                                         *)
(* Both notions are stated with sets of vertices, without paths and        *)
(* without recursion, so that TLC can evaluate them on small graphs and    *)
(* the provers can use them on every graph, infinite ones included.        *)
(***************************************************************************)
EXTENDS Integers, Sequences

\* The vertices that must run directly after v.
Successors(E, v) == {e[2] : e \in {d \in E : d[1] = v}}

\* A set of vertices each of which has a successor in the set.  In a finite
\* graph such a set contains a cycle, and every cycle is such a set.
Endless(E, S) == \A x \in S : \E y \in S : <<x, y>> \in E

Cyclic(V, E) == \E S \in SUBSET V : S # {} /\ Endless(E, S)

\* A set that no edge leaves.
Closed(E, S) == \A e \in E : e[1] \in S => e[2] \in S

\* v comes after u along one or more edges: v is in every closed set that
\* holds the successors of u.
Reaches(V, E, u, v) ==
  \A S \in SUBSET V : Closed(E, S) /\ Successors(E, u) \subseteq S => v \in S

\* A sequence that lists its elements in an order the graph allows.
RespectsOrder(V, E, seq) ==
  \A i, j \in DOMAIN seq : Reaches(V, E, seq[i], seq[j]) => i < j

Elements(seq) == {seq[i] : i \in DOMAIN seq}

Distinct(seq) == \A i, j \in DOMAIN seq : seq[i] = seq[j] => i = j
===============================================================================
