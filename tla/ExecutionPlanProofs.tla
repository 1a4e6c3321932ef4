-------------------------- MODULE ExecutionPlanProofs --------------------------
(***************************************************************************)
(* Proofs about ExecutionPlan, for every set of vertices and every graph.  *)
(***************************************************************************)
EXTENDS ExecutionPlan, SequenceTheorems, TLAPS

(* Facts about graphs and sequences.                                       *)

\* A graph of the file has edges between vertices, and its queries are vertices.
LEMMA GraphType ==
  ASSUME NEW g \in Graphs
  PROVE  /\ g.edge \subseteq Vertex \X Vertex
         /\ g.query \subseteq Vertex
         /\ \A v \in Vertex : Successors(g.edge, v) \subseteq Vertex
<1>1. g \in [edge : SUBSET (Vertex \X Vertex), query : SUBSET Vertex]
  BY GraphsAssumption
<1>2. g.edge \subseteq Vertex \X Vertex /\ g.query \subseteq Vertex
  BY <1>1
<1>3. \A v \in Vertex : Successors(g.edge, v) \subseteq Vertex
  BY <1>2 DEF Successors
<1> QED BY <1>2, <1>3

\* What it is to be a successor.
LEMMA SuccessorsAre ==
  ASSUME NEW E, NEW V, E \subseteq V \X V, NEW x, NEW y
  PROVE  y \in Successors(E, x) <=> <<x, y>> \in E
BY DEF Successors

\* Popping the last element.
LEMMA PopProperties ==
  ASSUME NEW S, NEW s \in Seq(S), s # << >>
  PROVE  /\ SubSeq(s, 1, Len(s) - 1) \in Seq(S)
         /\ Len(SubSeq(s, 1, Len(s) - 1)) = Len(s) - 1
         /\ \A i \in 1..(Len(s) - 1) : SubSeq(s, 1, Len(s) - 1)[i] = s[i]
         /\ Len(s) \in Nat \ {0}
         /\ s[Len(s)] \in S
<1>1. Len(s) \in Nat \ {0}
  BY EmptySeq
<1>2. \A i \in 1..Len(s) : s[i] \in S
  BY ElementOfSeq
<1> DEFINE n == Len(s) - 1
<1>3. n \in Nat /\ \A i \in 1..n : s[i] \in S
  BY <1>1, <1>2
<1>4. /\ SubSeq(s, 1, n) \in Seq(S)
      /\ Len(SubSeq(s, 1, n)) = IF 1 <= n THEN n - 1 + 1 ELSE 0
      /\ \A i \in 1..(n - 1 + 1) : SubSeq(s, 1, n)[i] = s[1 + i - 1]
  <2> HIDE DEF n
  <2> QED BY <1>3, SubSeqProperties
<1>5. Len(SubSeq(s, 1, n)) = n
  <2> HIDE DEF n
  <2> QED BY <1>3, <1>4
<1>6. \A i \in 1..n : SubSeq(s, 1, n)[i] = s[i]
  <2> HIDE DEF n
  <2> QED BY <1>3, <1>4
<1> QED BY <1>1, <1>2, <1>4, <1>5, <1>6

\* Pushing in front.
LEMMA PushFrontProperties ==
  ASSUME NEW S, NEW s \in Seq(S), NEW x \in S
  PROVE  /\ <<x>> \o s \in Seq(S)
         /\ Len(<<x>> \o s) = Len(s) + 1
         /\ (<<x>> \o s)[1] = x
         /\ \A i \in 1..Len(s) : (<<x>> \o s)[i + 1] = s[i]
<1>1. <<x>> \in Seq(S) /\ Len(<<x>>) = 1 /\ <<x>>[1] = x
  OBVIOUS
<1>2. Len(s) \in Nat
  OBVIOUS
<1> QED BY <1>1, <1>2, ConcatProperties

-----------------------------------------------------------------------------
(* Types.                                                                  *)

\* The initial state is well typed.
LEMMA InitType == Init => TypeOK
<1> SUFFICES ASSUME Init PROVE TypeOK
  OBVIOUS
<1>1. todo \in [Vertex -> SUBSET Vertex]
  BY GraphType DEF Init, AllEdges
<1>2. color \in [Vertex -> {"white", "gray", "black"}]
  BY DEF Init, FreshColors
<1>3. phase \in Phases
  BY DEF Init, Phases
<1>4. stack \in Seq(Vertex) /\ result \in Seq(Vertex) /\ plan \in Seq(Vertex)
  BY DEF Init
<1>5. hasCycle \in BOOLEAN
  BY DEF Init
<1>6. pos \in Nat \ {0}
  BY DEF Init
<1>7. graph \in Graphs
  BY DEF Init
<1> QED BY <1>1, <1>2, <1>3, <1>4, <1>5, <1>6, <1>7 DEF TypeOK

\* The deepest vertex of the stack is a vertex.
LEMMA TopType ==
  ASSUME TypeOK, stack # << >>
  PROVE  Top \in Vertex /\ Len(stack) \in Nat \ {0}
BY PopProperties DEF TypeOK, Top

\* Every step keeps the types.
LEMMA NextType == TypeOK /\ [Next]_vars => TypeOK'
<1> SUFFICES ASSUME TypeOK, [Next]_vars PROVE TypeOK'
  OBVIOUS
<1> USE DEF TypeOK, Phases, Walking, Final, walk
<1>1. CASE ReadGraph
  BY <1>1 DEF ReadGraph
<1>2. CASE ReadFails
  BY <1>2 DEF ReadFails
<1>3. ASSUME NEW v \in Vertex, StartVertex(v) PROVE TypeOK'
  BY <1>3 DEF StartVertex
<1>4. ASSUME NEW v \in Vertex, TreeEdge(v) PROVE TypeOK'
  BY <1>4, TopType, AppendProperties DEF TreeEdge, Examine
<1>5. ASSUME NEW v \in Vertex, BackEdge(v) PROVE TypeOK'
  BY <1>5, TopType DEF BackEdge, Examine
<1>6. ASSUME NEW v \in Vertex, ForwardOrCrossEdge(v) PROVE TypeOK'
  BY <1>6, TopType DEF ForwardOrCrossEdge, Examine
<1>7. CASE FinishVertex
  BY <1>7, TopType, PopProperties, PushFrontProperties DEF FinishVertex
<1>8. CASE EndDetection
  BY <1>8, GraphType DEF EndDetection, FreshColors, AllEdges
<1>9. CASE EndSort
  BY <1>9 DEF EndSort
<1>10. CASE EmitVertex
  <2>1. result[pos] \in Vertex
    BY <1>10, ElementOfSeq DEF EmitVertex
  <2> QED BY <1>10, <2>1, AppendProperties DEF EmitVertex
<1>11. CASE EndEmit
  BY <1>11 DEF EndEmit
<1>12. CASE UNCHANGED vars
  BY <1>12 DEF vars
<1> QED BY <1>1, <1>2, <1>3, <1>4, <1>5, <1>6, <1>7, <1>8, <1>9, <1>10, <1>11, <1>12
        DEF Next, Terminated

\* The types of the variables of GetExecutionPlan hold in every state of
\* every walk.
THEOREM TypeCorrect == Spec => []TypeOK
BY InitType, NextType, PTL DEF Spec
-----------------------------------------------------------------------------
(* The inductive invariant, one lemma per kind of step.                    *)

\* The invariant holds before the file is read.
LEMMA InitInv == Init => Inv
<1> SUFFICES ASSUME Init PROVE Inv
  OBVIOUS
<1> USE DEF Init
<1>1. TypeOK
  BY InitType
<1>2. Gray = {} /\ Black = {}
  BY DEF Gray, Black, FreshColors
<1>3. StackIsGrayPath
  BY <1>2 DEF StackIsGrayPath, Distinct, Elements
<1>4. TodoIsLeft
  BY DEF TodoIsLeft, FreshColors, AllEdges
<1>5. ExaminedEdges
  BY DEF ExaminedEdges, AllEdges, Successors
<1>6. VerdictSoFar
  BY <1>2 DEF VerdictSoFar
<1>7. ResultIsSorted
  BY DEF ResultIsSorted, Distinct
<1>8. PlanFollowsResult
  BY DEF PlanFollowsResult
<1>9. PhaseFacts
  BY DEF PhaseFacts
<1> QED BY <1>1, <1>3, <1>4, <1>5, <1>6, <1>7, <1>8, <1>9 DEF Inv

\* The vertices on the stack from the target of a back edge on all have a
\* successor among themselves.
LEMMA BackEdgeClosesCycle ==
  ASSUME TypeOK, StackIsGrayPath, stack # << >>,
         NEW v \in Vertex, color[v] = "gray", <<Top, v>> \in graph.edge
  PROVE  Cyclic(Vertex, graph.edge)
<1>1. v \in Elements(stack)
  BY DEF StackIsGrayPath, Gray
<1>2. PICK k \in 1..Len(stack) : stack[k] = v
  BY <1>1 DEF Elements, TypeOK
<1> DEFINE S == {stack[i] : i \in k..Len(stack)}
<1>3. Len(stack) \in Nat /\ \A i \in 1..Len(stack) : stack[i] \in Vertex
  BY ElementOfSeq DEF TypeOK
<1>4. S \in SUBSET Vertex /\ S # {}
  BY <1>2, <1>3
<1>5. ASSUME NEW x \in S PROVE \E y \in S : <<x, y>> \in graph.edge
  <2>1. PICK i \in k..Len(stack) : x = stack[i]
    BY <1>5
  <2>2. CASE i = Len(stack)
    <3>1. v \in S
      BY <1>2, <1>3
    <3> QED BY <2>1, <2>2, <3>1 DEF Top
  <2>3. CASE i < Len(stack)
    <3>1. stack[i + 1] \in S
      BY <1>2, <1>3, <2>3
    <3>2. <<stack[i], stack[i + 1]>> \in graph.edge
      BY <1>2, <1>3, <2>3 DEF StackIsGrayPath
    <3> QED BY <2>1, <3>1, <3>2
  <2>4. i = Len(stack) \/ i < Len(stack)
    BY <1>3, <2>1
  <2> QED BY <2>2, <2>3, <2>4
<1> QED BY <1>4, <1>5 DEF Cyclic, Endless

\* Starting a tree: the stack was empty and becomes one gray vertex.
LEMMA StartVertexKeepsInv ==
  ASSUME Inv, NEW v \in Vertex, StartVertex(v)
  PROVE  StackIsGrayPath' /\ TodoIsLeft' /\ ExaminedEdges' /\ Black' = Black
<1> USE DEF Inv, TypeOK, StartVertex
<1>1. Gray = {}
  BY DEF StackIsGrayPath, Elements
<1>2. Gray' = {v}
  BY <1>1 DEF Gray
<1>3. StackIsGrayPath'
  BY <1>2 DEF StackIsGrayPath, Elements, Distinct
<1>4. TodoIsLeft'
  BY DEF TodoIsLeft
<1>5. ExaminedEdges'
  BY DEF ExaminedEdges
<1>6. Black' = Black
  BY DEF Black
<1> QED BY <1>3, <1>4, <1>5, <1>6

\* The deepest vertex is gray and the edge examined next is an edge.
LEMMA TopIsGray ==
  ASSUME Inv, stack # << >>
  PROVE  /\ Top \in Vertex /\ color[Top] = "gray"
         /\ Len(stack) \in Nat \ {0}
         /\ \A v \in todo[Top] : <<Top, v>> \in graph.edge
<1>1. Top \in Vertex /\ Len(stack) \in Nat \ {0}
  BY TopType DEF Inv
<1>2. Top \in Elements(stack)
  BY <1>1 DEF Elements, Top, Inv, TypeOK
<1>3. color[Top] = "gray"
  BY <1>2 DEF Inv, StackIsGrayPath, Gray
<1>4. \A v \in todo[Top] : <<Top, v>> \in graph.edge
  BY <1>1, GraphType, SuccessorsAre DEF Inv, TypeOK, TodoIsLeft
<1> QED BY <1>1, <1>3, <1>4

\* A tree edge prolongs the gray path by a white vertex.
LEMMA TreeEdgeKeepsInv ==
  ASSUME Inv, NEW v \in Vertex, TreeEdge(v)
  PROVE  StackIsGrayPath' /\ TodoIsLeft' /\ ExaminedEdges' /\ Black' = Black
<1>0. /\ TypeOK /\ StackIsGrayPath /\ TodoIsLeft /\ ExaminedEdges
      /\ stack # << >> /\ v \in todo[Top] /\ color[v] = "white"
      /\ todo' = [todo EXCEPT ![Top] = @ \ {v}]
      /\ color' = [color EXCEPT ![v] = "gray"]
      /\ UNCHANGED <<graph, phase, hasCycle, result, pos, plan>>
  BY DEF Inv, TreeEdge, Examine
<1>1. Top \in Vertex /\ color[Top] = "gray" /\ Len(stack) \in Nat \ {0}
      /\ <<Top, v>> \in graph.edge /\ stack[Len(stack)] = Top
  BY <1>0, TopIsGray DEF Top
<1>2. /\ Len(stack') = Len(stack) + 1
      /\ \A i \in 1..Len(stack) : stack'[i] = stack[i]
      /\ stack'[Len(stack) + 1] = v
      /\ DOMAIN stack = 1..Len(stack) /\ DOMAIN stack' = 1..(Len(stack) + 1)
  BY <1>0, AppendProperties DEF TypeOK, TreeEdge
<1>3. v \notin Elements(stack)
  BY <1>0 DEF StackIsGrayPath, Gray
<1>4. StackIsGrayPath'
  <2>1. Distinct(stack')
    BY <1>0, <1>1, <1>2, <1>3 DEF StackIsGrayPath, Distinct, Elements
  <2>2. Elements(stack') = Elements(stack) \cup {v}
    BY <1>1, <1>2 DEF Elements
  <2>3. Gray' = Gray \cup {v}
    BY <1>0 DEF Gray, TypeOK
  <2>4. \A i \in 1..(Len(stack') - 1) : <<stack'[i], stack'[i + 1]>> \in graph'.edge
    <3> SUFFICES ASSUME NEW i \in 1..Len(stack)
                 PROVE  <<stack'[i], stack'[i + 1]>> \in graph.edge
      BY <1>0, <1>1, <1>2
    <3>1. CASE i = Len(stack)
      BY <1>1, <1>2, <3>1
    <3>2. CASE i < Len(stack)
      BY <1>0, <1>1, <1>2, <3>2 DEF StackIsGrayPath
    <3> QED BY <1>1, <3>1, <3>2
  <2> QED BY <1>0, <2>1, <2>2, <2>3, <2>4 DEF StackIsGrayPath
<1>5. TodoIsLeft'
  BY <1>0, <1>1 DEF TodoIsLeft, TypeOK
<1>6. ExaminedEdges'
  <2> SUFFICES ASSUME ~hasCycle, NEW x \in Vertex, NEW y \in Vertex,
                      <<x, y>> \in graph.edge, y \notin todo'[x]
               PROVE  \/ color'[y] = "black"
                      \/ \E k \in 1..Len(stack) : stack'[k] = x /\ stack'[k + 1] = y
    BY <1>0, <1>1, <1>2 DEF ExaminedEdges
  <2>1. CASE y \in todo[x]
    <3>1. x = Top /\ y = v
      BY <1>0, <1>1, <2>1 DEF TypeOK
    <3>2. stack'[Len(stack)] = x /\ stack'[Len(stack) + 1] = y
      BY <1>1, <1>2, <3>1
    <3> QED BY <1>1, <3>2
  <2>2. CASE color[y] = "black"
    BY <1>0, <2>2 DEF TypeOK
  <2>3. CASE y \notin todo[x] /\ color[y] # "black"
    <3>1. PICK k \in 1..(Len(stack) - 1) : stack[k] = x /\ stack[k + 1] = y
      BY <1>0, <2>3 DEF ExaminedEdges
    <3>2. k \in 1..Len(stack) /\ stack'[k] = x /\ stack'[k + 1] = y
      BY <1>1, <1>2, <3>1
    <3> QED BY <3>2
  <2> QED BY <2>1, <2>2, <2>3
<1>7. Black' = Black
  BY <1>0 DEF Black, TypeOK
<1> QED BY <1>4, <1>5, <1>6, <1>7
\* A step of the walk that finishes no vertex and finds no cycle.
LEMMA RestIsKept ==
  ASSUME Inv, Black' = Black, UNCHANGED <<graph, phase, hasCycle, result, pos, plan>>
  PROVE  VerdictSoFar' /\ ResultIsSorted' /\ PlanFollowsResult' /\ PhaseFacts'
<1>1. VerdictSoFar'
  BY DEF Inv, VerdictSoFar
<1>2. ResultIsSorted'
  BY DEF Inv, ResultIsSorted
<1>3. PlanFollowsResult'
  BY DEF Inv, PlanFollowsResult
<1>4. PhaseFacts'
  BY DEF Inv, PhaseFacts
<1> QED BY <1>1, <1>2, <1>3, <1>4

\* An edge to a finished vertex changes nothing but what is left to examine.
LEMMA ForwardOrCrossEdgeKeepsInv ==
  ASSUME Inv, NEW v \in Vertex, ForwardOrCrossEdge(v)
  PROVE  StackIsGrayPath' /\ TodoIsLeft' /\ ExaminedEdges' /\ Black' = Black
<1>0. /\ TypeOK /\ StackIsGrayPath /\ TodoIsLeft /\ ExaminedEdges
      /\ stack # << >> /\ v \in todo[Top] /\ color[v] = "black"
      /\ todo' = [todo EXCEPT ![Top] = @ \ {v}]
      /\ UNCHANGED <<graph, phase, color, stack, hasCycle, result, pos, plan>>
  BY DEF Inv, ForwardOrCrossEdge, Examine
<1>1. Top \in Vertex /\ color[Top] = "gray"
  BY <1>0, TopIsGray
<1>2. StackIsGrayPath'
  BY <1>0 DEF StackIsGrayPath, Gray
<1>3. TodoIsLeft'
  BY <1>0, <1>1 DEF TodoIsLeft, TypeOK
<1>4. \A x, y \in Vertex : y \notin todo'[x] => y \notin todo[x] \/ y = v
  BY <1>0, <1>1 DEF TypeOK
<1>5. ExaminedEdges'
  BY <1>0, <1>4 DEF ExaminedEdges
<1> QED BY <1>0, <1>2, <1>3, <1>5 DEF Black

\* A back edge closes a cycle, so the first walk may note one and the second
\* never meets one.
LEMMA BackEdgeKeepsInv ==
  ASSUME Inv, NEW v \in Vertex, BackEdge(v)
  PROVE  Inv'
<1>0. /\ TypeOK /\ StackIsGrayPath /\ TodoIsLeft /\ PhaseFacts
      /\ phase \in Walking
      /\ stack # << >> /\ v \in todo[Top] /\ color[v] = "gray"
      /\ todo' = [todo EXCEPT ![Top] = @ \ {v}]
      /\ UNCHANGED <<graph, color, stack, result, pos, plan>>
  BY DEF Inv, BackEdge, Examine
<1>1. Top \in Vertex /\ color[Top] = "gray" /\ <<Top, v>> \in graph.edge
  BY <1>0, TopIsGray
<1>2. Cyclic(Vertex, graph.edge)
  BY <1>0, <1>1, BackEdgeClosesCycle
<1>3. phase = "detect"
  BY <1>0, <1>2 DEF PhaseFacts, Walking
<1>4. hasCycle' = TRUE /\ phase' = phase
  BY <1>3 DEF BackEdge
<1>5. TypeOK'
  BY NextType DEF Inv, Next
<1>6. StackIsGrayPath'
  BY <1>0 DEF StackIsGrayPath, Gray
<1>7. TodoIsLeft'
  BY <1>0, <1>1 DEF TodoIsLeft, TypeOK
<1>8. ExaminedEdges'
  BY <1>4 DEF ExaminedEdges
<1>9. VerdictSoFar'
  BY <1>0, <1>2, <1>4 DEF VerdictSoFar
<1>10. ResultIsSorted'
  BY <1>0, <1>3, <1>4 DEF Inv, ResultIsSorted
<1>11. PlanFollowsResult'
  BY <1>0, <1>4 DEF Inv, PlanFollowsResult
<1>12. PhaseFacts'
  BY <1>3, <1>4 DEF PhaseFacts
<1> QED BY <1>5, <1>6, <1>7, <1>8, <1>9, <1>10, <1>11, <1>12 DEF Inv

\* A vertex is finished when all its successors are: no set of finished
\* vertices becomes endless, and the front of the list is its place.
LEMMA FinishVertexKeepsInv ==
  ASSUME Inv, FinishVertex
  PROVE  Inv'
<1>0. /\ TypeOK /\ StackIsGrayPath /\ TodoIsLeft /\ ExaminedEdges /\ VerdictSoFar
      /\ ResultIsSorted /\ PlanFollowsResult /\ PhaseFacts
      /\ phase \in Walking /\ stack # << >> /\ todo[Top] = {}
      /\ color' = [color EXCEPT ![Top] = "black"]
      /\ result' = IF phase = "sort" THEN <<Top>> \o result ELSE result
      /\ UNCHANGED <<graph, phase, todo, hasCycle, pos, plan>>
  BY DEF Inv, FinishVertex
<1>1. Top \in Vertex /\ color[Top] = "gray" /\ Len(stack) \in Nat \ {0}
      /\ stack[Len(stack)] = Top
  BY <1>0, TopIsGray DEF Top
<1>2. /\ Len(stack') = Len(stack) - 1
      /\ \A i \in 1..(Len(stack) - 1) : stack'[i] = stack[i]
      /\ stack' \in Seq(Vertex)
      /\ DOMAIN stack = 1..Len(stack) /\ DOMAIN stack' = 1..(Len(stack) - 1)
  BY <1>0, PopProperties DEF TypeOK, FinishVertex
<1>3. TypeOK'
  BY NextType DEF Inv, Next
<1>4. Black' = Black \cup {Top} /\ Gray' = Gray \ {Top}
  BY <1>0, <1>1 DEF Black, Gray, TypeOK
<1>5. StackIsGrayPath'
  <2>1. Distinct(stack')
    BY <1>0, <1>1, <1>2 DEF StackIsGrayPath, Distinct
  <2>2. Elements(stack') = Elements(stack) \ {Top}
    <3>1. \A i \in 1..(Len(stack) - 1) : stack[i] # Top
      BY <1>0, <1>1, <1>2 DEF StackIsGrayPath, Distinct
    <3>2. \A i \in 1..Len(stack) : i \in 1..(Len(stack) - 1) \/ i = Len(stack)
      BY <1>1
    <3> QED BY <1>1, <1>2, <3>1, <3>2 DEF Elements
  <2>3. \A i \in 1..(Len(stack') - 1) : <<stack'[i], stack'[i + 1]>> \in graph'.edge
    BY <1>0, <1>1, <1>2 DEF StackIsGrayPath
  <2> QED BY <1>0, <1>4, <2>1, <2>2, <2>3 DEF StackIsGrayPath
<1>6. TodoIsLeft'
  BY <1>0, <1>1 DEF TodoIsLeft, TypeOK
\* What the walk has examined of an unfinished vertex, or the vertex it finishes.
<1>7. ExaminedEdges'
  <2> SUFFICES ASSUME ~hasCycle, NEW x \in Vertex, NEW y \in Vertex,
                      <<x, y>> \in graph.edge, y \notin todo[x]
               PROVE  \/ color'[y] = "black"
                      \/ \E k \in 1..(Len(stack) - 2) : stack'[k] = x /\ stack'[k + 1] = y
    BY <1>0, <1>1, <1>2 DEF ExaminedEdges
  <2>1. CASE color[y] = "black" \/ y = Top
    BY <1>0, <1>1, <2>1 DEF TypeOK
  <2>2. CASE color[y] # "black" /\ y # Top
    <3>1. PICK k \in 1..(Len(stack) - 1) : stack[k] = x /\ stack[k + 1] = y
      BY <1>0, <2>2 DEF ExaminedEdges
    <3>2. k \in 1..(Len(stack) - 2)
      BY <1>1, <2>2, <3>1
    <3> QED BY <1>1, <1>2, <3>1, <3>2
  <2> QED BY <2>1, <2>2
\* Every successor of the vertex is finished.
<1>8. ~hasCycle => \A y \in Vertex : <<Top, y>> \in graph.edge => y \in Black
  <2> SUFFICES ASSUME ~hasCycle, NEW y \in Vertex, <<Top, y>> \in graph.edge,
                      color[y] # "black"
               PROVE  FALSE
    BY DEF Black
  <2>1. PICK k \in 1..(Len(stack) - 1) : stack[k] = Top /\ stack[k + 1] = y
    BY <1>0, <1>1 DEF ExaminedEdges
  <2>2. k \in DOMAIN stack /\ Len(stack) \in DOMAIN stack
    BY <1>1, <1>2, <2>1
  <2>3. k = Len(stack)
    BY <1>0, <1>1, <2>1, <2>2 DEF StackIsGrayPath, Distinct
  <2> QED BY <1>1, <2>1, <2>3
\* And so is every successor of a finished vertex.
<1>9. ~hasCycle => \A x \in Black : \A y \in Vertex :
                     <<x, y>> \in graph.edge => y # Top
  <2> SUFFICES ASSUME ~hasCycle, NEW x \in Black, <<x, Top>> \in graph.edge
               PROVE  FALSE
    BY <1>1
  <2>1. x \in Vertex /\ todo[x] = {}
    BY <1>0 DEF Black, TodoIsLeft
  <2>2. PICK k \in 1..(Len(stack) - 1) : stack[k] = x
    BY <1>0, <1>1, <2>1 DEF ExaminedEdges
  <2>3. k \in DOMAIN stack
    BY <1>1, <1>2, <2>2
  <2>4. x \in Gray
    BY <1>0, <2>2, <2>3 DEF StackIsGrayPath, Elements
  <2> QED BY <2>4 DEF Black, Gray
<1>10. VerdictSoFar'
  <2>1. CASE hasCycle
    BY <1>0, <2>1 DEF VerdictSoFar
  <2>2. CASE ~hasCycle
    <3> SUFFICES ASSUME NEW S \in SUBSET (Black \cup {Top}), S # {}
                 PROVE  ~Endless(graph.edge, S)
      BY <1>0, <1>4, <2>2 DEF VerdictSoFar
    <3>1. Top \notin Black
      BY <1>1 DEF Black
    <3>2. CASE Top \notin S
      BY <1>0, <2>2, <3>2 DEF VerdictSoFar
    <3>3. CASE S = {Top}
      BY <1>1, <1>8, <2>2, <3>1, <3>3 DEF Endless
    <3>4. CASE Top \in S /\ S # {Top}
      <4>1. S \ {Top} \in SUBSET Black /\ S \ {Top} # {}
        BY <3>4
      <4>2. PICK x \in S \ {Top} : \A y \in S \ {Top} : <<x, y>> \notin graph.edge
        BY <1>0, <2>2, <4>1 DEF VerdictSoFar, Endless
      <4>3. <<x, Top>> \notin graph.edge
        BY <1>1, <1>9, <2>2, <4>1, <4>2
      <4> QED BY <4>2, <4>3 DEF Endless
    <3> QED BY <3>2, <3>3, <3>4
  <2> QED BY <2>1, <2>2
<1>11. ResultIsSorted'
  <2>1. CASE phase # "sort"
    BY <1>0, <2>1 DEF ResultIsSorted, Walking
  <2>2. CASE phase = "sort"
    <3>1. /\ Len(result') = Len(result) + 1
          /\ result'[1] = Top
          /\ \A i \in 1..Len(result) : result'[i + 1] = result[i]
          /\ Len(result) \in Nat
          /\ DOMAIN result = 1..Len(result) /\ DOMAIN result' = 1..(Len(result) + 1)
      BY <1>0, <1>1, <1>3, <2>2, PushFrontProperties DEF TypeOK
    <3>2. \A i \in DOMAIN result' : i = 1 \/ (i - 1 \in 1..Len(result) /\ result'[i] = result[i - 1])
      BY <3>1
    <3>3. ~hasCycle /\ Elements(result) = Black
      BY <1>0, <2>2 DEF PhaseFacts, ResultIsSorted
    <3>4. \A i \in 1..Len(result) : result[i] \in Black
      BY <3>1, <3>3 DEF Elements
    <3>5. Top \notin Black
      BY <1>1 DEF Black
    <3>6. Distinct(result')
      BY <1>0, <3>1, <3>2, <3>4, <3>5 DEF ResultIsSorted, Distinct
    <3>7. Elements(result') = Black'
      <4>1. Elements(result') = {Top} \cup Elements(result)
        BY <3>1, <3>2 DEF Elements
      <4> QED BY <1>4, <3>3, <4>1
    <3>8. ASSUME NEW i \in DOMAIN result', NEW j \in DOMAIN result',
                 <<result'[i], result'[j]>> \in graph.edge
          PROVE  i < j
      <4>1. CASE j = 1
        <5>1. CASE i = 1
          BY <1>1, <1>8, <3>1, <3>3, <3>5, <3>8, <4>1, <5>1
        <5>2. CASE i # 1
          BY <1>1, <1>9, <3>1, <3>2, <3>3, <3>4, <3>8, <4>1, <5>2
        <5> QED BY <5>1, <5>2
      <4>2. CASE j # 1 /\ i = 1
        BY <3>1, <4>2
      <4>3. CASE j # 1 /\ i # 1
        <5>1. i - 1 < j - 1
          BY <1>0, <3>1, <3>2, <3>8, <4>3 DEF ResultIsSorted
        <5> QED BY <3>1, <5>1
      <4> QED BY <4>1, <4>2, <4>3
    <3> QED BY <1>0, <2>2, <3>6, <3>7, <3>8 DEF ResultIsSorted
  <2> QED BY <2>1, <2>2
<1>12. PlanFollowsResult'
  BY <1>0, <1>3 DEF PlanFollowsResult, Walking, TypeOK
<1>13. PhaseFacts'
  BY <1>0 DEF PhaseFacts
<1> QED BY <1>3, <1>5, <1>6, <1>7, <1>10, <1>11, <1>12, <1>13 DEF Inv

\* When every vertex is finished the verdict is about the whole graph.
LEMMA EndDetectionKeepsInv ==
  ASSUME Inv, EndDetection
  PROVE  Inv'
<1>0. /\ TypeOK /\ StackIsGrayPath /\ TodoIsLeft /\ ExaminedEdges /\ VerdictSoFar
      /\ ResultIsSorted /\ PlanFollowsResult /\ PhaseFacts
      /\ phase = "detect" /\ stack = << >>
      /\ UNCHANGED <<graph, stack, hasCycle, result, pos, plan>>
  BY DEF Inv, EndDetection, WalkIsOver, walk
<1>1. TypeOK'
  BY NextType DEF Inv, Next
<1>2. Black = Vertex
  BY DEF EndDetection, WalkIsOver, Black
<1>3. result = << >> /\ pos = 1
  BY <1>0 DEF ResultIsSorted, PlanFollowsResult
<1>4. CASE hasCycle
  <2>1. phase' = "cycle" /\ UNCHANGED <<color, todo>>
    BY <1>4 DEF EndDetection, walk
  <2>2. StackIsGrayPath' /\ TodoIsLeft' /\ ExaminedEdges' /\ VerdictSoFar'
    BY <1>0, <2>1 DEF StackIsGrayPath, TodoIsLeft, ExaminedEdges, VerdictSoFar, Gray, Black
  <2>3. ResultIsSorted'
    BY <1>0, <1>3, <2>1 DEF ResultIsSorted
  <2>4. PlanFollowsResult'
    BY <1>0, <2>1 DEF PlanFollowsResult
  <2>5. PhaseFacts'
    BY <1>0, <1>4, <2>1 DEF PhaseFacts
  <2> QED BY <1>1, <2>2, <2>3, <2>4, <2>5 DEF Inv
<1>5. CASE ~hasCycle
  <2>1. phase' = "sort" /\ color' = FreshColors /\ todo' = AllEdges
    BY <1>5 DEF EndDetection
  <2>2. Gray' = {} /\ Black' = {}
    BY <2>1 DEF Gray, Black, FreshColors
  <2>3. StackIsGrayPath'
    BY <1>0, <2>2 DEF StackIsGrayPath, Distinct, Elements
  <2>4. TodoIsLeft'
    BY <1>0, <2>1 DEF TodoIsLeft, FreshColors, AllEdges
  <2>5. ExaminedEdges'
    BY <1>0, <2>1 DEF ExaminedEdges, AllEdges, Successors
  <2>6. VerdictSoFar'
    BY <1>0, <1>5, <2>2 DEF VerdictSoFar
  <2>7. ~Cyclic(Vertex, graph.edge)
    BY <1>0, <1>2, <1>5 DEF VerdictSoFar, Cyclic
  <2>8. ResultIsSorted'
    BY <1>0, <1>3, <2>1, <2>2 DEF ResultIsSorted, Elements
  <2>9. PlanFollowsResult'
    BY <1>0, <2>1 DEF PlanFollowsResult
  <2>10. PhaseFacts'
    BY <1>0, <1>5, <2>1, <2>7 DEF PhaseFacts
  <2> QED BY <1>1, <2>3, <2>4, <2>5, <2>6, <2>8, <2>9, <2>10 DEF Inv
<1> QED BY <1>4, <1>5

\* One turn of the loop keeps the plan what the loop has kept so far.
LEMMA EmitVertexKeepsPlan ==
  ASSUME Inv, EmitVertex
  PROVE  PlanFollowsResult'
<1>0. /\ TypeOK /\ PlanFollowsResult
      /\ phase = "emit" /\ pos <= Len(result) /\ pos' = pos + 1
      /\ plan' = IF result[pos] \in graph.query THEN Append(plan, result[pos]) ELSE plan
      /\ UNCHANGED <<graph, phase, result>>
  BY DEF Inv, EmitVertex
<1>1. Len(result) \in Nat /\ Len(plan) \in Nat /\ pos \in 1..Len(result)
      /\ DOMAIN plan = 1..Len(plan)
  BY <1>0 DEF TypeOK
\* The conjuncts of the goal, with pos for pos' - 1.
<1> DEFINE Kept(p) ==
      /\ \A i \in DOMAIN p :
           p[i] \in graph.query /\ \E a \in 1..pos : result[a] = p[i]
      /\ \A i, j \in DOMAIN p : i < j =>
           \E a, b \in 1..pos : a < b /\ result[a] = p[i] /\ result[b] = p[j]
      /\ \A a \in 1..pos :
           result[a] \in graph.query => \E i \in DOMAIN p : p[i] = result[a]
<1>4. ASSUME Kept(plan') PROVE PlanFollowsResult'
  <2>1. 1..(pos' - 1) = 1..pos /\ pos' \in 1..(Len(result) + 1)
    BY <1>0, <1>1
  <2>2. phase' = "emit" /\ UNCHANGED <<graph, result>>
    BY <1>0
  <2>3. \A i \in DOMAIN plan' :
          plan'[i] \in graph'.query /\ \E a \in 1..(pos' - 1) : result'[a] = plan'[i]
    BY <1>4, <2>1, <2>2
  <2>4. \A i, j \in DOMAIN plan' : i < j =>
          \E a, b \in 1..(pos' - 1) :
            a < b /\ result'[a] = plan'[i] /\ result'[b] = plan'[j]
    <3>1. TAKE i, j \in DOMAIN plan'
    <3>2. HAVE i < j
    <3>3. PICK a, b \in 1..pos : a < b /\ result[a] = plan'[i] /\ result[b] = plan'[j]
      BY <1>4, <3>2
    <3>4. a \in 1..(pos' - 1) /\ b \in 1..(pos' - 1)
      BY <2>1
    <3> QED BY <2>2, <3>3, <3>4
  <2>5. \A a \in 1..(pos' - 1) : result'[a] \in graph'.query =>
          \E i \in DOMAIN plan' : plan'[i] = result'[a]
    BY <1>4, <2>1, <2>2
  <2> QED BY <2>1, <2>2, <2>3, <2>4, <2>5 DEF PlanFollowsResult
<1>2. CASE result[pos] \notin graph.query
  <2>1. plan' = plan
    BY <1>0, <1>2
  <2>2. \A i \in DOMAIN plan :
          plan[i] \in graph.query /\ \E a \in 1..pos : result[a] = plan[i]
    BY <1>0, <1>1 DEF PlanFollowsResult
  <2>3. \A i, j \in DOMAIN plan : i < j =>
          \E a, b \in 1..pos : a < b /\ result[a] = plan[i] /\ result[b] = plan[j]
    BY <1>0, <1>1 DEF PlanFollowsResult
  <2>4. \A a \in 1..pos : result[a] \in graph.query => a \in 1..(pos - 1)
    BY <1>1, <1>2
  <2>5. \A a \in 1..pos :
          result[a] \in graph.query => \E i \in DOMAIN plan : plan[i] = result[a]
    BY <1>0, <2>4 DEF PlanFollowsResult
  <2> QED BY <1>4, <2>1, <2>2, <2>3, <2>5
<1>3. CASE result[pos] \in graph.query
  <2>1. /\ Len(plan') = Len(plan) + 1
        /\ \A i \in 1..Len(plan) : plan'[i] = plan[i]
        /\ plan'[Len(plan) + 1] = result[pos]
        /\ DOMAIN plan' = 1..(Len(plan) + 1)
    <3>1. plan' = Append(plan, result[pos]) /\ result[pos] \in Vertex
      BY <1>0, <1>1, <1>3, ElementOfSeq DEF TypeOK
    <3> QED BY <1>0, <1>1, <3>1, AppendProperties DEF TypeOK
  <2>2. \A i \in DOMAIN plan' : i \in DOMAIN plan \/ i = Len(plan) + 1
    BY <1>1, <2>1
  <2>3. \A i \in DOMAIN plan' :
          plan'[i] \in graph.query /\ \E a \in 1..pos : result[a] = plan'[i]
    BY <1>0, <1>1, <1>3, <2>1, <2>2 DEF PlanFollowsResult
  <2>4. ASSUME NEW i \in DOMAIN plan', NEW j \in DOMAIN plan', i < j
        PROVE  \E a, b \in 1..pos : a < b /\ result[a] = plan'[i] /\ result[b] = plan'[j]
    <3>1. i \in DOMAIN plan
      BY <1>1, <2>1, <2>4
    <3>2. CASE j \in DOMAIN plan
      <4>1. PICK a, b \in 1..(pos - 1) : a < b /\ result[a] = plan[i] /\ result[b] = plan[j]
        BY <1>0, <2>4, <3>1, <3>2 DEF PlanFollowsResult
      <4>2. a \in 1..pos /\ b \in 1..pos
        BY <1>1
      <4>3. plan'[i] = plan[i] /\ plan'[j] = plan[j]
        BY <1>1, <2>1, <3>1, <3>2
      <4> QED BY <4>1, <4>2, <4>3
    <3>3. CASE j = Len(plan) + 1
      <4>1. PICK a \in 1..(pos - 1) : result[a] = plan[i]
        BY <1>0, <3>1 DEF PlanFollowsResult
      <4>2. a \in 1..pos /\ pos \in 1..pos /\ a < pos
        BY <1>1
      <4> QED BY <1>1, <2>1, <3>1, <3>3, <4>1, <4>2
    <3> QED BY <2>2, <3>2, <3>3
  <2>5. ASSUME NEW a \in 1..pos, result[a] \in graph.query
        PROVE  \E i \in DOMAIN plan' : plan'[i] = result[a]
    <3>1. CASE a = pos
      BY <1>1, <2>1, <3>1
    <3>2. CASE a \in 1..(pos - 1)
      BY <1>0, <1>1, <2>1, <2>5, <3>2 DEF PlanFollowsResult
    <3> QED BY <1>1, <3>1, <3>2
  <2> QED BY <1>4, <2>3, <2>4, <2>5
<1> QED BY <1>2, <1>3

\* Every step keeps the invariant: one case for each action.
LEMMA NextInv == Inv /\ [Next]_vars => Inv'
<1> SUFFICES ASSUME Inv, [Next]_vars PROVE Inv'
  OBVIOUS
<1>0. TypeOK'
  BY NextType DEF Inv
<1>1. ASSUME UNCHANGED <<graph, walk, hasCycle, plan>>
      PROVE  StackIsGrayPath' /\ TodoIsLeft' /\ ExaminedEdges' /\ VerdictSoFar'
  BY <1>1 DEF Inv, walk, StackIsGrayPath, TodoIsLeft, ExaminedEdges, VerdictSoFar, Gray, Black
<1>2. CASE ReadGraph \/ ReadFails
  <2>1. UNCHANGED <<graph, walk, hasCycle, result, pos, plan>>
        /\ phase = "read" /\ phase' \in {"detect", "unread"}
    BY <1>2 DEF ReadGraph, ReadFails
  <2>2. ResultIsSorted' /\ PlanFollowsResult' /\ PhaseFacts'
    BY <2>1 DEF Inv, ResultIsSorted, PlanFollowsResult, PhaseFacts
  <2> QED BY <1>0, <1>1, <2>1, <2>2 DEF Inv
<1>3. ASSUME NEW v \in Vertex, StartVertex(v) PROVE Inv'
  BY <1>0, <1>3, StartVertexKeepsInv, RestIsKept DEF StartVertex, Inv
<1>4. ASSUME NEW v \in Vertex, TreeEdge(v) PROVE Inv'
  BY <1>0, <1>4, TreeEdgeKeepsInv, RestIsKept DEF TreeEdge, Inv
<1>5. ASSUME NEW v \in Vertex, BackEdge(v) PROVE Inv'
  BY <1>5, BackEdgeKeepsInv
<1>6. ASSUME NEW v \in Vertex, ForwardOrCrossEdge(v) PROVE Inv'
  BY <1>0, <1>6, ForwardOrCrossEdgeKeepsInv, RestIsKept DEF ForwardOrCrossEdge, Inv
<1>7. CASE FinishVertex
  BY <1>7, FinishVertexKeepsInv
<1>8. CASE EndDetection
  BY <1>8, EndDetectionKeepsInv
<1>9. CASE EndSort
  <2>1. UNCHANGED <<graph, walk, hasCycle, result, pos, plan>>
        /\ phase = "sort" /\ phase' = "emit"
    BY <1>9 DEF EndSort
  <2>2. Black = Vertex
    BY <1>9 DEF EndSort, WalkIsOver, Black
  <2>3. ResultIsSorted'
    BY <2>1, <2>2 DEF Inv, ResultIsSorted
  <2>4. PlanFollowsResult' /\ PhaseFacts'
    BY <2>1 DEF Inv, PlanFollowsResult, PhaseFacts
  <2> QED BY <1>0, <1>1, <2>1, <2>3, <2>4 DEF Inv
<1>10. CASE EmitVertex
  <2>1. /\ UNCHANGED <<graph, phase, color, stack, todo, hasCycle, result>>
        /\ phase = "emit"
    BY <1>10 DEF EmitVertex, walk
  <2>2. StackIsGrayPath' /\ TodoIsLeft' /\ ExaminedEdges' /\ VerdictSoFar'
    BY <2>1 DEF Inv, StackIsGrayPath, TodoIsLeft, ExaminedEdges, VerdictSoFar, Gray, Black
  <2>3. ResultIsSorted' /\ PhaseFacts'
    BY <2>1 DEF Inv, ResultIsSorted, PhaseFacts
  <2> QED BY <1>0, <1>10, <2>2, <2>3, EmitVertexKeepsPlan DEF Inv
<1>11. CASE EndEmit
  <2>1. UNCHANGED <<graph, walk, hasCycle, result, pos, plan>>
        /\ phase = "emit" /\ phase' = "done" /\ pos > Len(result)
    BY <1>11 DEF EndEmit
  <2>2. ResultIsSorted' /\ PhaseFacts'
    BY <2>1 DEF Inv, ResultIsSorted, PhaseFacts
  <2>3. PlanFollowsResult'
    BY <2>1 DEF Inv, PlanFollowsResult, TypeOK
  <2> QED BY <1>0, <1>1, <2>1, <2>2, <2>3 DEF Inv
<1>12. CASE UNCHANGED vars
  BY <1>0, <1>12 DEF vars, walk, Inv, StackIsGrayPath, TodoIsLeft, ExaminedEdges,
     VerdictSoFar, Gray, Black, ResultIsSorted, PlanFollowsResult, PhaseFacts
<1> QED BY <1>2, <1>3, <1>4, <1>5, <1>6, <1>7, <1>8, <1>9, <1>10, <1>11, <1>12
        DEF Next, Terminated
\* Inv holds in every state that GetExecutionPlan can reach.
THEOREM Invariance == Spec => []Inv
BY InitInv, NextInv, PTL DEF Spec

-----------------------------------------------------------------------------
(* What follows from it.                                                   *)

\* The first walk exits over a cycle only if there is one, and lets the sort
\* begin only if there is none, whatever the graph and the order in which
\* its vertices and edges stand in the file.
THEOREM VerdictIsRight == Spec => []CycleVerdict
<1>1. Inv => CycleVerdict
  <2> SUFFICES ASSUME Inv PROVE CycleVerdict
    OBVIOUS
  <2>1. phase = "cycle" => Cyclic(Vertex, graph.edge)
    BY DEF Inv, PhaseFacts, VerdictSoFar
  <2> QED BY <2>1 DEF CycleVerdict, Inv, PhaseFacts
<1> QED BY <1>1, Invariance, PTL

\* The exception of topological_sort is never thrown.
THEOREM SortNeverThrows == Spec => []NeverNotADag
<1>1. Inv => NeverNotADag
  BY DEF Inv, PhaseFacts, NeverNotADag
<1> QED BY <1>1, Invariance, PTL

\* In a sorted list, what a vertex reaches stands behind it: the set of
\* everything behind it is closed and holds its successors.
LEMMA ReachedIsBehind ==
  ASSUME NEW E, NEW r \in Seq(Vertex), Elements(r) = Vertex, E \subseteq Vertex \X Vertex,
         \A i, j \in DOMAIN r : <<r[i], r[j]>> \in E => i < j,
         Distinct(r),
         NEW a \in DOMAIN r, NEW b \in DOMAIN r, Reaches(Vertex, E, r[a], r[b])
  PROVE  a < b
<1>1. DOMAIN r \subseteq Nat
  OBVIOUS
<1> DEFINE S == {r[k] : k \in {l \in DOMAIN r : a < l}}
<1>2. S \in SUBSET Vertex
  BY ElementOfSeq
<1>3. Closed(E, S)
  <2> SUFFICES ASSUME NEW e \in E, e[1] \in S PROVE e[2] \in S
    BY DEF Closed
  <2>1. PICK k \in DOMAIN r : a < k /\ e[1] = r[k]
    OBVIOUS
  <2>2. PICK l \in DOMAIN r : e[2] = r[l]
    BY DEF Elements
  <2>3. e = <<r[k], r[l]>>
    BY <2>1, <2>2
  <2>4. k < l
    BY <2>3
  <2> QED BY <1>1, <2>1, <2>2, <2>4
<1>4. Successors(E, r[a]) \subseteq S
  <2> SUFFICES ASSUME NEW y \in Successors(E, r[a]) PROVE y \in S
    OBVIOUS
  <2>1. <<r[a], y>> \in E /\ y \in Vertex
    BY SuccessorsAre DEF Successors
  <2>2. PICK l \in DOMAIN r : y = r[l]
    BY <2>1 DEF Elements
  <2> QED BY <2>1, <2>2
<1>5. r[b] \in S
  BY <1>2, <1>3, <1>4 DEF Reaches
<1>6. PICK l \in DOMAIN r : a < l /\ r[b] = r[l]
  BY <1>5
<1> QED BY <1>6 DEF Distinct

\* The loop keeps the order of the sorted list.
LEMMA InvOrdersPlan == Inv => PlanIsTopological
<1> SUFFICES ASSUME Inv, NEW i \in DOMAIN plan, NEW j \in DOMAIN plan,
                    Reaches(Vertex, graph.edge, plan[i], plan[j])
             PROVE  i < j
  BY DEF PlanIsTopological, RespectsOrder
<1>0. TypeOK /\ ResultIsSorted /\ PlanFollowsResult
  BY DEF Inv
<1>1. pos - 1 \in Nat /\ Len(result) \in Nat /\ pos - 1 <= Len(result)
      /\ DOMAIN result = 1..Len(result) /\ DOMAIN plan = 1..Len(plan) /\ Len(plan) \in Nat
  BY <1>0 DEF TypeOK, PlanFollowsResult
<1>2. PICK a \in 1..(pos - 1), b \in 1..(pos - 1) :
        /\ result[a] = plan[i] /\ result[b] = plan[j]
        /\ j < i => b < a
  <2>1. CASE j < i
    BY <1>0, <2>1 DEF PlanFollowsResult
  <2>2. CASE ~(j < i)
    BY <1>0, <2>2 DEF PlanFollowsResult
  <2> QED BY <2>1, <2>2
<1>3. phase \in {"emit", "done"}
  BY <1>0, <1>1, <1>2 DEF PlanFollowsResult
<1>4. Elements(result) = Vertex
  BY <1>0, <1>3 DEF ResultIsSorted
<1>5. a \in DOMAIN result /\ b \in DOMAIN result
  BY <1>1, <1>2
<1>6. a < b
  BY <1>0, <1>2, <1>4, <1>5, GraphType, ReachedIsBehind DEF TypeOK, ResultIsSorted
<1>7. i # j
  BY <1>0, <1>2, <1>5, <1>6 DEF ResultIsSorted, Distinct
<1> QED BY <1>1, <1>2, <1>6, <1>7

\* Each query of the plan stands behind all that it depends on, through
\* however many vertices that are no queries.
THEOREM PlanRespectsDependencies == Spec => []PlanIsTopological
BY InvOrdersPlan, Invariance, PTL

\* The loop has kept each query of the sorted list.
LEMMA InvCompletesPlan == Inv => PlanIsComplete
<1> SUFFICES ASSUME Inv, phase = "done"
             PROVE  Elements(plan) = graph.query /\ Distinct(plan)
  BY DEF PlanIsComplete
<1>0. TypeOK /\ ResultIsSorted /\ PlanFollowsResult
  BY DEF Inv
<1>1. pos - 1 = Len(result) /\ Len(result) \in Nat
      /\ DOMAIN result = 1..Len(result) /\ DOMAIN plan = 1..Len(plan) /\ Len(plan) \in Nat
  BY <1>0 DEF TypeOK, PlanFollowsResult
<1>2. 1..(pos - 1) = DOMAIN result
  BY <1>1
<1>3. Elements(result) = Vertex
  BY <1>0 DEF ResultIsSorted
<1>4. Elements(plan) = graph.query
  <2>1. graph.query \subseteq Vertex
    BY <1>0, GraphType DEF TypeOK
  <2>2. \A q \in graph.query : \E a \in DOMAIN result : result[a] = q
    BY <1>3, <2>1 DEF Elements
  <2>3. \A q \in graph.query : q \in Elements(plan)
    BY <1>0, <1>2, <2>2 DEF PlanFollowsResult, Elements
  <2>4. \A q \in Elements(plan) : q \in graph.query
    BY <1>0 DEF PlanFollowsResult, Elements
  <2> QED BY <2>3, <2>4
<1>5. ASSUME NEW i \in DOMAIN plan, NEW j \in DOMAIN plan, i < j
      PROVE  plan[i] # plan[j]
  <2>1. PICK a, b \in DOMAIN result : a < b /\ result[a] = plan[i] /\ result[b] = plan[j]
    BY <1>0, <1>2, <1>5 DEF PlanFollowsResult
  <2> QED BY <1>0, <1>1, <2>1 DEF ResultIsSorted, Distinct
<1>6. Distinct(plan)
  BY <1>1, <1>5 DEF Distinct
<1> QED BY <1>4, <1>6

\* The plan that is handed over holds every query of the graph once.
THEOREM PlanLosesNothing == Spec => []PlanIsComplete
BY InvCompletesPlan, Invariance, PTL
-----------------------------------------------------------------------------
(* GetExecutionPlan implements PlanSpec.                                   *)

\* The whole function, two walks and a loop, amounts to one decision about
\* the graph: unreadable, cyclic, or a complete topological order of its
\* queries.
THEOREM KeepsPromise == Spec => Promise!Spec
<1> USE DEF Final, Promise!vars
\* The instance has its own copies of the definitions of DagOrder.
<1>0. /\ Promise!Cyclic(Vertex, graph.edge) <=> Cyclic(Vertex, graph.edge)
      /\ Promise!Elements(plan) = Elements(plan)
      /\ Promise!Distinct(plan) <=> Distinct(plan)
      /\ Promise!RespectsOrder(Vertex, graph.edge, plan)
           <=> RespectsOrder(Vertex, graph.edge, plan)
  BY DEF Promise!Cyclic, Cyclic, Promise!Endless, Endless, Promise!Elements, Elements,
         Promise!Distinct, Distinct, Promise!RespectsOrder, RespectsOrder,
         Promise!Reaches, Reaches, Promise!Closed, Closed,
         Promise!Successors, Successors
<1>1. Init => Promise!Init
  BY DEF Init, Promise!Init
<1>2. ASSUME Inv, Inv', PlanIsComplete', [Next]_vars PROVE [Promise!Next]_(Promise!vars)
  <2>1. ASSUME phase \notin Final, phase' \notin Final, UNCHANGED graph
        PROVE  UNCHANGED Promise!vars
    BY <2>1
  <2>2. phase' # "not_a_dag"
    BY <1>2 DEF Inv, PhaseFacts
  <2>3. CASE ReadGraph
    BY <2>1, <2>3 DEF ReadGraph
  <2>4. CASE ReadFails
    BY <2>4 DEF ReadFails, Promise!Next, Promise!GiveUp
  <2>5. ASSUME NEW v \in Vertex,
               StartVertex(v) \/ TreeEdge(v) \/ BackEdge(v) \/ ForwardOrCrossEdge(v)
        PROVE  UNCHANGED Promise!vars
    <3>1. phase \in Walking /\ phase' = phase /\ UNCHANGED graph
      BY <2>2, <2>5 DEF StartVertex, TreeEdge, BackEdge, ForwardOrCrossEdge, Examine
    <3> QED BY <2>1, <3>1 DEF Walking
  <2>6. CASE FinishVertex
    BY <2>1, <2>6 DEF FinishVertex, Walking
  <2>7. CASE EndDetection
    <3>1. phase = "detect" /\ UNCHANGED graph
      BY <2>7 DEF EndDetection
    <3>2. CASE hasCycle
      <4>1. phase' = "cycle"
        BY <2>7, <3>2 DEF EndDetection
      <4>2. Cyclic(Vertex, graph.edge)
        BY <1>2, <3>2 DEF Inv, VerdictSoFar
      <4> QED BY <1>0, <3>1, <4>1, <4>2 DEF Promise!Next, Promise!Refuse
    <3>3. CASE ~hasCycle
      <4>1. phase' = "sort"
        BY <2>7, <3>3 DEF EndDetection
      <4> QED BY <2>1, <3>1, <4>1
    <3> QED BY <3>2, <3>3
  <2>8. CASE EndSort
    BY <2>1, <2>8 DEF EndSort
  <2>9. CASE EmitVertex
    BY <2>1, <2>9 DEF EmitVertex
  <2>10. CASE EndEmit
    <3>1. phase = "emit" /\ phase' = "done" /\ UNCHANGED <<graph, plan>>
      BY <2>10 DEF EndEmit
    <3>2. ~Cyclic(Vertex, graph.edge)
      BY <1>2, <3>1 DEF Inv, PhaseFacts
    <3>3. Elements(plan) = graph.query /\ Distinct(plan)
      BY <1>2, <3>1 DEF PlanIsComplete, Elements, Distinct
    <3>4. RespectsOrder(Vertex, graph.edge, plan)
      BY <1>2, InvOrdersPlan DEF PlanIsTopological
    <3>5. plan \in Seq(graph.query)
      <4>1. plan \in Seq(Vertex)
        BY <1>2 DEF Inv, TypeOK
      <4>2. \A i \in 1..Len(plan) : plan[i] \in graph.query
        BY <3>3, <4>1 DEF Elements
      <4> QED BY <4>1, <4>2, SeqDef
    <3>6. Promise!Orders(graph.query, plan)
      BY <1>0, <3>3, <3>4, <3>5 DEF Promise!Orders
    <3>7. Promise!Orders(graph.query, (IF phase = "done" THEN plan ELSE << >>)')
      BY <3>1, <3>6
    <3> QED BY <1>0, <3>1, <3>2, <3>7 DEF Promise!Next, Promise!Deliver
  <2>11. CASE UNCHANGED vars
    BY <2>11 DEF vars
  <2> QED BY <1>2, <2>3, <2>4, <2>5, <2>6, <2>7, <2>8, <2>9, <2>10, <2>11
          DEF Next, Terminated
<1> QED BY <1>1, <1>2, Invariance, PlanLosesNothing, PTL DEF Spec, Promise!Spec
===============================================================================
