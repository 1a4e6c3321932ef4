-------------------------- MODULE StructuralRecursion --------------------------
(***************************************************************************)
(* Functions that are defined by recursion over trees, such as those of    *)
(* the parser and the records of a table schema.  A node has a rank in     *)
(* Nat, and Body(n, f) is the value at node n in terms of the values that  *)
(* f has at nodes of smaller rank.  An INSTANCE names the nodes and Body.  *)
(***************************************************************************)
EXTENDS Naturals, WellFoundedInduction, TLAPS

CONSTANTS Nodes, Rank, Body(_, _)

Ranked == \A n \in Nodes : Rank[n] \in Nat

\* Body reads a function at nodes of smaller rank only.
Structural ==
  \A n \in Nodes : \A f, g :
    (\A m \in Nodes : Rank[m] < Rank[n] => f[m] = g[m]) => Body(n, f) = Body(n, g)

LEMMA LeastNumber ==
  ASSUME NEW T, T \subseteq Nat, T # {}
  PROVE  \E n \in T : \A m \in T : n <= m
<1> DEFINE R == OpToRel(<, Nat)
<1>1. IsWellFoundedOn(R, Nat)
  BY NatLessThanWellFounded
<1>2. \E n \in T : \A m \in T : ~ (<<m, n>> \in R)
  <2> HIDE DEF R
  <2> QED  BY <1>1, WFMin
<1>3. PICK n \in T : \A m \in T : ~ (<<m, n>> \in R)
  BY <1>2
<1>4. ASSUME NEW m \in T, m < n PROVE FALSE
  <2>1. <<m, n>> \in R
    BY <1>4 DEF OpToRel
  <2> QED  BY <1>3, <2>1
<1> QED  BY <1>4

\* A set of nodes that has a node whenever it has all of smaller rank.
LEMMA StructuralInduction ==
  ASSUME Ranked, NEW S,
         \A n \in Nodes : (\A m \in Nodes : Rank[m] < Rank[n] => m \in S) => n \in S
  PROVE  Nodes \subseteq S
<1> DEFINE T == {Rank[n] : n \in Nodes \ S}
<1>1. SUFFICES ASSUME T # {} PROVE FALSE
  OBVIOUS
<1>2. T \subseteq Nat
  BY DEF Ranked
<1>3. PICK r \in T : \A q \in T : r <= q
  BY <1>1, <1>2, LeastNumber
<1>4. PICK n \in Nodes \ S : Rank[n] = r
  BY <1>3
<1>5. \A m \in Nodes : Rank[m] < Rank[n] => m \in S
  <2>1. SUFFICES ASSUME NEW m \in Nodes, Rank[m] < Rank[n], m \notin S PROVE FALSE
    OBVIOUS
  <2>2. Rank[m] \in T
    BY <2>1
  <2>3. r <= Rank[m] /\ r \in Nat /\ Rank[m] \in Nat
    BY <1>2, <1>3, <2>2
  <2> QED  BY <1>4, <2>1, <2>3
<1> QED  BY <1>4, <1>5

-----------------------------------------------------------------------------
\* f is right for the nodes of rank less than r.
UpTo(r, f) == \A n \in Nodes : Rank[n] < r => f[n] = Body(n, f)

LEMMA UpToIsUnique ==
  ASSUME Ranked, Structural, NEW r \in Nat, NEW f, NEW g, UpTo(r, f), UpTo(r, g)
  PROVE  \A n \in Nodes : Rank[n] < r => f[n] = g[n]
<1> DEFINE S == {n \in Nodes : Rank[n] < r => f[n] = g[n]}
<1>1. SUFFICES Nodes \subseteq S
  OBVIOUS
<1>2. ASSUME NEW n \in Nodes, \A m \in Nodes : Rank[m] < Rank[n] => m \in S
      PROVE  n \in S
  <2>1. SUFFICES ASSUME Rank[n] < r PROVE f[n] = g[n]
    OBVIOUS
  <2>2. \A m \in Nodes : Rank[m] < Rank[n] => f[m] = g[m]
    BY <1>2, <2>1 DEF Ranked
  <2>3. Body(n, f) = Body(n, g)
    BY <2>2 DEF Structural
  <2> QED  BY <2>1, <2>3 DEF UpTo
<1> HIDE DEF S
<1> QED  BY <1>2, StructuralInduction

LEMMA UpToExists ==
  ASSUME Ranked, Structural
  PROVE  \A r \in Nat : \E f : UpTo(r, f)
<1> DEFINE T == {r \in Nat : ~ \E f : UpTo(r, f)}
<1>1. SUFFICES ASSUME T # {} PROVE FALSE
  OBVIOUS
<1>2. PICK r \in T : \A q \in T : r <= q
  BY <1>1, LeastNumber
<1>3. UpTo(0, << >>)
  BY DEF UpTo, Ranked
<1>4. r \in Nat /\ r # 0
  BY <1>2, <1>3
<1>5. PICK f : UpTo(r - 1, f)
  BY <1>2, <1>4
<1> DEFINE g == [n \in Nodes |-> Body(n, f)]
<1>6. UpTo(r, g)
  <2>1. SUFFICES ASSUME NEW n \in Nodes, Rank[n] < r PROVE Body(n, f) = Body(n, g)
    BY DEF UpTo
  <2>2. \A m \in Nodes : Rank[m] < Rank[n] => f[m] = g[m]
    BY <1>4, <1>5, <2>1 DEF UpTo, Ranked
  <2> HIDE DEF g
  <2> QED  BY <2>2 DEF Structural
<1> HIDE DEF g
<1> QED  BY <1>2, <1>6

\* There is a function that Body defines: a recursive function f[n \in Nodes] ==
\* Body(n, f), which TLA+ takes for CHOOSE f : f = [n \in Nodes |-> Body(n, f)],
\* is equal to what it is defined to be.
LEMMA RecursionExists ==
  ASSUME Ranked, Structural
  PROVE  \E f : f = [n \in Nodes |-> Body(n, f)]
<1> DEFINE G(r) == CHOOSE f : UpTo(r, f)
           f == [n \in Nodes |-> G(Rank[n] + 1)[n]]
<1>1. \A r \in Nat : UpTo(r, G(r))
  BY UpToExists
<1> HIDE DEF G
<1>2. \A n \in Nodes : f[n] = Body(n, f)
  <2>1. TAKE n \in Nodes
  <2>2. Rank[n] \in Nat /\ Rank[n] + 1 \in Nat
    BY DEF Ranked
  <2>3. f[n] = Body(n, G(Rank[n] + 1))
    BY <1>1, <2>2 DEF UpTo
  <2>4. ASSUME NEW m \in Nodes, Rank[m] < Rank[n]
        PROVE  G(Rank[n] + 1)[m] = f[m]
    <3>1. Rank[m] \in Nat /\ Rank[m] + 1 \in Nat /\ Rank[m] < Rank[m] + 1
      BY DEF Ranked
    <3>2. UpTo(Rank[m] + 1, G(Rank[n] + 1))
      BY <1>1, <2>2, <2>4, <3>1 DEF UpTo, Ranked
    <3>3. UpTo(Rank[m] + 1, G(Rank[m] + 1))
      BY <1>1, <3>1
    <3> QED  BY <3>1, <3>2, <3>3, UpToIsUnique
  <2>5. Body(n, G(Rank[n] + 1)) = Body(n, f)
    <3> HIDE DEF f
    <3> QED  BY <2>4 DEF Structural
  <2> QED  BY <2>3, <2>5
<1>3. f = [n \in Nodes |-> f[n]]
  OBVIOUS
<1> HIDE DEF f
<1> QED  BY <1>2, <1>3
===============================================================================
