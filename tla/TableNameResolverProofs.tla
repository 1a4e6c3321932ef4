------------------------ MODULE TableNameResolverProofs ------------------------
(***************************************************************************)
(* Proofs about TableNameResolver, for any scripts: GetTables finds the    *)
(* tables that the scoping rules of SqlScopes leave free.                  *)
(***************************************************************************)
EXTENDS SqlScopes, SequenceTheorems, TLAPS

Trees == QueryExpressions \cup TableExpressions

-----------------------------------------------------------------------------
(* The nodes, by their kinds.  Those below a node are less deep.           *)

LEMMA Elements ==
  ASSUME NEW S, NEW s \in Seq(S)
  PROVE  \A i \in DOMAIN s : s[i] \in S
OBVIOUS

LEMMA PushProperties ==
  ASSUME NEW S, NEW s \in Seq(S), NEW e \in S
  PROVE  /\ <<e>> \o s \in Seq(S)
         /\ <<e>> \o s # << >>
         /\ Head(<<e>> \o s) = e
         /\ Tail(<<e>> \o s) = s
<1>1. <<e>> \in Seq(S) /\ Len(<<e>>) = 1 /\ <<e>>[1] = e
  OBVIOUS
<1>2. /\ <<e>> \o s \in Seq(S) /\ Len(<<e>> \o s) = 1 + Len(s)
      /\ \A i \in 1 .. 1 + Len(s) : (<<e>> \o s)[i] = IF i <= 1 THEN <<e>>[i] ELSE s[i - 1]
  BY <1>1, ConcatProperties
<1>3. <<e>> \o s # << >>
  BY <1>2
<1>4. Head(<<e>> \o s) = e
  BY <1>1, <1>2
<1>5. Tail(<<e>> \o s) = s
  <2> DEFINE t == Tail(<<e>> \o s)
  <2>1. /\ t \in Seq(S) /\ Len(t) = Len(s)
        /\ \A i \in 1 .. Len(t) : t[i] = (<<e>> \o s)[i + 1]
    BY <1>2, <1>3, HeadTailProperties
  <2>2. \A i \in 1 .. Len(t) : t[i] = s[i]
    BY <1>2, <2>1
  <2> HIDE DEF t
  <2> QED  BY <2>1, <2>2, SeqEqual
<1> QED  BY <1>2, <1>3, <1>4, <1>5

LEMMA HeadThenTail ==
  ASSUME NEW S, NEW s \in Seq(S), s # << >>
  PROVE  <<Head(s)>> \o Tail(s) = s
<1> DEFINE t == <<Head(s)>> \o Tail(s)
<1>1. /\ Head(s) \in S /\ Head(s) = s[1] /\ Len(s) \in Nat
      /\ Tail(s) \in Seq(S) /\ Len(Tail(s)) = Len(s) - 1
      /\ \A i \in 1 .. Len(s) - 1 : Tail(s)[i] = s[i + 1]
  BY HeadTailProperties
<1>2. <<Head(s)>> \in Seq(S) /\ Len(<<Head(s)>>) = 1 /\ <<Head(s)>>[1] = s[1]
  BY <1>1
<1>3. /\ t \in Seq(S) /\ Len(t) = 1 + (Len(s) - 1)
      /\ \A i \in 1 .. 1 + (Len(s) - 1) : t[i] = IF i <= 1 THEN <<Head(s)>>[i] ELSE Tail(s)[i - 1]
  BY <1>1, <1>2, ConcatProperties
<1> HIDE DEF t
<1>4. \A i \in 1 .. Len(t) : t[i] = s[i]
  BY <1>1, <1>2, <1>3
<1>5. Len(t) = Len(s)
  BY <1>1, <1>3
<1>6. t = s
  BY <1>3, <1>4, <1>5, SeqEqual
<1> QED  BY <1>6 DEF t

LEMMA ChildIsSmaller ==
  ASSUME NEW node \in Trees \cup Statements, NEW child \in Children(node)
  PROVE  Depth[child] < Depth[node]
BY DepthAssumption DEF Trees

LEMMA QuerySyntax ==
  ASSUME NEW node \in Trees, node.kind = "query"
  PROVE  /\ node \in Queries
         /\ node.with \in Seq([alias : Identifiers, query : Queries])
         /\ node.recursive \in BOOLEAN
         /\ node.expr \in QueryExpressions /\ Depth[node.expr] < Depth[node]
         /\ node.order \in Seq(Queries)
         /\ \A i \in DOMAIN node.with :
              /\ node.with[i].alias \in Identifiers
              /\ node.with[i].query \in Queries /\ Depth[node.with[i].query] < Depth[node]
         /\ \A i \in DOMAIN node.order : node.order[i] \in Queries /\ Depth[node.order[i]] < Depth[node]
<1>1. /\ node \in Queries
      /\ node.with \in Seq([alias : Identifiers, query : Queries])
      /\ node.recursive \in BOOLEAN
      /\ node.expr \in QueryExpressions
      /\ node.order \in Seq(Queries)
  BY SyntaxAssumption DEF Trees, Queries
<1>2. Children(node) = {node.with[i].query : i \in DOMAIN node.with} \cup {node.expr}
                         \cup {node.order[i] : i \in DOMAIN node.order}
  BY DEF Children, Range
<1>3. \A i \in DOMAIN node.with : node.with[i] \in [alias : Identifiers, query : Queries]
  <2> DEFINE Entry == [alias : Identifiers, query : Queries]
             entries == node.with
  <2>1. entries \in Seq(Entry)
    BY <1>1
  <2> HIDE DEF Entry, entries
  <2>2. \A i \in DOMAIN entries : entries[i] \in Entry
    BY <2>1, Elements
  <2> QED  BY <2>2 DEF Entry, entries
<1>4. \A i \in DOMAIN node.order : node.order[i] \in Queries
  BY <1>1
<1>5. \A child \in Children(node) : Depth[child] < Depth[node]
  BY ChildIsSmaller
<1> QED  BY <1>1, <1>2, <1>3, <1>4, <1>5

LEMMA SelectSyntax ==
  ASSUME NEW node \in Trees, node.kind = "select"
  PROVE  /\ node \in QueryExpressions
         /\ node.from \in Seq(TableExpressions) /\ Len(node.from) <= 1
         /\ node.exprs \in Seq(Queries)
         /\ \A i \in DOMAIN node.from : node.from[i] \in TableExpressions /\ Depth[node.from[i]] < Depth[node]
         /\ \A i \in DOMAIN node.exprs : node.exprs[i] \in Queries /\ Depth[node.exprs[i]] < Depth[node]
<1>1. /\ node \in QueryExpressions
      /\ node.from \in Seq(TableExpressions) /\ Len(node.from) <= 1
      /\ node.exprs \in Seq(Queries)
  BY SyntaxAssumption DEF Trees, Optional
<1>2. Children(node) = {node.from[i] : i \in DOMAIN node.from} \cup {node.exprs[i] : i \in DOMAIN node.exprs}
  BY DEF Children, Range
<1>3. \A i \in DOMAIN node.from : node.from[i] \in TableExpressions
  BY <1>1
<1>4. \A i \in DOMAIN node.exprs : node.exprs[i] \in Queries
  BY <1>1
<1>5. \A child \in Children(node) : Depth[child] < Depth[node]
  BY ChildIsSmaller
<1> QED  BY <1>1, <1>2, <1>3, <1>4, <1>5

LEMMA SetSyntax ==
  ASSUME NEW node \in Trees, node.kind = "set"
  PROVE  /\ node \in QueryExpressions
         /\ node.inputs \in Seq(QueryExpressions)
         /\ \A i \in DOMAIN node.inputs : node.inputs[i] \in QueryExpressions /\ Depth[node.inputs[i]] < Depth[node]
<1>1. node \in QueryExpressions /\ node.inputs \in Seq(QueryExpressions)
  BY SyntaxAssumption DEF Trees
<1>2. Children(node) = {node.inputs[i] : i \in DOMAIN node.inputs}
  BY DEF Children, Range
<1>3. \A i \in DOMAIN node.inputs : node.inputs[i] \in QueryExpressions
  BY <1>1
<1>4. \A child \in Children(node) : Depth[child] < Depth[node]
  BY ChildIsSmaller
<1> QED  BY <1>1, <1>2, <1>3, <1>4

LEMMA PathSyntax ==
  ASSUME NEW node \in Trees, node.kind = "path"
  PROVE  /\ node \in TableExpressions
         /\ node.path \in Seq(Identifiers)
         /\ node.alias \in Seq(Identifiers)
         /\ node.exprs \in Seq(Queries)
         /\ \A i \in DOMAIN node.exprs : node.exprs[i] \in Queries /\ Depth[node.exprs[i]] < Depth[node]
<1>1. /\ node \in TableExpressions /\ node.path \in Seq(Identifiers)
      /\ node.alias \in Seq(Identifiers) /\ node.exprs \in Seq(Queries)
  BY SyntaxAssumption DEF Trees, Optional
<1>2. Children(node) = {node.exprs[i] : i \in DOMAIN node.exprs}
  BY DEF Children, Range
<1>3. \A i \in DOMAIN node.exprs : node.exprs[i] \in Queries
  BY <1>1
<1>4. \A child \in Children(node) : Depth[child] < Depth[node]
  BY ChildIsSmaller
<1> QED  BY <1>1, <1>2, <1>3, <1>4

LEMMA SubquerySyntax ==
  ASSUME NEW node \in Trees, node.kind = "subquery"
  PROVE  /\ node \in TableExpressions
         /\ node.alias \in Seq(Identifiers)
         /\ node.query \in Queries /\ Depth[node.query] < Depth[node]
<1>1. node \in TableExpressions /\ node.alias \in Seq(Identifiers) /\ node.query \in Queries
  BY SyntaxAssumption DEF Trees, Optional
<1>2. node.query \in Children(node)
  BY DEF Children
<1> QED  BY <1>1, <1>2, ChildIsSmaller

LEMMA JoinSyntax ==
  ASSUME NEW node \in Trees, node.kind \in {"join", "parenthesized"}
  PROVE  /\ node \in TableExpressions
         /\ node.lhs \in TableExpressions /\ Depth[node.lhs] < Depth[node]
         /\ node.rhs \in TableExpressions /\ Depth[node.rhs] < Depth[node]
         /\ node.on \in Seq(Queries)
         /\ \A i \in DOMAIN node.on : node.on[i] \in Queries /\ Depth[node.on[i]] < Depth[node]
<1>1. /\ node \in TableExpressions /\ node.lhs \in TableExpressions
      /\ node.rhs \in TableExpressions /\ node.on \in Seq(Queries)
  BY SyntaxAssumption DEF Trees
<1>2. Children(node) = {node.lhs, node.rhs} \cup {node.on[i] : i \in DOMAIN node.on}
  BY DEF Children, Range
<1>3. \A i \in DOMAIN node.on : node.on[i] \in Queries
  BY <1>1
<1>4. \A child \in Children(node) : Depth[child] < Depth[node]
  BY ChildIsSmaller
<1> QED  BY <1>1, <1>2, <1>3, <1>4

LEMMA TvfSyntax ==
  ASSUME NEW node \in Trees, node.kind = "tvf"
  PROVE  /\ node \in TableExpressions
         /\ node.exprs \in Seq(Queries)
         /\ node.tables \subseteq Paths
         /\ node.inner \in Seq(Functions)
         /\ \A i \in DOMAIN node.exprs : node.exprs[i] \in Queries /\ Depth[node.exprs[i]] < Depth[node]
         /\ \A i \in DOMAIN node.inner : node.inner[i] \in Functions /\ Depth[node.inner[i]] < Depth[node]
<1>1. /\ node \in TableExpressions /\ node.exprs \in Seq(Queries)
      /\ node.tables \subseteq Paths /\ node.inner \in Seq(Functions)
  BY SyntaxAssumption DEF Trees
<1>2. Children(node) = {node.exprs[i] : i \in DOMAIN node.exprs} \cup {node.inner[i] : i \in DOMAIN node.inner}
  BY DEF Children, Range
<1>3. /\ \A i \in DOMAIN node.exprs : node.exprs[i] \in Queries
      /\ \A i \in DOMAIN node.inner : node.inner[i] \in Functions
  BY <1>1
<1>4. \A child \in Children(node) : Depth[child] < Depth[node]
  BY ChildIsSmaller
<1> QED  BY <1>1, <1>2, <1>3, <1>4

LEMMA StatementSyntax ==
  ASSUME NEW node \in Statements
  PROVE  /\ node.kind \in {"query_statement", "target", "expressions", "ignored", "nested",
                           "view", "table_function", "dml"}
         /\ node.options \in Seq(Queries) /\ node.exprs \in Seq(Queries)
         /\ node.target \in Seq(Identifiers) /\ node.alias \in Seq(Identifiers)
         /\ node.kind = "target" => node.target # << >>
         /\ node.from \in Seq(TableExpressions) /\ Len(node.from) <= 1
         /\ node.query \in Seq(Queries)
         /\ node.parameters \subseteq Identifiers
         /\ node.recursive \in BOOLEAN
         /\ node.body \in Seq(Statements)
         /\ \A i \in DOMAIN node.body : node.body[i] \in Statements /\ Depth[node.body[i]] < Depth[node]
<1>1. /\ node.kind \in {"query_statement", "target", "expressions", "ignored", "nested",
                        "view", "table_function", "dml"}
      /\ node.options \in Seq(Queries) /\ node.exprs \in Seq(Queries)
      /\ node.target \in Seq(Identifiers) /\ node.alias \in Seq(Identifiers)
      /\ node.from \in Seq(TableExpressions) /\ Len(node.from) <= 1
      /\ node.query \in Seq(Queries)
      /\ node.parameters \subseteq Identifiers
      /\ node.recursive \in BOOLEAN
      /\ node.body \in Seq(Statements)
  BY SyntaxAssumption DEF Optional
<1>2. node.kind = "target" => node.target # << >>
  BY SyntaxAssumption
<1>3. \A i \in DOMAIN node.body : node.body[i] \in Children(node)
  BY <1>1 DEF Children, Range
<1>4. \A i \in DOMAIN node.body : node.body[i] \in Statements
  BY <1>1
<1> QED  BY <1>1, <1>2, <1>3, <1>4, ChildIsSmaller

-----------------------------------------------------------------------------
(* The recursive functions are equal to what they are defined to be.       *)

DeclaresBody(table, f) ==
  CASE table.kind = "path" -> Alias(table.alias, table.path)
    [] table.kind = "subquery" -> Alias(table.alias, << >>)
    [] table.kind = "tvf" -> {}
    [] OTHER -> f[table.lhs] \cup f[table.rhs]

OfTables == INSTANCE StructuralRecursion
              WITH Nodes <- TableExpressions, Rank <- Depth, Body <- DeclaresBody

FreeBody(node, f) == [env \in Environments |-> FreeIn(node, env, f)]

OfTrees == INSTANCE StructuralRecursion WITH Nodes <- Trees, Rank <- Depth, Body <- FreeBody

\* What the code finds in a statement: it keeps the parameters of a table function
\* and the name of a recursive view as they are spelled.
Named(path) == IF path = << >> THEN {} ELSE {path}

LEMMA NamedType ==
  /\ Named(<< >>) = {}
  /\ \A v \in Seq(Identifiers) : Named(v) \in SUBSET Seq(Identifiers)
BY DEF Named

FoundInCase(statement, paths) ==
  FreeInCase(statement, paths, statement.parameters,
    Named(IF statement.recursive THEN statement.target ELSE << >>))

FoundInStatement[statement \in Statements] ==
  FreeInEach(statement.options, Environment({}, {}, {}), Free)
    \cup FoundInCase(statement, FoundInStatement)

FoundInStatementBody(statement, f) ==
  FreeInEach(statement.options, Environment({}, {}, {}), Free) \cup FoundInCase(statement, f)

OfStatements == INSTANCE StructuralRecursion
                  WITH Nodes <- Statements, Rank <- Depth, Body <- FoundInStatementBody

LEMMA Kinds ==
  /\ \A node \in QueryExpressions : node.kind \in {"query", "select", "set"}
  /\ \A node \in TableExpressions :
       node.kind \in {"path", "subquery", "join", "parenthesized", "tvf"}
BY SyntaxAssumption

LEMMA DepthIsNumber ==
  /\ \A node \in TableExpressions : Depth[node] \in Nat
  /\ \A node \in Trees : Depth[node] \in Nat
  /\ \A node \in Statements : Depth[node] \in Nat
BY DepthAssumption DEF Trees

LEMMA AliasType ==
  ASSUME NEW alias \in Seq(Identifiers), NEW path \in Seq(Identifiers)
  PROVE  Alias(alias, path) \subseteq Identifiers
<1>1. alias # << >> => alias[1] \in Identifiers
  OBVIOUS
<1>2. path # << >> => Last(path) \in Identifiers
  BY DEF Last
<1> QED  BY <1>1, <1>2, IdentifiersAssumption DEF Alias

LEMMA DeclaresUnfolds ==
  ASSUME NEW table \in TableExpressions
  PROVE  Declares[table] = DeclaresBody(table, Declares)
<1>1. OfTables!Structural
  <2>1. SUFFICES ASSUME NEW n \in TableExpressions, NEW f, NEW g,
                        \A m \in TableExpressions : Depth[m] < Depth[n] => f[m] = g[m]
                 PROVE  DeclaresBody(n, f) = DeclaresBody(n, g)
    BY DEF OfTables!Structural
  <2>2. CASE n.kind \in {"join", "parenthesized"}
    <3>1. /\ n.lhs \in TableExpressions /\ Depth[n.lhs] < Depth[n]
          /\ n.rhs \in TableExpressions /\ Depth[n.rhs] < Depth[n]
      BY <2>2, JoinSyntax DEF Trees
    <3> QED  BY <2>1, <2>2, <3>1 DEF DeclaresBody
  <2>3. CASE n.kind \in {"path", "subquery", "tvf"}
    BY <2>3 DEF DeclaresBody
  <2> QED  BY <2>2, <2>3, Kinds
<1>2. \E f : f = [t \in TableExpressions |-> DeclaresBody(t, f)]
  BY <1>1, DepthIsNumber, OfTables!RecursionExists DEF OfTables!Ranked
<1>3. Declares = [t \in TableExpressions |-> DeclaresBody(t, Declares)]
  BY <1>2 DEF Declares, DeclaresBody
<1> QED  BY <1>3

LEMMA DeclaresType ==
  \A table \in TableExpressions : Declares[table] \subseteq Identifiers
<1> DEFINE S == {table \in TableExpressions : Declares[table] \subseteq Identifiers}
<1>1. SUFFICES TableExpressions \subseteq S
  OBVIOUS
<1>2. ASSUME NEW n \in TableExpressions,
             \A m \in TableExpressions : Depth[m] < Depth[n] => m \in S
      PROVE  n \in S
  <2>1. CASE n.kind = "path"
    <3>1. Declares[n] = Alias(n.alias, n.path)
      BY <2>1, DeclaresUnfolds DEF DeclaresBody
    <3> QED  BY <2>1, <3>1, AliasType, PathSyntax DEF Trees
  <2>2. CASE n.kind = "subquery"
    <3>1. Declares[n] = Alias(n.alias, << >>)
      BY <2>2, DeclaresUnfolds DEF DeclaresBody
    <3>2. n.alias \in Seq(Identifiers) /\ << >> \in Seq(Identifiers)
      BY <2>2, SubquerySyntax DEF Trees
    <3>3. Alias(n.alias, << >>) \subseteq Identifiers
      BY <3>2, AliasType
    <3> QED  BY <3>1, <3>3
  <2>3. CASE n.kind = "tvf"
    BY <2>3, DeclaresUnfolds DEF DeclaresBody
  <2>4. CASE n.kind \in {"join", "parenthesized"}
    <3>1. Declares[n] = Declares[n.lhs] \cup Declares[n.rhs]
      BY <2>4, DeclaresUnfolds DEF DeclaresBody
    <3>2. n.lhs \in S /\ n.rhs \in S
      BY <1>2, <2>4, JoinSyntax DEF Trees
    <3> QED  BY <3>1, <3>2
  <2> QED  BY <2>1, <2>2, <2>3, <2>4, Kinds
<1> HIDE DEF S
<1> QED  BY <1>2, DepthIsNumber, OfTables!StructuralInduction DEF OfTables!Ranked

-----------------------------------------------------------------------------
LEMMA FreeInEachAgrees ==
  ASSUME NEW nodes, NEW env, NEW f, NEW g,
         \A i \in DOMAIN nodes : f[nodes[i]] = g[nodes[i]]
  PROVE  FreeInEach(nodes, env, f) = FreeInEach(nodes, env, g)
BY DEF FreeInEach

LEMMA FreeUnfolds ==
  ASSUME NEW node \in Trees, NEW env \in Environments
  PROVE  Free[node][env] = FreeIn(node, env, Free)
<1>1. OfTrees!Structural
  <2>1. SUFFICES ASSUME NEW n \in Trees, NEW f, NEW g,
                        \A m \in Trees : Depth[m] < Depth[n] => f[m] = g[m],
                        NEW e \in Environments
                 PROVE  FreeIn(n, e, f) = FreeIn(n, e, g)
    BY DEF OfTrees!Structural, FreeBody
  <2>2. \A nodes : (\A i \in DOMAIN nodes : nodes[i] \in Trees /\ Depth[nodes[i]] < Depth[n])
                      => \A x : FreeInEach(nodes, x, f) = FreeInEach(nodes, x, g)
    BY <2>1, FreeInEachAgrees
  <2>3. Queries \subseteq Trees /\ QueryExpressions \subseteq Trees
        /\ TableExpressions \subseteq Trees /\ Functions \subseteq Trees
    BY DEF Trees, Queries, Functions
  <2>4. CASE n.kind = "query"
    <3>1. FreeInQuery(n, e, f) = FreeInQuery(n, e, g)
      <4>1. \A i \in DOMAIN n.with : f[n.with[i].query] = g[n.with[i].query]
        BY <2>1, <2>3, <2>4, QuerySyntax
      <4>2. f[n.expr] = g[n.expr]
        BY <2>1, <2>3, <2>4, QuerySyntax
      <4>3. \A x : FreeInEach(n.order, x, f) = FreeInEach(n.order, x, g)
        BY <2>2, <2>3, <2>4, QuerySyntax
      <4> QED  BY <4>1, <4>2, <4>3 DEF FreeInQuery
    <3> QED  BY <2>4, <3>1 DEF FreeIn
  <2>5. CASE n.kind = "select"
    BY <2>2, <2>3, <2>5, SelectSyntax DEF FreeIn
  <2>6. CASE n.kind = "set"
    BY <2>2, <2>3, <2>6, SetSyntax DEF FreeIn
  <2>7. CASE n.kind = "path"
    BY <2>2, <2>3, <2>7, PathSyntax DEF FreeIn
  <2>8. CASE n.kind = "subquery"
    BY <2>1, <2>3, <2>8, SubquerySyntax DEF FreeIn
  <2>9. CASE n.kind \in {"join", "parenthesized"}
    <3>1. \A x : FreeInJoin(n, x, f) = FreeInJoin(n, x, g)
      BY <2>1, <2>2, <2>3, <2>9, JoinSyntax DEF FreeInJoin
    <3> QED  BY <2>9, <3>1 DEF FreeIn
  <2>10. CASE n.kind = "tvf"
    BY <2>2, <2>3, <2>10, TvfSyntax DEF FreeIn
  <2> QED  BY <2>4, <2>5, <2>6, <2>7, <2>8, <2>9, <2>10, Kinds DEF Trees
<1>2. \E f : f = [n \in Trees |-> FreeBody(n, f)]
  BY <1>1, DepthIsNumber, OfTrees!RecursionExists DEF OfTrees!Ranked
<1>3. Free = [n \in Trees |-> FreeBody(n, Free)]
  BY <1>2 DEF Free, FreeBody, Trees
<1> QED  BY <1>3 DEF FreeBody

LEMMA FoundInStatementUnfolds ==
  ASSUME NEW statement \in Statements
  PROVE  FoundInStatement[statement] =
           FreeInEach(statement.options, Environment({}, {}, {}), Free)
             \cup FoundInCase(statement, FoundInStatement)
<1>1. OfStatements!Structural
  <2>1. SUFFICES ASSUME NEW n \in Statements, NEW f, NEW g,
                        \A m \in Statements : Depth[m] < Depth[n] => f[m] = g[m]
                 PROVE  FoundInCase(n, f) = FoundInCase(n, g)
    BY DEF OfStatements!Structural, FoundInStatementBody
  <2>2. \A i \in DOMAIN n.body : f[n.body[i]] = g[n.body[i]]
    BY <2>1, StatementSyntax
  <2>3. CASE n.kind = "nested"
    BY <2>2, <2>3 DEF FoundInCase, FreeInCase
  <2>4. CASE n.kind # "nested"
    BY <2>4 DEF FoundInCase, FreeInCase
  <2> QED  BY <2>3, <2>4
<1>2. \E f : f = [n \in Statements |-> FoundInStatementBody(n, f)]
  BY <1>1, DepthIsNumber, OfStatements!RecursionExists DEF OfStatements!Ranked
<1>3. FoundInStatement = [n \in Statements |-> FoundInStatementBody(n, FoundInStatement)]
  BY <1>2 DEF FoundInStatement, FoundInStatementBody
<1> QED  BY <1>3 DEF FoundInStatementBody

-----------------------------------------------------------------------------
(***************************************************************************)
(* What a call does, from the first of its steps to the last: the scope in *)
(* which it may be made, the scope that it leaves and the tables it finds. *)
(***************************************************************************)

Scopes == [aliases : SUBSET Identifiers, view : Seq(Identifiers), visible : Seq(SUBSET Identifiers)]

ScopeOf(a, v, variables) == [aliases |-> a, view |-> v, visible |-> variables]

EmptyScope == ScopeOf({}, << >>, << >>)

PendingCalls ==
  [fn : {"FindInStatement", "Case", "EndView", "Restore", "Expressions", "EndScope", "FindInQuery",
         "Declare", "FindInQueryExpression", "FindInTableExpression", "EndParentheses",
         "DeclareVisible"},
   node : UNION {Trees, Statements, Seq(Queries), [expr : QueryExpressions, order : Seq(Queries)]},
   names : SUBSET Identifiers]

\* The call may be made in scope s.
Fits(call, s) ==
  \/ call.fn \in {"FindInStatement", "Case"} /\ call.node \in Statements /\ s = EmptyScope
  \/ call.fn \in {"EndView", "Declare", "Restore"}
  \/ call.fn = "FindInQuery" /\ call.node \in Queries
  \/ /\ call.fn = "FindInQueryExpression"
     /\ call.node \in [expr : QueryExpressions, order : Seq(Queries)]
  \/ /\ call.fn = "FindInTableExpression"
     /\ call.node \in TableExpressions
     /\ s.visible # << >> /\ call.names \subseteq Head(s.visible)
  \/ call.fn = "Expressions" /\ call.node \in Seq(Queries) /\ s.visible # << >>
  \/ call.fn \in {"DeclareVisible", "EndScope"} /\ s.visible # << >>
  \/ call.fn = "EndParentheses" /\ s.visible # << >> /\ Tail(s.visible) # << >>

Extended(s, names) ==
  ScopeOf(s.aliases, s.view, <<Head(s.visible) \cup names>> \o Tail(s.visible))

After(call, s) ==
  CASE call.fn = "EndView" -> ScopeOf(s.aliases, << >>, s.visible)
    [] call.fn = "Declare" -> ScopeOf(s.aliases \cup call.names, s.view, s.visible)
    [] call.fn = "Restore" -> ScopeOf(call.names, s.view, s.visible)
    [] call.fn = "FindInTableExpression" -> Extended(s, Declares[call.node])
    [] call.fn = "DeclareVisible" -> Extended(s, call.names)
    [] call.fn = "EndScope" -> ScopeOf(s.aliases, s.view, Tail(s.visible))
    [] call.fn = "EndParentheses" ->
         ScopeOf(s.aliases, s.view,
           <<Head(s.visible) \cup Head(Tail(s.visible))>> \o Tail(Tail(s.visible)))
    [] OTHER -> s

\* The environment in which a query sees the range variables "names".
Env(s, names) == Environment(s.aliases, names, Named(s.view))

\* That in which a table expression sees them as names from outside.
TableEnv(s, names) == InFrom(s.aliases, names, Head(s.visible), Named(s.view))

Finds(call, s) ==
  CASE call.fn = "FindInStatement" -> FoundInStatement[call.node]
    [] call.fn = "Case" -> FoundInCase(call.node, FoundInStatement)
    [] call.fn = "FindInQuery" -> Free[call.node][Env(s, call.names)]
    [] call.fn = "FindInQueryExpression" ->
         Free[call.node.expr][Env(s, call.names)]
           \cup FreeInEach(call.node.order,
                  Env(s, call.names \cup Variables(call.node.expr)), Free)
    [] call.fn = "FindInTableExpression" ->
         Free[call.node][TableEnv(s, call.names)]
    [] call.fn = "Expressions" -> FreeInEach(call.node, Env(s, Head(s.visible)), Free)
    [] OTHER -> {}

\* The three, call by call.
LEMMA Effect ==
  ASSUME NEW c, NEW s
  PROVE
  /\ c.fn = "FindInStatement" =>
       /\ Fits(c, s) <=> (c.node \in Statements /\ s = EmptyScope)
       /\ After(c, s) = s
       /\ Finds(c, s) = FoundInStatement[c.node]
  /\ c.fn = "Case" =>
       /\ Fits(c, s) <=> (c.node \in Statements /\ s = EmptyScope)
       /\ After(c, s) = s
       /\ Finds(c, s) = FoundInCase(c.node, FoundInStatement)
  /\ c.fn = "EndView" =>
       /\ Fits(c, s)
       /\ After(c, s) = ScopeOf(s.aliases, << >>, s.visible)
       /\ Finds(c, s) = {}
  /\ c.fn = "Declare" =>
       /\ Fits(c, s)
       /\ After(c, s) = ScopeOf(s.aliases \cup c.names, s.view, s.visible)
       /\ Finds(c, s) = {}
  /\ c.fn = "Restore" =>
       /\ Fits(c, s)
       /\ After(c, s) = ScopeOf(c.names, s.view, s.visible)
       /\ Finds(c, s) = {}
  /\ c.fn = "FindInQuery" =>
       /\ Fits(c, s) <=> (c.node \in Queries)
       /\ After(c, s) = s
       /\ Finds(c, s) = Free[c.node][Env(s, c.names)]
  /\ c.fn = "FindInQueryExpression" =>
       /\ Fits(c, s) <=> (c.node \in [expr : QueryExpressions, order : Seq(Queries)])
       /\ After(c, s) = s
       /\ Finds(c, s) = Free[c.node.expr][Env(s, c.names)]
                             \cup FreeInEach(c.node.order,
                                    Env(s, c.names \cup Variables(c.node.expr)), Free)
  /\ c.fn = "FindInTableExpression" =>
       /\ Fits(c, s) <=> /\ c.node \in TableExpressions
                         /\ s.visible # << >> /\ c.names \subseteq Head(s.visible)
       /\ After(c, s) = Extended(s, Declares[c.node])
       /\ Finds(c, s) = Free[c.node][TableEnv(s, c.names)]
  /\ c.fn = "Expressions" =>
       /\ Fits(c, s) <=> (c.node \in Seq(Queries) /\ s.visible # << >>)
       /\ After(c, s) = s
       /\ Finds(c, s) = FreeInEach(c.node, Env(s, Head(s.visible)), Free)
  /\ c.fn = "DeclareVisible" =>
       /\ Fits(c, s) <=> (s.visible # << >>)
       /\ After(c, s) = Extended(s, c.names)
       /\ Finds(c, s) = {}
  /\ c.fn = "EndScope" =>
       /\ Fits(c, s) <=> (s.visible # << >>)
       /\ After(c, s) = ScopeOf(s.aliases, s.view, Tail(s.visible))
       /\ Finds(c, s) = {}
  /\ c.fn = "EndParentheses" =>
       /\ Fits(c, s) <=> (s.visible # << >> /\ Tail(s.visible) # << >>)
       /\ After(c, s) = ScopeOf(s.aliases, s.view,
                             <<Head(s.visible) \cup Head(Tail(s.visible))>> \o Tail(Tail(s.visible)))
       /\ Finds(c, s) = {}
<1>1. CASE c.fn = "FindInStatement"
  <2>1. After(c, s) = s
    BY <1>1 DEF After
  <2>2. Finds(c, s) = FoundInStatement[c.node]
    BY <1>1 DEF Finds
  <2>3. Fits(c, s) <=> (c.node \in Statements /\ s = EmptyScope)
    BY <1>1 DEF Fits
  <2> QED  BY <1>1, <2>1, <2>2, <2>3
<1>2. CASE c.fn = "Case"
  <2>1. After(c, s) = s
    BY <1>2 DEF After
  <2>2. Finds(c, s) = FoundInCase(c.node, FoundInStatement)
    BY <1>2 DEF Finds
  <2>3. Fits(c, s) <=> (c.node \in Statements /\ s = EmptyScope)
    BY <1>2 DEF Fits
  <2> QED  BY <1>2, <2>1, <2>2, <2>3
<1>3. CASE c.fn = "EndView"
  <2>1. After(c, s) = ScopeOf(s.aliases, << >>, s.visible)
    BY <1>3 DEF After
  <2>2. Finds(c, s) = {}
    BY <1>3 DEF Finds
  <2>3. Fits(c, s) <=> (TRUE)
    BY <1>3 DEF Fits
  <2> QED  BY <1>3, <2>1, <2>2, <2>3
<1>4. CASE c.fn = "Declare"
  <2>1. After(c, s) = ScopeOf(s.aliases \cup c.names, s.view, s.visible)
    BY <1>4 DEF After
  <2>2. Finds(c, s) = {}
    BY <1>4 DEF Finds
  <2>3. Fits(c, s) <=> (TRUE)
    BY <1>4 DEF Fits
  <2> QED  BY <1>4, <2>1, <2>2, <2>3
<1>5. CASE c.fn = "Restore"
  <2>1. After(c, s) = ScopeOf(c.names, s.view, s.visible)
    BY <1>5 DEF After
  <2>2. Finds(c, s) = {}
    BY <1>5 DEF Finds
  <2>3. Fits(c, s) <=> (TRUE)
    BY <1>5 DEF Fits
  <2> QED  BY <1>5, <2>1, <2>2, <2>3
<1>6. CASE c.fn = "FindInQuery"
  <2>1. After(c, s) = s
    BY <1>6 DEF After
  <2>2. Finds(c, s) = Free[c.node][Env(s, c.names)]
    BY <1>6 DEF Finds
  <2>3. Fits(c, s) <=> (c.node \in Queries)
    BY <1>6 DEF Fits
  <2> QED  BY <1>6, <2>1, <2>2, <2>3
<1>7. CASE c.fn = "FindInQueryExpression"
  <2>1. After(c, s) = s
    BY <1>7 DEF After
  <2>2. Finds(c, s) = Free[c.node.expr][Env(s, c.names)]
                             \cup FreeInEach(c.node.order,
                                    Env(s, c.names \cup Variables(c.node.expr)), Free)
    BY <1>7 DEF Finds
  <2>3. Fits(c, s) <=> (c.node \in [expr : QueryExpressions, order : Seq(Queries)])
    BY <1>7 DEF Fits
  <2> QED  BY <1>7, <2>1, <2>2, <2>3
<1>8. CASE c.fn = "FindInTableExpression"
  <2>1. After(c, s) = Extended(s, Declares[c.node])
    BY <1>8 DEF After
  <2>2. Finds(c, s) = Free[c.node][TableEnv(s, c.names)]
    BY <1>8 DEF Finds
  <2>3. Fits(c, s) <=> /\ c.node \in TableExpressions
                         /\ s.visible # << >> /\ c.names \subseteq Head(s.visible)
    BY <1>8 DEF Fits
  <2> QED  BY <1>8, <2>1, <2>2, <2>3
<1>9. CASE c.fn = "Expressions"
  <2>1. After(c, s) = s
    BY <1>9 DEF After
  <2>2. Finds(c, s) = FreeInEach(c.node, Env(s, Head(s.visible)), Free)
    BY <1>9 DEF Finds
  <2>3. Fits(c, s) <=> (c.node \in Seq(Queries) /\ s.visible # << >>)
    BY <1>9 DEF Fits
  <2> QED  BY <1>9, <2>1, <2>2, <2>3
<1>10. CASE c.fn = "DeclareVisible"
  <2>1. After(c, s) = Extended(s, c.names)
    BY <1>10 DEF After
  <2>2. Finds(c, s) = {}
    BY <1>10 DEF Finds
  <2>3. Fits(c, s) <=> (s.visible # << >>)
    BY <1>10 DEF Fits
  <2> QED  BY <1>10, <2>1, <2>2, <2>3
<1>11. CASE c.fn = "EndScope"
  <2>1. After(c, s) = ScopeOf(s.aliases, s.view, Tail(s.visible))
    BY <1>11 DEF After
  <2>2. Finds(c, s) = {}
    BY <1>11 DEF Finds
  <2>3. Fits(c, s) <=> (s.visible # << >>)
    BY <1>11 DEF Fits
  <2> QED  BY <1>11, <2>1, <2>2, <2>3
<1>12. CASE c.fn = "EndParentheses"
  <2>1. After(c, s) = ScopeOf(s.aliases, s.view,
                             <<Head(s.visible) \cup Head(Tail(s.visible))>> \o Tail(Tail(s.visible)))
    BY <1>12 DEF After
  <2>2. Finds(c, s) = {}
    BY <1>12 DEF Finds
  <2>3. Fits(c, s) <=> (s.visible # << >> /\ Tail(s.visible) # << >>)
    BY <1>12 DEF Fits
  <2> QED  BY <1>12, <2>1, <2>2, <2>3
<1>13. CASE c.fn \notin {"FindInStatement", "Case", "EndView", "Declare", "Restore", "FindInQuery", "FindInQueryExpression", "FindInTableExpression", "Expressions", "DeclareVisible", "EndScope", "EndParentheses"}
  BY <1>13
<1> QED  BY <1>1, <1>2, <1>3, <1>4, <1>5, <1>6, <1>7, <1>8, <1>9, <1>10, <1>11, <1>12, <1>13

\* The calls, one after the other, lead from scope s to scope t.
Path(calls, path, s, t, tables) ==
  /\ path \in [1 .. Len(calls) + 1 -> Scopes]
  /\ path[1] = s /\ path[Len(calls) + 1] = t
  /\ \A i \in 1 .. Len(calls) : Fits(calls[i], path[i]) /\ path[i + 1] = After(calls[i], path[i])
  /\ tables = UNION {Finds(calls[i], path[i]) : i \in 1 .. Len(calls)}

Lead(calls, s, t, tables) ==
  calls \in Seq(PendingCalls) /\ \E path : Path(calls, path, s, t, tables)

LEMMA ExtendedType ==
  ASSUME NEW s \in Scopes, s.visible # << >>, NEW names \in SUBSET Identifiers
  PROVE  /\ Extended(s, names) \in Scopes
         /\ Extended(s, names).visible # << >>
         /\ Head(Extended(s, names).visible) = Head(s.visible) \cup names
         /\ Tail(Extended(s, names).visible) = Tail(s.visible)
         /\ Extended(s, names).aliases = s.aliases /\ Extended(s, names).view = s.view
<1>1. /\ s.visible \in Seq(SUBSET Identifiers) /\ s.aliases \in SUBSET Identifiers
      /\ s.view \in Seq(Identifiers)
  BY DEF Scopes
<1> DEFINE head == Head(s.visible) \cup names
           tail == Tail(s.visible)
<1>2. head \in SUBSET Identifiers /\ tail \in Seq(SUBSET Identifiers)
  BY <1>1
<1>3. Extended(s, names) = ScopeOf(s.aliases, s.view, <<head>> \o tail)
  BY DEF Extended
<1> HIDE DEF head, tail
<1>4. /\ <<head>> \o tail \in Seq(SUBSET Identifiers)
      /\ <<head>> \o tail # << >>
      /\ Head(<<head>> \o tail) = head
      /\ Tail(<<head>> \o tail) = tail
  BY <1>2, PushProperties
<1> QED  BY <1>1, <1>3, <1>4 DEF head, tail, Scopes, ScopeOf

LEMMA AfterType ==
  ASSUME NEW s \in Scopes, NEW call \in PendingCalls, Fits(call, s)
  PROVE  After(call, s) \in Scopes
<1>1. /\ s = [aliases |-> s.aliases, view |-> s.view, visible |-> s.visible]
      /\ s.visible \in Seq(SUBSET Identifiers) /\ s.aliases \in SUBSET Identifiers
      /\ s.view \in Seq(Identifiers)
  BY DEF Scopes
<1>2. call.names \in SUBSET Identifiers
  BY DEF PendingCalls
<1>3. CASE call.fn \in {"EndView", "Declare", "Restore"}
  BY <1>1, <1>2, <1>3 DEF After, Scopes, ScopeOf
<1>4. CASE call.fn = "FindInTableExpression"
  BY <1>4, DeclaresType, ExtendedType DEF After, Fits
<1>5. CASE call.fn = "DeclareVisible"
  BY <1>2, <1>5, ExtendedType DEF After, Fits
<1>6. CASE call.fn = "EndScope"
  <2>1. s.visible # << >>
    BY <1>6 DEF Fits
  <2>2. Tail(s.visible) \in Seq(SUBSET Identifiers)
    BY <1>1, <2>1
  <2> QED  BY <1>1, <1>6, <2>2 DEF After, Scopes, ScopeOf
<1>7. CASE call.fn = "EndParentheses"
  <2>1. s.visible # << >> /\ Tail(s.visible) # << >>
    BY <1>7 DEF Fits
  <2> DEFINE merged == Head(s.visible) \cup Head(Tail(s.visible))
             rest == Tail(Tail(s.visible))
  <2>2. Tail(s.visible) \in Seq(SUBSET Identifiers) /\ Head(s.visible) \in SUBSET Identifiers
    BY <1>1, <2>1
  <2>3. rest \in Seq(SUBSET Identifiers) /\ Head(Tail(s.visible)) \in SUBSET Identifiers
    BY <2>1, <2>2
  <2>4. merged \in SUBSET Identifiers
    BY <2>2, <2>3
  <2>5. After(call, s) = ScopeOf(s.aliases, s.view, <<merged>> \o rest)
    BY <1>7 DEF After
  <2> HIDE DEF merged, rest
  <2>6. <<merged>> \o rest \in Seq(SUBSET Identifiers)
    BY <2>3, <2>4, PushProperties
  <2> QED  BY <1>1, <2>5, <2>6 DEF Scopes, ScopeOf
<1>8. CASE call.fn \notin {"EndView", "Declare", "Restore", "FindInTableExpression",
                           "DeclareVisible", "EndScope", "EndParentheses"}
  BY <1>8 DEF After
<1> QED  BY <1>3, <1>4, <1>5, <1>6, <1>7, <1>8

LEMMA LeadNowhere ==
  ASSUME NEW s \in Scopes
  PROVE  Lead(<< >>, s, s, {})
<1> DEFINE path == [i \in {1} |-> s]
<1>1. Path(<< >>, path, s, s, {})
  <2>1. Len(<< >>) = 0 /\ 1 .. 0 = {} /\ 1 .. 0 + 1 = {1}
    OBVIOUS
  <2>2. UNION {Finds(<< >>[i], path[i]) : i \in {}} = {}
    OBVIOUS
  <2>3. path \in [{1} -> Scopes] /\ path[1] = s
    OBVIOUS
  <2> HIDE DEF path
  <2> QED  BY <2>1, <2>2, <2>3 DEF Path
<1>2. << >> \in Seq(PendingCalls)
  OBVIOUS
<1> QED  BY <1>1, <1>2 DEF Lead

LEMMA LeadsNowhere ==
  ASSUME NEW s, NEW t, NEW tables, Lead(<< >>, s, t, tables)
  PROVE  s = t /\ tables = {}
<1>1. PICK path : Path(<< >>, path, s, t, tables)
  BY DEF Lead
<1>2. Len(<< >>) = 0 /\ 1 .. 0 = {}
  OBVIOUS
<1>3. s = t
  BY <1>1, <1>2 DEF Path
<1>4. tables = UNION {Finds(<< >>[i], path[i]) : i \in {}}
  BY <1>1, <1>2 DEF Path
<1> QED  BY <1>3, <1>4

\* Calls that leave the scope as it is.
LEMMA LeadAround ==
  ASSUME NEW calls \in Seq(PendingCalls), NEW s \in Scopes,
         \A i \in 1 .. Len(calls) : Fits(calls[i], s) /\ After(calls[i], s) = s
  PROVE  Lead(calls, s, s, UNION {Finds(calls[i], s) : i \in 1 .. Len(calls)})
<1> DEFINE path == [i \in 1 .. Len(calls) + 1 |-> s]
<1>1. Len(calls) \in Nat
  OBVIOUS
<1>2. path \in [1 .. Len(calls) + 1 -> Scopes]
  OBVIOUS
<1>3. \A i \in 1 .. Len(calls) : path[i] = s /\ path[i + 1] = s
  BY <1>1
<1>4. path[1] = s /\ path[Len(calls) + 1] = s
  BY <1>1
<1> HIDE DEF path
<1>5. {Finds(calls[i], s) : i \in 1 .. Len(calls)} = {Finds(calls[i], path[i]) : i \in 1 .. Len(calls)}
  BY <1>3
<1>6. Path(calls, path, s, s, UNION {Finds(calls[i], s) : i \in 1 .. Len(calls)})
  BY <1>2, <1>3, <1>4, <1>5 DEF Path
<1> QED  BY <1>6 DEF Lead

LEMMA LeadOne ==
  ASSUME NEW call \in PendingCalls, NEW s \in Scopes, Fits(call, s)
  PROVE  Lead(<<call>>, s, After(call, s), Finds(call, s))
<1> DEFINE t == After(call, s)
           path == [i \in 1 .. 2 |-> IF i = 1 THEN s ELSE t]
<1>1. t \in Scopes
  BY AfterType
<1>2. <<call>> \in Seq(PendingCalls) /\ Len(<<call>>) = 1 /\ <<call>>[1] = call
  OBVIOUS
<1> HIDE DEF t
<1>3. path \in [1 .. 2 -> Scopes] /\ path[1] = s /\ path[2] = t
  BY <1>1
<1> HIDE DEF path
<1>4. {Finds(<<call>>[i], path[i]) : i \in 1 .. 1} = {Finds(call, s)}
  <2>1. 1 .. 1 = {1}
    OBVIOUS
  <2> QED  BY <1>2, <1>3, <2>1
<1>5. Path(<<call>>, path, s, t, Finds(call, s))
  <2>1. \A i \in 1 .. 1 : i = 1
    OBVIOUS
  <2>2. Finds(call, s) = UNION {Finds(call, s)}
    OBVIOUS
  <2>3. /\ path \in [1 .. 1 + 1 -> Scopes]
        /\ path[1] = s /\ path[1 + 1] = t
        /\ \A i \in 1 .. 1 : Fits(<<call>>[i], path[i]) /\ path[i + 1] = After(<<call>>[i], path[i])
    BY <1>2, <1>3, <2>1 DEF t
  <2> QED  BY <1>2, <1>4, <2>2, <2>3 DEF Path
<1> QED  BY <1>2, <1>5 DEF Lead, t

LEMMA LeadOn ==
  ASSUME NEW s, NEW t, NEW u, NEW calls, NEW more, NEW tables, NEW further,
         Lead(calls, s, t, tables), Lead(more, t, u, further)
  PROVE  Lead(calls \o more, s, u, tables \cup further)
<1>1. /\ calls \in Seq(PendingCalls) /\ more \in Seq(PendingCalls)
      /\ Len(calls) \in Nat /\ Len(more) \in Nat
  BY DEF Lead
<1>2. PICK p : Path(calls, p, s, t, tables)
  BY DEF Lead
<1>3. PICK q : Path(more, q, t, u, further)
  BY DEF Lead
<1> DEFINE m == Len(calls)
           n == Len(more)
           both == calls \o more
           path == [i \in 1 .. (m + n) + 1 |-> IF i <= m THEN p[i] ELSE q[i - m]]
<1>4. /\ both \in Seq(PendingCalls) /\ Len(both) = m + n
      /\ \A i \in 1 .. m + n : both[i] = IF i <= m THEN calls[i] ELSE more[i - m]
  BY <1>1, ConcatProperties
<1>5. /\ p \in [1 .. m + 1 -> Scopes] /\ p[1] = s /\ p[m + 1] = t
      /\ \A i \in 1 .. m : Fits(calls[i], p[i]) /\ p[i + 1] = After(calls[i], p[i])
      /\ tables = UNION {Finds(calls[i], p[i]) : i \in 1 .. m}
  BY <1>2 DEF Path
<1>6. /\ q \in [1 .. n + 1 -> Scopes] /\ q[1] = t /\ q[n + 1] = u
      /\ \A i \in 1 .. n : Fits(more[i], q[i]) /\ q[i + 1] = After(more[i], q[i])
      /\ further = UNION {Finds(more[i], q[i]) : i \in 1 .. n}
  BY <1>3 DEF Path
<1>7. m \in Nat /\ n \in Nat
  BY <1>1
<1> HIDE DEF m, n, both
<1>8. path \in [1 .. (m + n) + 1 -> Scopes]
  <2>1. SUFFICES ASSUME NEW i \in 1 .. (m + n) + 1
                 PROVE  (IF i <= m THEN p[i] ELSE q[i - m]) \in Scopes
    OBVIOUS
  <2>2. CASE i <= m
    BY <1>5, <1>7, <2>2
  <2>3. CASE ~ (i <= m)
    <3>1. i - m \in 1 .. n + 1
      BY <1>7, <2>3
    <3> QED  BY <1>6, <2>3, <3>1
  <2> QED  BY <2>2, <2>3
<1>9. \A i \in 1 .. m + 1 : path[i] = p[i]
  <2>1. SUFFICES ASSUME NEW i \in 1 .. m + 1 PROVE path[i] = p[i]
    OBVIOUS
  <2>2. i \in 1 .. (m + n) + 1 /\ (i <= m \/ i = m + 1)
    BY <1>7
  <2>3. (m + 1) - m = 1 /\ ~ (m + 1 <= m)
    BY <1>7
  <2> QED  BY <1>5, <1>6, <2>2, <2>3
<1>10. \A i \in 1 .. n + 1 : path[m + i] = q[i]
  <2>1. SUFFICES ASSUME NEW i \in 1 .. n + 1 PROVE path[m + i] = q[i]
    OBVIOUS
  <2>2. m + i \in 1 .. (m + n) + 1 /\ ~ (m + i <= m) /\ (m + i) - m = i
    BY <1>7
  <2> QED  BY <2>2
<1> HIDE DEF path
<1>11. \A i \in 1 .. m : both[i] = calls[i] /\ path[i] = p[i] /\ path[i + 1] = p[i + 1]
  <2>1. SUFFICES ASSUME NEW i \in 1 .. m
                 PROVE  both[i] = calls[i] /\ path[i] = p[i] /\ path[i + 1] = p[i + 1]
    OBVIOUS
  <2>2. i \in 1 .. m + n /\ i <= m /\ i \in 1 .. m + 1 /\ i + 1 \in 1 .. m + 1
    BY <1>7
  <2> QED  BY <1>4, <1>9, <2>2
<1>12. \A i \in 1 .. n : both[m + i] = more[i] /\ path[m + i] = q[i] /\ path[(m + i) + 1] = q[i + 1]
  <2>1. SUFFICES ASSUME NEW i \in 1 .. n
                 PROVE  both[m + i] = more[i] /\ path[m + i] = q[i] /\ path[(m + i) + 1] = q[i + 1]
    OBVIOUS
  <2>2. /\ m + i \in 1 .. m + n /\ ~ (m + i <= m) /\ (m + i) - m = i /\ (m + i) + 1 = m + (i + 1)
        /\ i \in 1 .. n + 1 /\ i + 1 \in 1 .. n + 1
    BY <1>7
  <2> QED  BY <1>4, <1>10, <2>2
<1>13. \A i \in 1 .. m + n : i \in 1 .. m \/ \E j \in 1 .. n : i = m + j
  <2>1. SUFFICES ASSUME NEW i \in 1 .. m + n, i \notin 1 .. m PROVE \E j \in 1 .. n : i = m + j
    OBVIOUS
  <2>2. i - m \in 1 .. n /\ i = m + (i - m)
    BY <1>7, <2>1
  <2> QED  BY <2>2
<1>14. \A i \in 1 .. m + n : Fits(both[i], path[i]) /\ path[i + 1] = After(both[i], path[i])
  BY <1>5, <1>6, <1>11, <1>12, <1>13
<1>15. tables \cup further = UNION {Finds(both[i], path[i]) : i \in 1 .. m + n}
  <2>1. (1 .. m) \subseteq 1 .. m + n /\ \A j \in 1 .. n : m + j \in 1 .. m + n
    BY <1>7
  <2>2. {Finds(both[i], path[i]) : i \in 1 .. m + n}
          = {Finds(calls[i], p[i]) : i \in 1 .. m} \cup {Finds(more[i], q[i]) : i \in 1 .. n}
    BY <1>11, <1>12, <1>13, <2>1
  <2> QED  BY <1>5, <1>6, <2>2
<1>16. path[1] = s /\ path[(m + n) + 1] = u
  <2>1. 1 \in 1 .. m + 1 /\ n + 1 \in 1 .. n + 1 /\ m + (n + 1) = (m + n) + 1
    BY <1>7
  <2> QED  BY <1>5, <1>6, <1>9, <1>10, <2>1
<1>17. Path(both, path, s, u, tables \cup further)
  BY <1>4, <1>8, <1>14, <1>15, <1>16 DEF Path
<1> QED  BY <1>4, <1>17 DEF Lead, both

\* The first call, and the rest.
LEMMA LeadFirst ==
  ASSUME NEW calls, NEW s, NEW t, NEW tables, Lead(calls, s, t, tables), calls # << >>
  PROVE  /\ Head(calls) \in PendingCalls /\ s \in Scopes
         /\ Fits(Head(calls), s)
         /\ \E further : /\ Lead(Tail(calls), After(Head(calls), s), t, further)
                         /\ tables = Finds(Head(calls), s) \cup further
<1>1. calls \in Seq(PendingCalls) /\ Len(calls) \in Nat /\ Len(calls) # 0
  BY DEF Lead
<1>2. PICK p : Path(calls, p, s, t, tables)
  BY DEF Lead
<1> DEFINE m == Len(calls)
           rest == Tail(calls)
           path == [i \in 1 .. (m - 1) + 1 |-> p[i + 1]]
           further == UNION {Finds(rest[i], path[i]) : i \in 1 .. (m - 1)}
<1>3. /\ p \in [1 .. m + 1 -> Scopes] /\ p[1] = s /\ p[m + 1] = t
      /\ \A i \in 1 .. m : Fits(calls[i], p[i]) /\ p[i + 1] = After(calls[i], p[i])
      /\ tables = UNION {Finds(calls[i], p[i]) : i \in 1 .. m}
  BY <1>2 DEF Path
<1>4. /\ Head(calls) \in PendingCalls /\ Head(calls) = calls[1]
      /\ rest \in Seq(PendingCalls) /\ Len(rest) = m - 1
      /\ \A i \in 1 .. m - 1 : rest[i] = calls[i + 1]
  BY <1>1, HeadTailProperties
<1>5. m \in Nat /\ m >= 1
  BY <1>1
<1> HIDE DEF m, rest
<1>6. path \in [1 .. (m - 1) + 1 -> Scopes]
  <2>1. \A i \in 1 .. (m - 1) + 1 : i + 1 \in 1 .. m + 1
    BY <1>5
  <2> QED  BY <1>3, <2>1
<1>7. \A i \in 1 .. m - 1 : path[i] = p[i + 1] /\ path[i + 1] = p[(i + 1) + 1] /\ i + 1 \in 1 .. m
  BY <1>5
<1>8. path[1] = After(Head(calls), s) /\ path[(m - 1) + 1] = t
  <2>1. 1 \in 1 .. (m - 1) + 1 /\ (m - 1) + 1 \in 1 .. (m - 1) + 1 /\ 1 \in 1 .. m
        /\ ((m - 1) + 1) + 1 = m + 1
    BY <1>5
  <2> QED  BY <1>3, <1>4, <2>1
<1> HIDE DEF path
<1>9. \A i \in 1 .. m - 1 : Fits(rest[i], path[i]) /\ path[i + 1] = After(rest[i], path[i])
  BY <1>3, <1>4, <1>7
<1>10. Path(rest, path, After(Head(calls), s), t, further)
  BY <1>4, <1>6, <1>8, <1>9 DEF Path
<1>11. tables = Finds(Head(calls), s) \cup further
  <2>1. 1 \in 1 .. m /\ \A i \in 1 .. m : i = 1 \/ (i - 1 \in 1 .. m - 1 /\ (i - 1) + 1 = i)
    BY <1>5
  <2>2. \A i \in 1 .. m - 1 : Finds(rest[i], path[i]) = Finds(calls[i + 1], p[i + 1])
    BY <1>4, <1>7
  <2>3. {Finds(calls[i], p[i]) : i \in 1 .. m}
          = {Finds(calls[1], p[1])} \cup {Finds(rest[i], path[i]) : i \in 1 .. m - 1}
    BY <1>7, <2>1, <2>2
  <2> QED  BY <1>3, <1>4, <2>3
<1>12. 1 \in 1 .. m + 1 /\ 1 \in 1 .. m
  BY <1>5
<1> QED  BY <1>3, <1>4, <1>10, <1>11, <1>12 DEF Lead, rest

-----------------------------------------------------------------------------
(* The calls for several nodes.                                            *)

LEMMA ScopeType ==
  ASSUME NEW s \in Scopes
  PROVE  /\ s = ScopeOf(s.aliases, s.view, s.visible)
         /\ s.aliases \in SUBSET Identifiers /\ s.view \in Seq(Identifiers)
         /\ s.visible \in Seq(SUBSET Identifiers)
         /\ s.visible # << >> => Head(s.visible) \in SUBSET Identifiers
BY DEF Scopes, ScopeOf

LEMMA ScopeOfType ==
  ASSUME NEW a \in SUBSET Identifiers, NEW v \in Seq(Identifiers), NEW r \in Seq(SUBSET Identifiers)
  PROVE  /\ ScopeOf(a, v, r) \in Scopes
         /\ ScopeOf(a, v, r).aliases = a /\ ScopeOf(a, v, r).view = v /\ ScopeOf(a, v, r).visible = r
BY DEF Scopes, ScopeOf

LEMMA EnvironmentType ==
  ASSUME NEW s \in Scopes, NEW names \in SUBSET Identifiers
  PROVE  /\ Env(s, names) \in Environments
         /\ s.visible # << >> => TableEnv(s, names) \in Environments
BY ScopeType, NamedType DEF Env, TableEnv, Environment, InFrom, Environments

LEMMA CallFields ==
  \A fn, node, names :
    /\ Call(fn, node, names).fn = fn
    /\ Call(fn, node, names).node = node
    /\ Call(fn, node, names).names = names
BY DEF Call

LEMMA CallType ==
  ASSUME NEW node, NEW names \in SUBSET Identifiers
  PROVE  /\ node \in Statements => /\ Call("FindInStatement", node, names) \in PendingCalls
                                   /\ Call("Case", node, names) \in PendingCalls
         /\ node \in Queries => Call("FindInQuery", node, names) \in PendingCalls
         /\ node \in TableExpressions => Call("FindInTableExpression", node, names) \in PendingCalls
         /\ node \in Seq(Queries) => Call("Expressions", node, names) \in PendingCalls
         /\ node \in [expr : QueryExpressions, order : Seq(Queries)] =>
              Call("FindInQueryExpression", node, names) \in PendingCalls
         /\ \A fn \in {"EndView", "Declare", "Restore", "EndScope", "DeclareVisible", "EndParentheses"} :
              Call(fn, << >>, names) \in PendingCalls
<1>1. << >> \in Seq(Queries)
  OBVIOUS
<1>2. Queries \subseteq Trees /\ TableExpressions \subseteq Trees
  BY DEF Queries, Trees
<1> QED  BY <1>1, <1>2 DEF Call, PendingCalls

LEMMA CallsType ==
  ASSUME NEW S, NEW nodes \in Seq(S), NEW fn, NEW names,
         \A node \in S : Call(fn, node, names) \in PendingCalls
  PROVE  /\ Calls(fn, nodes, names) \in Seq(PendingCalls)
         /\ Len(Calls(fn, nodes, names)) = Len(nodes)
         /\ \A i \in 1 .. Len(nodes) : Calls(fn, nodes, names)[i] = Call(fn, nodes[i], names)
<1> DEFINE calls == [i \in 1 .. Len(nodes) |-> Call(fn, nodes[i], names)]
<1>1. DOMAIN nodes = 1 .. Len(nodes) /\ Len(nodes) \in Nat
  OBVIOUS
<1>2. Calls(fn, nodes, names) = calls
  BY <1>1 DEF Calls
<1>3. \A i \in 1 .. Len(nodes) : Call(fn, nodes[i], names) \in PendingCalls
  OBVIOUS
<1>4. calls \in Seq(PendingCalls) /\ Len(calls) = Len(nodes)
  BY <1>1, <1>3, IsASeq
<1>5. \A i \in 1 .. Len(nodes) : calls[i] = Call(fn, nodes[i], names)
  OBVIOUS
<1> HIDE DEF calls
<1> QED  BY <1>2, <1>4, <1>5

LEMMA LeadQueries ==
  ASSUME NEW s \in Scopes, NEW names \in SUBSET Identifiers, NEW queries \in Seq(Queries)
  PROVE  Lead(Calls("FindInQuery", queries, names), s, s, FreeInEach(queries, Env(s, names), Free))
<1> DEFINE calls == Calls("FindInQuery", queries, names)
<1>1. /\ calls \in Seq(PendingCalls) /\ Len(calls) = Len(queries)
      /\ \A i \in 1 .. Len(queries) : calls[i] = Call("FindInQuery", queries[i], names)
  BY CallType, CallsType
<1>2. DOMAIN queries = 1 .. Len(queries) /\ \A i \in 1 .. Len(queries) : queries[i] \in Queries
  OBVIOUS
<1> HIDE DEF calls
<1>3. \A i \in 1 .. Len(calls) : /\ Fits(calls[i], s) /\ After(calls[i], s) = s
                                 /\ Finds(calls[i], s) = Free[queries[i]][Env(s, names)]
  <2>1. SUFFICES ASSUME NEW i \in 1 .. Len(queries)
                 PROVE  /\ Fits(calls[i], s) /\ After(calls[i], s) = s
                        /\ Finds(calls[i], s) = Free[queries[i]][Env(s, names)]
    BY <1>1
  <2>2. /\ calls[i].fn = "FindInQuery" /\ calls[i].node = queries[i] /\ calls[i].names = names
        /\ queries[i] \in Queries
    BY <1>1, <1>2, CallFields
  <2> QED  BY <2>2, Effect
<1>4. {Finds(calls[i], s) : i \in 1 .. Len(calls)} = {Free[queries[i]][Env(s, names)] : i \in DOMAIN queries}
  BY <1>1, <1>2, <1>3
<1>5. Lead(calls, s, s, UNION {Finds(calls[i], s) : i \in 1 .. Len(calls)})
  BY <1>1, <1>3, LeadAround
<1> QED  BY <1>4, <1>5 DEF FreeInEach, calls

LEMMA LeadStatements ==
  ASSUME NEW body \in Seq(Statements)
  PROVE  Lead(Calls("FindInStatement", body, {}), EmptyScope, EmptyScope,
              UNION {FoundInStatement[body[i]] : i \in DOMAIN body})
<1> DEFINE calls == Calls("FindInStatement", body, {})
<1>1. /\ calls \in Seq(PendingCalls) /\ Len(calls) = Len(body)
      /\ \A i \in 1 .. Len(body) : calls[i] = Call("FindInStatement", body[i], {})
  <2>1. \A node \in Statements : Call("FindInStatement", node, {}) \in PendingCalls
    BY CallType
  <2> QED  BY <2>1, CallsType
<1>2. DOMAIN body = 1 .. Len(body) /\ \A i \in 1 .. Len(body) : body[i] \in Statements
  OBVIOUS
<1> HIDE DEF calls
<1>3. \A i \in 1 .. Len(calls) : /\ Fits(calls[i], EmptyScope)
                                 /\ After(calls[i], EmptyScope) = EmptyScope
                                 /\ Finds(calls[i], EmptyScope) = FoundInStatement[body[i]]
  <2>1. SUFFICES ASSUME NEW i \in 1 .. Len(body)
                 PROVE  /\ Fits(calls[i], EmptyScope) /\ After(calls[i], EmptyScope) = EmptyScope
                        /\ Finds(calls[i], EmptyScope) = FoundInStatement[body[i]]
    BY <1>1
  <2>2. /\ calls[i].fn = "FindInStatement" /\ calls[i].node = body[i] /\ body[i] \in Statements
    BY <1>1, <1>2, CallFields
  <2> QED  BY <2>2, Effect
<1>4. {Finds(calls[i], EmptyScope) : i \in 1 .. Len(calls)} = {FoundInStatement[body[i]] : i \in DOMAIN body}
  BY <1>1, <1>2, <1>3
<1>5. EmptyScope \in Scopes
  BY DEF EmptyScope, ScopeOf, Scopes
<1>6. Lead(calls, EmptyScope, EmptyScope, UNION {Finds(calls[i], EmptyScope) : i \in 1 .. Len(calls)})
  BY <1>1, <1>3, <1>5, LeadAround
<1> QED  BY <1>4, <1>6 DEF calls

LEMMA ExtendedByNothing ==
  ASSUME NEW s \in Scopes, s.visible # << >>
  PROVE  Extended(s, {}) = s
<1>1. s.visible \in Seq(SUBSET Identifiers)
  BY ScopeType
<1>2. <<Head(s.visible)>> \o Tail(s.visible) = s.visible
  BY <1>1, HeadThenTail
<1>3. Head(s.visible) \cup {} = Head(s.visible)
  OBVIOUS
<1> QED  BY <1>2, <1>3, ScopeType DEF Extended

LEMMA ExtendedTwice ==
  ASSUME NEW s \in Scopes, s.visible # << >>, NEW a \in SUBSET Identifiers, NEW b \in SUBSET Identifiers
  PROVE  Extended(Extended(s, a), b) = Extended(s, a \cup b)
<1>1. (Head(s.visible) \cup a) \cup b = Head(s.visible) \cup (a \cup b)
  OBVIOUS
<1>2. Extended(Extended(s, a), b) = ScopeOf(s.aliases, s.view, <<(Head(s.visible) \cup a) \cup b>> \o Tail(s.visible))
  BY ExtendedType DEF Extended
<1> QED  BY <1>1, <1>2 DEF Extended

LEMMA LeadTable ==
  ASSUME NEW s \in Scopes, s.visible # << >>, NEW table \in TableExpressions,
         NEW names \in SUBSET Identifiers, names \subseteq Head(s.visible)
  PROVE  Lead(<<Call("FindInTableExpression", table, names)>>, s, Extended(s, Declares[table]),
              Free[table][TableEnv(s, names)])
<1> DEFINE call == Call("FindInTableExpression", table, names)
<1>1. call \in PendingCalls
  BY CallType
<1>2. /\ Fits(call, s) /\ After(call, s) = Extended(s, Declares[table])
      /\ Finds(call, s) = Free[table][TableEnv(s, names)]
  BY DEF Fits, After, Finds, Call
<1> HIDE DEF call
<1>3. Lead(<<call>>, s, After(call, s), Finds(call, s))
  BY <1>1, <1>2, LeadOne
<1> QED  BY <1>2, <1>3 DEF call

LEMMA LeadFrom ==
  ASSUME NEW s \in Scopes, s.visible # << >>, NEW from \in Seq(TableExpressions), Len(from) <= 1,
         NEW names \in SUBSET Identifiers, names \subseteq Head(s.visible)
  PROVE  /\ DeclaredIn(from) \in SUBSET Identifiers
         /\ Lead(Calls("FindInTableExpression", from, names), s, Extended(s, DeclaredIn(from)),
                 FreeInEach(from, TableEnv(s, names), Free))
<1> DEFINE calls == Calls("FindInTableExpression", from, names)
<1>1. /\ calls \in Seq(PendingCalls) /\ Len(calls) = Len(from)
      /\ \A i \in 1 .. Len(from) : calls[i] = Call("FindInTableExpression", from[i], names)
  BY CallType, CallsType
<1>2. DOMAIN from = 1 .. Len(from) /\ Len(from) \in Nat
  OBVIOUS
<1> HIDE DEF calls
<1>3. CASE Len(from) = 0
  <2>1. calls = << >> /\ DOMAIN from = {}
    BY <1>1, <1>2, <1>3
  <2>2. DeclaredIn(from) = {} /\ FreeInEach(from, TableEnv(s, names), Free) = {}
    BY <2>1 DEF DeclaredIn, FreeInEach
  <2>3. Lead(calls, s, s, {})
    BY <2>1, LeadNowhere
  <2> QED  BY <2>2, <2>3, ExtendedByNothing DEF calls
<1>4. CASE Len(from) = 1
  <2>1. DOMAIN from = {1} /\ from[1] \in TableExpressions
    BY <1>2, <1>4
  <2>2. calls = <<Call("FindInTableExpression", from[1], names)>>
    BY <1>1, <1>4
  <2>3. /\ DeclaredIn(from) = Declares[from[1]]
        /\ FreeInEach(from, TableEnv(s, names), Free) = Free[from[1]][TableEnv(s, names)]
    BY <2>1 DEF DeclaredIn, FreeInEach
  <2>4. Lead(calls, s, Extended(s, Declares[from[1]]), Free[from[1]][TableEnv(s, names)])
    BY <2>1, <2>2, LeadTable
  <2> QED  BY <2>1, <2>3, <2>4, DeclaresType DEF calls
<1> QED  BY <1>2, <1>3, <1>4

LEMMA LeadTwo ==
  ASSUME NEW s, NEW t, NEW u, NEW c, NEW d, NEW tables, NEW more,
         Lead(<<c>>, s, t, tables), Lead(<<d>>, t, u, more)
  PROVE  Lead(<<c, d>>, s, u, tables \cup more)
<1>1. <<c>> \in Seq(PendingCalls) /\ <<d>> \in Seq(PendingCalls)
  BY DEF Lead
<1>2. c \in PendingCalls /\ d \in PendingCalls
  BY <1>1
<1>3. <<c>> \o <<d>> = <<c, d>>
  <2> DEFINE both == <<c>> \o <<d>>
             pair == <<c, d>>
  <2>1. Len(<<c>>) = 1 /\ Len(<<d>>) = 1 /\ <<c>>[1] = c /\ <<d>>[1] = d
    OBVIOUS
  <2>2. pair \in Seq(PendingCalls) /\ Len(pair) = 2 /\ pair[1] = c /\ pair[2] = d
    BY <1>2
  <2>3. /\ both \in Seq(PendingCalls) /\ Len(both) = 1 + 1
        /\ \A i \in 1 .. 1 + 1 : both[i] = IF i <= 1 THEN <<c>>[i] ELSE <<d>>[i - 1]
    BY <1>1, <2>1, ConcatProperties
  <2> HIDE DEF both, pair
  <2>4. \A i \in 1 .. Len(both) : both[i] = pair[i]
    BY <2>1, <2>2, <2>3
  <2>5. both = pair
    BY <2>2, <2>3, <2>4, SeqEqual
  <2> QED  BY <2>5 DEF both, pair
<1>4. Lead(<<c>> \o <<d>>, s, u, tables \cup more)
  BY LeadOn
<1> QED  BY <1>3, <1>4

LEMMA LeadQuery ==
  ASSUME NEW s \in Scopes, NEW names \in SUBSET Identifiers, NEW query \in Queries
  PROVE  Lead(<<Call("FindInQuery", query, names)>>, s, s, Free[query][Env(s, names)])
<1> DEFINE c == Call("FindInQuery", query, names)
<1>1. c \in PendingCalls /\ c.fn = "FindInQuery" /\ c.node = query /\ c.names = names
  BY CallType, CallFields
<1> HIDE DEF c
<1>2. Fits(c, s) /\ After(c, s) = s /\ Finds(c, s) = Free[query][Env(s, names)]
  BY <1>1, Effect
<1>3. Lead(<<c>>, s, After(c, s), Finds(c, s))
  BY <1>1, <1>2, LeadOne
<1> QED  BY <1>2, <1>3 DEF c

LEMMA LeadQueryExpression ==
  ASSUME NEW s \in Scopes, NEW names \in SUBSET Identifiers,
         NEW expr \in QueryExpressions, NEW order \in Seq(Queries)
  PROVE  Lead(<<Call("FindInQueryExpression", [expr |-> expr, order |-> order], names)>>, s, s,
              Free[expr][Env(s, names)]
                \cup FreeInEach(order, Env(s, names \cup Variables(expr)), Free))
<1> DEFINE node == [expr |-> expr, order |-> order]
           c == Call("FindInQueryExpression", node, names)
<1>1. node \in [expr : QueryExpressions, order : Seq(Queries)] /\ node.expr = expr /\ node.order = order
  OBVIOUS
<1> HIDE DEF node
<1>2. c \in PendingCalls /\ c.fn = "FindInQueryExpression" /\ c.node = node /\ c.names = names
  BY <1>1, CallType, CallFields
<1> HIDE DEF c
<1>3. Fits(c, s) /\ After(c, s) = s
      /\ Finds(c, s) = Free[expr][Env(s, names)]
                         \cup FreeInEach(order, Env(s, names \cup Variables(expr)), Free)
  BY <1>1, <1>2, Effect
<1>4. Lead(<<c>>, s, After(c, s), Finds(c, s))
  BY <1>2, <1>3, LeadOne
<1> QED  BY <1>3, <1>4 DEF c, node

LEMMA LeadExpressions ==
  ASSUME NEW s \in Scopes, s.visible # << >>, NEW queries \in Seq(Queries)
  PROVE  Lead(<<Call("Expressions", queries, {})>>, s, s, FreeInEach(queries, Env(s, Head(s.visible)), Free))
<1> DEFINE c == Call("Expressions", queries, {})
<1>1. c \in PendingCalls /\ c.fn = "Expressions" /\ c.node = queries
  <2>1. {} \in SUBSET Identifiers
    OBVIOUS
  <2> QED  BY <2>1, CallType, CallFields
<1> HIDE DEF c
<1>2. Fits(c, s) /\ After(c, s) = s /\ Finds(c, s) = FreeInEach(queries, Env(s, Head(s.visible)), Free)
  BY <1>1, Effect
<1>3. Lead(<<c>>, s, After(c, s), Finds(c, s))
  BY <1>1, <1>2, LeadOne
<1> QED  BY <1>2, <1>3 DEF c

\* The calls that end a scope or declare a name.
LEMMA LeadCloser ==
  ASSUME NEW s \in Scopes, NEW names \in SUBSET Identifiers
  PROVE  /\ Lead(<<Call("EndView", << >>, names)>>, s, ScopeOf(s.aliases, << >>, s.visible), {})
         /\ Lead(<<Call("Declare", << >>, names)>>, s,
                 ScopeOf(s.aliases \cup names, s.view, s.visible), {})
         /\ Lead(<<Call("Restore", << >>, names)>>, s, ScopeOf(names, s.view, s.visible), {})
         /\ s.visible # << >> =>
              /\ Lead(<<Call("DeclareVisible", << >>, names)>>, s, Extended(s, names), {})
              /\ Lead(<<Call("EndScope", << >>, names)>>, s,
                      ScopeOf(s.aliases, s.view, Tail(s.visible)), {})
         /\ s.visible # << >> /\ Tail(s.visible) # << >> =>
              Lead(<<Call("EndParentheses", << >>, names)>>, s,
                   ScopeOf(s.aliases, s.view,
                     <<Head(s.visible) \cup Head(Tail(s.visible))>> \o Tail(Tail(s.visible))), {})
<1> DEFINE Closers == {"EndView", "Declare", "Restore", "DeclareVisible", "EndScope", "EndParentheses"}
           C(fn) == Call(fn, << >>, names)
<1>1. \A fn \in Closers : C(fn) \in PendingCalls
  BY CallType
<1>2. \A fn : C(fn).fn = fn /\ C(fn).names = names
  BY CallFields
<1> HIDE DEF C
<1>3. \A fn \in Closers : Fits(C(fn), s) => Lead(<<C(fn)>>, s, After(C(fn), s), Finds(C(fn), s))
  BY <1>1, LeadOne
<1>4. Lead(<<C("EndView")>>, s, ScopeOf(s.aliases, << >>, s.visible), {})
  <2> DEFINE c == C("EndView")
  <2>1. c.fn = "EndView" /\ c.names = names
    BY <1>2
  <2>2. <<c>> = <<C("EndView")>>
    OBVIOUS
  <2>3. Fits(c, s) => Lead(<<c>>, s, After(c, s), Finds(c, s))
    BY <1>3
  <2> HIDE DEF c
  <2>4. Fits(c, s) /\ After(c, s) = ScopeOf(s.aliases, << >>, s.visible) /\ Finds(c, s) = {}
    BY <2>1, Effect
  <2> QED  BY <2>2, <2>3, <2>4
<1>5. Lead(<<C("Declare")>>, s, ScopeOf(s.aliases \cup names, s.view, s.visible), {})
  <2> DEFINE c == C("Declare")
  <2>1. c.fn = "Declare" /\ c.names = names
    BY <1>2
  <2>2. <<c>> = <<C("Declare")>>
    OBVIOUS
  <2>3. Fits(c, s) => Lead(<<c>>, s, After(c, s), Finds(c, s))
    BY <1>3
  <2> HIDE DEF c
  <2>4. Fits(c, s) /\ After(c, s) = ScopeOf(s.aliases \cup names, s.view, s.visible) /\ Finds(c, s) = {}
    BY <2>1, Effect
  <2> QED  BY <2>2, <2>3, <2>4
<1>6. Lead(<<C("Restore")>>, s, ScopeOf(names, s.view, s.visible), {})
  <2> DEFINE c == C("Restore")
  <2>1. c.fn = "Restore" /\ c.names = names
    BY <1>2
  <2>2. <<c>> = <<C("Restore")>>
    OBVIOUS
  <2>3. Fits(c, s) => Lead(<<c>>, s, After(c, s), Finds(c, s))
    BY <1>3
  <2> HIDE DEF c
  <2>4. Fits(c, s) /\ After(c, s) = ScopeOf(names, s.view, s.visible) /\ Finds(c, s) = {}
    BY <2>1, Effect
  <2> QED  BY <2>2, <2>3, <2>4
<1>7. ASSUME s.visible # << >>
      PROVE  Lead(<<C("DeclareVisible")>>, s, Extended(s, names), {})
  <2> DEFINE c == C("DeclareVisible")
  <2>1. c.fn = "DeclareVisible" /\ c.names = names
    BY <1>2
  <2>2. <<c>> = <<C("DeclareVisible")>>
    OBVIOUS
  <2>3. Fits(c, s) => Lead(<<c>>, s, After(c, s), Finds(c, s))
    BY <1>3
  <2> HIDE DEF c
  <2>4. Fits(c, s) /\ After(c, s) = Extended(s, names) /\ Finds(c, s) = {}
    BY <1>7, <2>1, Effect
  <2> QED  BY <2>2, <2>3, <2>4
<1>8. ASSUME s.visible # << >>
      PROVE  Lead(<<C("EndScope")>>, s, ScopeOf(s.aliases, s.view, Tail(s.visible)), {})
  <2> DEFINE c == C("EndScope")
  <2>1. c.fn = "EndScope" /\ c.names = names
    BY <1>2
  <2>2. <<c>> = <<C("EndScope")>>
    OBVIOUS
  <2>3. Fits(c, s) => Lead(<<c>>, s, After(c, s), Finds(c, s))
    BY <1>3
  <2> HIDE DEF c
  <2>4. Fits(c, s) /\ After(c, s) = ScopeOf(s.aliases, s.view, Tail(s.visible)) /\ Finds(c, s) = {}
    BY <1>8, <2>1, Effect
  <2> QED  BY <2>2, <2>3, <2>4
<1>9. ASSUME s.visible # << >> /\ Tail(s.visible) # << >>
      PROVE  Lead(<<C("EndParentheses")>>, s, ScopeOf(s.aliases, s.view,
                             <<Head(s.visible) \cup Head(Tail(s.visible))>> \o Tail(Tail(s.visible))), {})
  <2> DEFINE c == C("EndParentheses")
  <2>1. c.fn = "EndParentheses" /\ c.names = names
    BY <1>2
  <2>2. <<c>> = <<C("EndParentheses")>>
    OBVIOUS
  <2>3. Fits(c, s) => Lead(<<c>>, s, After(c, s), Finds(c, s))
    BY <1>3
  <2> HIDE DEF c
  <2>4. Fits(c, s) /\ After(c, s) = ScopeOf(s.aliases, s.view,
                             <<Head(s.visible) \cup Head(Tail(s.visible))>> \o Tail(Tail(s.visible))) /\ Finds(c, s) = {}
    BY <1>9, <2>1, Effect
  <2> QED  BY <2>2, <2>3, <2>4
<1> QED  BY <1>4, <1>5, <1>6, <1>7, <1>8, <1>9 DEF C

LEMMA FreeInBoth ==
  ASSUME NEW S, NEW a \in Seq(S), NEW b \in Seq(S), NEW env, NEW f
  PROVE  FreeInEach(a \o b, env, f) = FreeInEach(a, env, f) \cup FreeInEach(b, env, f)
<1> DEFINE m == Len(a)
           n == Len(b)
           both == a \o b
<1>1. /\ m \in Nat /\ n \in Nat
      /\ DOMAIN a = 1 .. m /\ DOMAIN b = 1 .. n /\ DOMAIN both = 1 .. m + n
      /\ \A i \in 1 .. m + n : both[i] = IF i <= m THEN a[i] ELSE b[i - m]
  BY ConcatProperties
<1> HIDE DEF m, n, both
<1>2. \A i \in 1 .. m : i \in 1 .. m + n /\ both[i] = a[i]
  BY <1>1
<1>3. \A i \in 1 .. n : m + i \in 1 .. m + n /\ both[m + i] = b[i]
  <2>1. SUFFICES ASSUME NEW i \in 1 .. n PROVE m + i \in 1 .. m + n /\ both[m + i] = b[i]
    OBVIOUS
  <2>2. m + i \in 1 .. m + n /\ ~ (m + i <= m) /\ (m + i) - m = i
    BY <1>1
  <2> QED  BY <1>1, <2>2
<1>4. \A i \in 1 .. m + n : i \in 1 .. m \/ \E j \in 1 .. n : i = m + j
  <2>1. SUFFICES ASSUME NEW i \in 1 .. m + n, i \notin 1 .. m PROVE \E j \in 1 .. n : i = m + j
    OBVIOUS
  <2>2. i - m \in 1 .. n /\ i = m + (i - m)
    BY <1>1, <2>1
  <2> QED  BY <2>2
<1>5. {f[both[i]][env] : i \in 1 .. m + n}
        = {f[a[i]][env] : i \in 1 .. m} \cup {f[b[i]][env] : i \in 1 .. n}
  BY <1>2, <1>3, <1>4
<1> QED  BY <1>1, <1>5 DEF FreeInEach, both

-----------------------------------------------------------------------------
(* What the calls of a handler find is what is free in its node.           *)

LEMMA PushedScope ==
  ASSUME NEW s \in Scopes, NEW names \in SUBSET Identifiers
  PROVE  LET pushed == ScopeOf(s.aliases, s.view, <<names>> \o s.visible)
         IN  /\ pushed \in Scopes
             /\ pushed.visible # << >> /\ Head(pushed.visible) = names /\ Tail(pushed.visible) = s.visible
             /\ pushed.aliases = s.aliases /\ pushed.view = s.view
<1> DEFINE v == <<names>> \o s.visible
<1>1. /\ v \in Seq(SUBSET Identifiers) /\ v # << >> /\ Head(v) = names /\ Tail(v) = s.visible
  BY ScopeType, PushProperties
<1> HIDE DEF v
<1>2. /\ ScopeOf(s.aliases, s.view, v) \in Scopes
      /\ ScopeOf(s.aliases, s.view, v).aliases = s.aliases
      /\ ScopeOf(s.aliases, s.view, v).view = s.view
      /\ ScopeOf(s.aliases, s.view, v).visible = v
  BY <1>1, ScopeType, ScopeOfType
<1> QED  BY <1>1, <1>2 DEF v

LEMMA EnvFields ==
  ASSUME NEW s, NEW names
  PROVE  /\ Env(s, names).W = s.aliases /\ Env(s, names).R = names
         /\ Env(s, names).L = names /\ Env(s, names).V = Named(s.view)
         /\ TableEnv(s, names).W = s.aliases /\ TableEnv(s, names).R = names
         /\ TableEnv(s, names).L = Head(s.visible) /\ TableEnv(s, names).V = Named(s.view)
         /\ \A m : Among(Env(s, names), m) = Env(s, m) /\ Among(TableEnv(s, names), m) = Env(s, m)
BY DEF Env, TableEnv, Among, Environment, InFrom

LEMMA SelectMakes ==
  ASSUME NEW s \in Scopes, NEW names \in SUBSET Identifiers,
         NEW expr \in QueryExpressions, expr.kind = "select", NEW order \in Seq(Queries)
  PROVE  Lead(Calls("FindInTableExpression", expr.from, names)
                \o <<Call("Expressions", expr.exprs \o order, {}), Call("EndScope", << >>, {})>>,
              ScopeOf(s.aliases, s.view, <<names>> \o s.visible), s,
              Free[expr][Env(s, names)]
                \cup FreeInEach(order, Env(s, names \cup Variables(expr)), Free))
<1> DEFINE t == ScopeOf(s.aliases, s.view, <<names>> \o s.visible)
           D == DeclaredIn(expr.from)
           u == Extended(t, D)
           exprs == expr.exprs \o order
<1>1. /\ t \in Scopes /\ t.visible # << >> /\ Head(t.visible) = names
      /\ Tail(t.visible) = s.visible /\ t.aliases = s.aliases /\ t.view = s.view
  BY PushedScope
<1>2. /\ expr.from \in Seq(TableExpressions) /\ Len(expr.from) <= 1
      /\ expr.exprs \in Seq(Queries)
  BY SelectSyntax DEF Trees
<1> HIDE DEF t
<1>3. /\ D \in SUBSET Identifiers
      /\ Lead(Calls("FindInTableExpression", expr.from, names), t, u,
              FreeInEach(expr.from, TableEnv(t, names), Free))
  BY <1>1, <1>2, LeadFrom
<1>4. TableEnv(t, names) = Env(s, names)
  BY <1>1 DEF TableEnv, Env, Environment
<1>5. /\ u \in Scopes /\ u.visible # << >> /\ Head(u.visible) = names \cup D
      /\ Tail(u.visible) = s.visible /\ u.aliases = s.aliases /\ u.view = s.view
  BY <1>1, <1>3, ExtendedType
<1>6. exprs \in Seq(Queries)
  BY <1>2
<1> HIDE DEF D, u, exprs
<1>7. Lead(<<Call("Expressions", exprs, {})>>, u, u, FreeInEach(exprs, Env(u, names \cup D), Free))
  BY <1>5, <1>6, LeadExpressions
<1>8. Env(u, names \cup D) = Env(s, names \cup D)
  BY <1>5 DEF Env
<1>9. Lead(<<Call("EndScope", << >>, {})>>, u, s, {})
  <2>1. s = ScopeOf(u.aliases, u.view, Tail(u.visible))
    BY <1>5, ScopeType
  <2>2. {} \in SUBSET Identifiers
    OBVIOUS
  <2> QED  BY <1>5, <2>1, <2>2, LeadCloser
<1>10. Lead(<<Call("Expressions", exprs, {}), Call("EndScope", << >>, {})>>, u, s,
            FreeInEach(exprs, Env(s, names \cup D), Free) \cup {})
  BY <1>7, <1>8, <1>9, LeadTwo
<1>11. Lead(Calls("FindInTableExpression", expr.from, names)
              \o <<Call("Expressions", exprs, {}), Call("EndScope", << >>, {})>>, t, s,
            FreeInEach(expr.from, Env(s, names), Free)
              \cup (FreeInEach(exprs, Env(s, names \cup D), Free) \cup {}))
  BY <1>3, <1>4, <1>10, LeadOn
<1>12. FreeInEach(exprs, Env(s, names \cup D), Free)
         = FreeInEach(expr.exprs, Env(s, names \cup D), Free) \cup FreeInEach(order, Env(s, names \cup D), Free)
  BY <1>2, FreeInBoth DEF exprs
<1>13. Free[expr][Env(s, names)]
         = FreeInEach(expr.from, Env(s, names), Free)
             \cup FreeInEach(expr.exprs, Env(s, names \cup D), Free)
  <2>1. Free[expr][Env(s, names)] = FreeIn(expr, Env(s, names), Free)
    BY EnvironmentType, FreeUnfolds DEF Trees
  <2>2. FreeIn(expr, Env(s, names), Free)
          = FreeInEach(expr.from, Env(s, names), Free)
              \cup FreeInEach(expr.exprs, Among(Env(s, names), Env(s, names).R \cup DeclaredIn(expr.from)), Free)
    BY DEF FreeIn
  <2>3. Env(s, names).R = names /\ Among(Env(s, names), names \cup D) = Env(s, names \cup D)
    BY EnvFields
  <2> QED  BY <2>1, <2>2, <2>3 DEF D
<1>14. Variables(expr) = D
  BY DEF Variables, D
<1>15. Free[expr][Env(s, names)] \cup FreeInEach(order, Env(s, names \cup Variables(expr)), Free)
         = FreeInEach(expr.from, Env(s, names), Free)
             \cup (FreeInEach(exprs, Env(s, names \cup D), Free) \cup {})
  BY <1>12, <1>13, <1>14
<1> QED  BY <1>11, <1>15 DEF t, exprs

LEMMA SetMakes ==
  ASSUME NEW s \in Scopes, NEW names \in SUBSET Identifiers,
         NEW expr \in QueryExpressions, expr.kind = "set", NEW order \in Seq(Queries)
  PROVE  Lead(Calls("FindInQueryExpression",
                    [i \in DOMAIN expr.inputs |-> [expr |-> expr.inputs[i], order |-> << >>]], names)
                \o Calls("FindInQuery", order, names),
              s, s,
              Free[expr][Env(s, names)]
                \cup FreeInEach(order, Env(s, names \cup Variables(expr)), Free))
<1> DEFINE S == [expr : QueryExpressions, order : Seq(Queries)]
           n == Len(expr.inputs)
           nodes == [i \in DOMAIN expr.inputs |-> [expr |-> expr.inputs[i], order |-> << >>]]
           calls == Calls("FindInQueryExpression", nodes, names)
<1>1. /\ n \in Nat /\ DOMAIN expr.inputs = 1 .. n
      /\ \A i \in 1 .. n : expr.inputs[i] \in QueryExpressions
  BY SetSyntax DEF Trees
<1>2. << >> \in Seq(Queries)
  OBVIOUS
<1>3. \A i \in 1 .. n : [expr |-> expr.inputs[i], order |-> << >>] \in S
  BY <1>1, <1>2
<1>4. nodes = [i \in 1 .. n |-> [expr |-> expr.inputs[i], order |-> << >>]]
  BY <1>1
<1>5. \A i \in 1 .. n : nodes[i] = [expr |-> expr.inputs[i], order |-> << >>]
  BY <1>4
<1>6. nodes \in Seq(S) /\ Len(nodes) = n
  <2> HIDE DEF S, n
  <2> QED  BY <1>1, <1>3, <1>4, IsASeq
<1>7. \A node \in S : Call("FindInQueryExpression", node, names) \in PendingCalls
  BY CallType
<1> HIDE DEF S, n, nodes
<1>8. /\ calls \in Seq(PendingCalls) /\ Len(calls) = n
      /\ \A i \in 1 .. n : calls[i] = Call("FindInQueryExpression", nodes[i], names)
  BY <1>6, <1>7, CallsType
<1> HIDE DEF calls
<1>9. ASSUME NEW i \in 1 .. n
      PROVE  /\ Fits(calls[i], s) /\ After(calls[i], s) = s
             /\ Finds(calls[i], s) = Free[expr.inputs[i]][Env(s, names)]
  <2> DEFINE input == expr.inputs[i]
             node == [expr |-> input, order |-> << >>]
  <2>1. calls[i] = Call("FindInQueryExpression", node, names)
    BY <1>5, <1>8
  <2>2. node \in S
    BY <1>3
  <2>3. node.expr = input /\ node.order = << >>
    OBVIOUS
  <2> HIDE DEF input, node
  <2> DEFINE c == calls[i]
  <2>4. c.fn = "FindInQueryExpression" /\ c.node = node /\ c.names = names
    BY <2>1, CallFields
  <2> HIDE DEF c
  <2>5. FreeInEach(<< >>, Env(s, names \cup Variables(input)), Free) = {}
    BY DEF FreeInEach
  <2>6. Fits(c, s)
    BY <2>2, <2>4, Effect DEF S
  <2>7. After(c, s) = s
    BY <2>4, Effect
  <2>8. Finds(c, s) = Free[node.expr][Env(s, names)]
                        \cup FreeInEach(node.order, Env(s, names \cup Variables(node.expr)), Free)
    BY <2>4, Effect
  <2>9. Finds(c, s) = Free[input][Env(s, names)]
    BY <2>3, <2>5, <2>8
  <2> QED  BY <2>6, <2>7, <2>9 DEF c, input
<1>10. UNION {Finds(calls[i], s) : i \in 1 .. n} = FreeInEach(expr.inputs, Env(s, names), Free)
  <2>1. {Finds(calls[i], s) : i \in 1 .. n} = {Free[expr.inputs[i]][Env(s, names)] : i \in 1 .. n}
    BY <1>9
  <2> QED  BY <1>1, <2>1 DEF FreeInEach
<1>11. Lead(calls, s, s, FreeInEach(expr.inputs, Env(s, names), Free))
  BY <1>8, <1>9, <1>10, LeadAround
<1>12. Lead(calls \o Calls("FindInQuery", order, names), s, s,
            FreeInEach(expr.inputs, Env(s, names), Free) \cup FreeInEach(order, Env(s, names), Free))
  BY <1>11, LeadQueries, LeadOn
<1>13. Free[expr][Env(s, names)] = FreeInEach(expr.inputs, Env(s, names), Free)
  <2>1. Free[expr][Env(s, names)] = FreeIn(expr, Env(s, names), Free)
    BY EnvironmentType, FreeUnfolds DEF Trees
  <2> QED  BY <2>1 DEF FreeIn
<1>14. names \cup Variables(expr) = names
  BY DEF Variables
<1> QED  BY <1>12, <1>13, <1>14 DEF calls, nodes

LEMMA ParenthesizedQueryMakes ==
  ASSUME NEW s \in Scopes, NEW names \in SUBSET Identifiers,
         NEW expr \in QueryExpressions, expr.kind = "query", NEW order \in Seq(Queries)
  PROVE  Lead(<<Call("FindInQuery", expr, names)>> \o Calls("FindInQuery", order, names), s, s,
              Free[expr][Env(s, names)]
                \cup FreeInEach(order, Env(s, names \cup Variables(expr)), Free))
<1>1. expr \in Queries
  BY DEF Queries
<1>2. names \cup Variables(expr) = names
  BY DEF Variables
<1>3. Lead(<<Call("FindInQuery", expr, names)>>, s, s, Free[expr][Env(s, names)])
  BY <1>1, LeadQuery
<1> QED  BY <1>2, <1>3, LeadQueries, LeadOn

\* The entries of WITH and what declares them, in turn.
LEMMA Halves ==
  ASSUME NEW n \in Nat, NEW j \in 1 .. 2 * n
  PROVE  \E i \in 1 .. n : \/ /\ j = 2 * i - 1 /\ j % 2 = 1 /\ (j + 1) \div 2 = i
                              /\ (j - 1) \div 2 = i - 1 /\ ((j + 1) - 1) \div 2 = i - 1
                           \/ /\ j = 2 * i /\ j % 2 = 0 /\ j \div 2 = i
                              /\ (j - 1) \div 2 = i - 1 /\ ((j + 1) - 1) \div 2 = i
<1>1. CASE j % 2 = 1
  <2> DEFINE i == (j + 1) \div 2
  <2>1. /\ i \in 1 .. n /\ j = 2 * i - 1
        /\ (j - 1) \div 2 = i - 1 /\ ((j + 1) - 1) \div 2 = i - 1
    BY <1>1
  <2> QED  BY <1>1, <2>1
<1>2. CASE j % 2 # 1
  <2> DEFINE i == j \div 2
  <2>1. /\ i \in 1 .. n /\ j = 2 * i /\ j % 2 = 0
        /\ (j - 1) \div 2 = i - 1 /\ ((j + 1) - 1) \div 2 = i
    BY <1>2
  <2> QED  BY <1>2, <2>1
<1> QED  BY <1>1, <1>2

\* The calls C, each of which finds F in the scope it is made in, and the calls
\* D, each of which leads from one of the scopes At to the next.
Alternate(n, C, D, At, F) ==
  /\ n \in Nat /\ C \in Seq(PendingCalls) /\ Len(C) = n
  /\ \A i \in 0 .. n : At[i] \in Scopes
  /\ \A i \in 1 .. n : /\ C[i] \in PendingCalls /\ Fits(C[i], At[i - 1])
                       /\ After(C[i], At[i - 1]) = At[i - 1]
                       /\ Finds(C[i], At[i - 1]) = F[i]
  /\ \A i \in 1 .. n : /\ D[i] \in PendingCalls /\ Fits(D[i], At[i - 1])
                       /\ After(D[i], At[i - 1]) = At[i]
                       /\ Finds(D[i], At[i - 1]) = {}

AllOf(n, F) == UNION {F[i] : i \in 1 .. n}

LEMMA LeadInTurn ==
  ASSUME NEW n, NEW C, NEW D, NEW At, NEW F, Alternate(n, C, D, At, F)
  PROVE  Lead(InTurn(C, D), At[0], At[n], AllOf(n, F))
<1> DEFINE calls == [j \in 1 .. 2 * n |-> IF j % 2 = 1 THEN C[(j + 1) \div 2] ELSE D[j \div 2]]
           path == [j \in 1 .. 2 * n + 1 |-> At[(j - 1) \div 2]]
           Kept(j, i) == /\ calls[j] = C[i] /\ path[j] = At[i - 1] /\ path[j + 1] = At[i - 1]
           Declared(j, i) == /\ calls[j] = D[i] /\ path[j] = At[i - 1] /\ path[j + 1] = At[i]
<1>0. n \in Nat
  BY DEF Alternate
<1>1. \A j \in 1 .. 2 * n : \E i \in 1 .. n : Kept(j, i) \/ Declared(j, i)
  <2>1. SUFFICES ASSUME NEW j \in 1 .. 2 * n
                 PROVE  \E i \in 1 .. n : Kept(j, i) \/ Declared(j, i)
    OBVIOUS
  <2>2. PICK i \in 1 .. n : \/ /\ j = 2 * i - 1 /\ j % 2 = 1 /\ (j + 1) \div 2 = i
                               /\ (j - 1) \div 2 = i - 1 /\ ((j + 1) - 1) \div 2 = i - 1
                            \/ /\ j = 2 * i /\ j % 2 = 0 /\ j \div 2 = i
                               /\ (j - 1) \div 2 = i - 1 /\ ((j + 1) - 1) \div 2 = i
    BY <1>0, Halves
  <2>3. j \in 1 .. 2 * n + 1 /\ j + 1 \in 1 .. 2 * n + 1
    BY <1>0
  <2>4. /\ calls[j] = IF j % 2 = 1 THEN C[(j + 1) \div 2] ELSE D[j \div 2]
        /\ path[j] = At[(j - 1) \div 2] /\ path[j + 1] = At[((j + 1) - 1) \div 2]
    BY <2>3
  <2> HIDE DEF calls, path
  <2>5. Kept(j, i) \/ Declared(j, i)
    <3>1. CASE j % 2 = 1
      <4>1. (j + 1) \div 2 = i /\ (j - 1) \div 2 = i - 1 /\ ((j + 1) - 1) \div 2 = i - 1
        BY <2>2, <3>1
      <4> QED  BY <2>4, <3>1, <4>1
    <3>2. CASE j % 2 # 1
      <4>1. j \div 2 = i /\ (j - 1) \div 2 = i - 1 /\ ((j + 1) - 1) \div 2 = i
        BY <2>2, <3>2
      <4> QED  BY <2>4, <3>2, <4>1
    <3> QED  BY <3>1, <3>2
  <2> QED  BY <2>5
<1>2. \A i \in 1 .. n : \E j \in 1 .. 2 * n : Kept(j, i)
  <2>1. SUFFICES ASSUME NEW i \in 1 .. n PROVE Kept(2 * i - 1, i) /\ 2 * i - 1 \in 1 .. 2 * n
    OBVIOUS
  <2>2. /\ 2 * i - 1 \in 1 .. 2 * n /\ 2 * i - 1 \in 1 .. 2 * n + 1
        /\ (2 * i - 1) + 1 \in 1 .. 2 * n + 1
        /\ (2 * i - 1) % 2 = 1 /\ ((2 * i - 1) + 1) \div 2 = i
        /\ ((2 * i - 1) - 1) \div 2 = i - 1 /\ (((2 * i - 1) + 1) - 1) \div 2 = i - 1
    BY <1>0
  <2> QED  BY <2>2
<1>3. \A j \in 1 .. 2 * n + 1 : path[j] \in Scopes
  <2>1. \A j \in 1 .. 2 * n + 1 : (j - 1) \div 2 \in 0 .. n
    BY <1>0
  <2> QED  BY <2>1 DEF Alternate
<1>4. path[1] = At[0] /\ path[2 * n + 1] = At[n]
  <2>1. /\ 1 \in 1 .. 2 * n + 1 /\ 2 * n + 1 \in 1 .. 2 * n + 1
        /\ (1 - 1) \div 2 = 0 /\ ((2 * n + 1) - 1) \div 2 = n
    BY <1>0
  <2> QED  BY <2>1
<1>5. path \in [1 .. 2 * n + 1 -> Scopes]
  BY <1>3
<1>6. \A j \in 1 .. 2 * n : calls[j] \in PendingCalls
  <2> HIDE DEF calls, path
  <2> QED  BY <1>1 DEF Alternate
<1>7. calls \in Seq(PendingCalls) /\ Len(calls) = 2 * n
  BY <1>0, <1>6, IsASeq
<1> HIDE DEF calls, path
<1>8. \A j \in 1 .. 2 * n : Fits(calls[j], path[j]) /\ path[j + 1] = After(calls[j], path[j])
  <2>1. SUFFICES ASSUME NEW j \in 1 .. 2 * n
                 PROVE  Fits(calls[j], path[j]) /\ path[j + 1] = After(calls[j], path[j])
    OBVIOUS
  <2>2. PICK i \in 1 .. n : Kept(j, i) \/ Declared(j, i)
    BY <1>1
  <2>3. /\ Fits(C[i], At[i - 1]) /\ After(C[i], At[i - 1]) = At[i - 1]
        /\ Fits(D[i], At[i - 1]) /\ After(D[i], At[i - 1]) = At[i]
    BY DEF Alternate
  <2>4. CASE Kept(j, i)
    BY <2>3, <2>4
  <2>5. CASE Declared(j, i)
    BY <2>3, <2>5
  <2> QED  BY <2>2, <2>4, <2>5
<1>9. UNION {F[i] : i \in 1 .. n} = UNION {Finds(calls[j], path[j]) : j \in 1 .. 2 * n}
  <2>1. \A j \in 1 .. 2 * n : Finds(calls[j], path[j]) = {}
                                \/ \E i \in 1 .. n : Finds(calls[j], path[j]) = F[i]
    <3>1. SUFFICES ASSUME NEW j \in 1 .. 2 * n
                   PROVE  \/ Finds(calls[j], path[j]) = {}
                          \/ \E i \in 1 .. n : Finds(calls[j], path[j]) = F[i]
      OBVIOUS
    <3>2. PICK i \in 1 .. n : Kept(j, i) \/ Declared(j, i)
      BY <1>1
    <3> QED  BY <3>2 DEF Alternate
  <2>2. \A i \in 1 .. n : \E j \in 1 .. 2 * n : F[i] = Finds(calls[j], path[j])
    <3>1. SUFFICES ASSUME NEW i \in 1 .. n PROVE \E j \in 1 .. 2 * n : F[i] = Finds(calls[j], path[j])
      OBVIOUS
    <3>2. PICK j \in 1 .. 2 * n : Kept(j, i)
      BY <1>2
    <3>3. Finds(C[i], At[i - 1]) = F[i]
      BY DEF Alternate
    <3> QED  BY <3>2, <3>3
  <2> DEFINE I == 1 .. n
             J == 1 .. 2 * n
             G(j) == Finds(calls[j], path[j])
  <2>3. /\ \A j \in J : G(j) = {} \/ \E i \in I : G(j) = F[i]
        /\ \A i \in I : \E j \in J : F[i] = G(j)
    BY <2>1, <2>2
  <2> HIDE DEF I, J, G
  <2>4. UNION {F[i] : i \in I} = UNION {G(j) : j \in J}
    BY <2>3
  <2> QED  BY <2>4 DEF I, J, G
<1>10. Path(calls, path, At[0], At[n], UNION {F[i] : i \in 1 .. n})
  BY <1>4, <1>5, <1>7, <1>8, <1>9 DEF Path
<1>11. InTurn(C, D) = calls
  BY DEF InTurn, calls, Alternate
<1> QED  BY <1>7, <1>10, <1>11 DEF Lead, AllOf

\* The calls of FindInQuery for the entries of WITH, and the scope inside of it.
Entries(query, names) ==
  Calls("FindInQuery", [i \in DOMAIN query.with |-> query.with[i].query], names)
Declarations(query) ==
  [i \in DOMAIN query.with |-> Call("Declare", << >>, {Lower[query.with[i].alias]})]
AliasesOf(query, entries) == {Lower[query.with[i].alias] : i \in entries}
Inside(s, query, entries) ==
  ScopeOf(s.aliases \cup AliasesOf(query, entries), s.view, s.visible)
FreeInEntry(query, i, env) == Free[query.with[i].query][Seeing(EntriesSeen(query, i), query, env)]

LEMMA InsideType ==
  ASSUME NEW s \in Scopes, NEW query \in Queries, NEW entries \in SUBSET DOMAIN query.with,
         NEW names \in SUBSET Identifiers
  PROVE  /\ Inside(s, query, entries) \in Scopes
         /\ Inside(s, query, entries).aliases = s.aliases \cup AliasesOf(query, entries)
         /\ Inside(s, query, entries).view = s.view
         /\ Inside(s, query, entries).visible = s.visible
         /\ Env(Inside(s, query, entries), names) = Seeing(entries, query, Env(s, names))
<1> DEFINE A == AliasesOf(query, entries)
           t == Inside(s, query, entries)
<1>1. \A i \in entries : query.with[i].alias \in Identifiers
  BY QuerySyntax DEF Trees, Queries
<1>2. A \in SUBSET Identifiers
  BY <1>1, IdentifiersAssumption DEF AliasesOf
<1>3. /\ t \in Scopes /\ t.aliases = s.aliases \cup A /\ t.view = s.view /\ t.visible = s.visible
  <2> HIDE DEF A
  <2>1. s.aliases \cup A \in SUBSET Identifiers
    BY <1>2, ScopeType
  <2> QED  BY <2>1, ScopeType, ScopeOfType DEF Inside, A
<1>4. Env(t, names) = Environment(s.aliases \cup A, names, Named(s.view))
  BY <1>3 DEF Env
<1>5. Seeing(entries, query, Env(s, names)) = Environment(s.aliases \cup A, names, Named(s.view))
  <2>1. Env(s, names).W = s.aliases /\ Env(s, names).R = names /\ Env(s, names).V = Named(s.view)
    BY EnvFields
  <2> QED  BY <2>1 DEF Seeing, AliasesOf
<1> QED  BY <1>3, <1>4, <1>5

LEMMA EntryNodes ==
  ASSUME NEW query \in Queries
  PROVE  /\ Len(query.with) \in Nat /\ DOMAIN query.with = 1 .. Len(query.with)
         /\ \A i \in DOMAIN query.with : query.with[i].query \in Queries /\ query.with[i].alias \in Identifiers
         /\ [i \in DOMAIN query.with |-> query.with[i].query] \in Seq(Queries)
<1>1. /\ query.with \in Seq([alias : Identifiers, query : Queries])
      /\ \A i \in DOMAIN query.with : query.with[i].query \in Queries /\ query.with[i].alias \in Identifiers
  BY QuerySyntax DEF Trees, Queries
<1> DEFINE n == Len(query.with)
<1>2. n \in Nat /\ DOMAIN query.with = 1 .. n
  <2> DEFINE S == [alias : Identifiers, query : Queries]
             w == query.with
  <2>1. w \in Seq(S)
    BY <1>1
  <2> HIDE DEF S, w
  <2>2. Len(w) \in Nat /\ DOMAIN w = 1 .. Len(w)
    BY <2>1
  <2> QED  BY <2>2 DEF w
<1> HIDE DEF n
<1>3. [i \in 1 .. n |-> query.with[i].query] \in Seq(Queries)
  BY <1>1, <1>2, IsASeq
<1> QED  BY <1>1, <1>2, <1>3 DEF n

LEMMA EntriesTogether ==
  ASSUME NEW s \in Scopes, NEW query \in Queries, NEW names \in SUBSET Identifiers, query.recursive
  PROVE  LET r == Inside(s, query, DOMAIN query.with)
         IN  Lead(Entries(query, names), r, r,
                  UNION {FreeInEntry(query, i, Env(s, names)) : i \in DOMAIN query.with})
<1> DEFINE r == Inside(s, query, DOMAIN query.with)
           qs == [i \in DOMAIN query.with |-> query.with[i].query]
<1>1. r \in Scopes /\ Env(r, names) = Seeing(DOMAIN query.with, query, Env(s, names))
  BY InsideType
<1>2. qs \in Seq(Queries)
  BY EntryNodes
<1>3. FreeInEach(qs, Env(r, names), Free) = UNION {FreeInEntry(query, i, Env(s, names)) : i \in DOMAIN query.with}
  BY <1>1 DEF FreeInEach, FreeInEntry, EntriesSeen
<1> HIDE DEF r, qs
<1>4. Lead(Calls("FindInQuery", qs, names), r, r, FreeInEach(qs, Env(r, names), Free))
  BY <1>1, <1>2, LeadQueries
<1> QED  BY <1>3, <1>4 DEF r, qs, Entries

LEMMA EntriesInTurn ==
  ASSUME NEW s \in Scopes, NEW query \in Queries, NEW names \in SUBSET Identifiers, ~ query.recursive
  PROVE  Lead(InTurn(Entries(query, names), Declarations(query)), s,
              Inside(s, query, DOMAIN query.with),
              UNION {FreeInEntry(query, i, Env(s, names)) : i \in DOMAIN query.with})
<1> DEFINE n == Len(query.with)
           C == Entries(query, names)
           D == Declarations(query)
           At == [k \in 0 .. n |-> Inside(s, query, 1 .. k)]
           F == [i \in 1 .. n |-> FreeInEntry(query, i, Env(s, names))]
           qs == [i \in DOMAIN query.with |-> query.with[i].query]
<1>1. /\ n \in Nat /\ DOMAIN query.with = 1 .. n
      /\ \A i \in 1 .. n : query.with[i].query \in Queries /\ query.with[i].alias \in Identifiers
      /\ qs \in Seq(Queries)
  BY EntryNodes
<1>2. Len(qs) = n /\ \A i \in 1 .. n : qs[i] = query.with[i].query
  BY <1>1
<1>3. /\ C \in Seq(PendingCalls) /\ Len(C) = n
      /\ \A i \in 1 .. n : C[i] = Call("FindInQuery", query.with[i].query, names)
  <2>1. \A node \in Queries : Call("FindInQuery", node, names) \in PendingCalls
    BY CallType
  <2>2. C = Calls("FindInQuery", qs, names)
    BY DEF Entries
  <2> HIDE DEF qs, n, C
  <2> QED  BY <1>1, <1>2, <2>1, <2>2, CallsType
<1>4. \A i \in 1 .. n : D[i] = Call("Declare", << >>, {Lower[query.with[i].alias]})
  BY <1>1 DEF Declarations
<1>5. \A i \in 1 .. n : Lower[query.with[i].alias] \in Identifiers
  BY <1>1, IdentifiersAssumption
<1>6. \A k \in 0 .. n : /\ At[k] = Inside(s, query, 1 .. k)
                        /\ 1 .. k \in SUBSET DOMAIN query.with
  BY <1>1
<1>7. \A i \in 1 .. n : F[i] = FreeInEntry(query, i, Env(s, names))
  OBVIOUS
<1>9. \A k \in 0 .. n : At[k] \in Scopes
  <2> HIDE DEF n, At
  <2> QED  BY <1>6, InsideType
<1>10. AllOf(n, F) = UNION {FreeInEntry(query, i, Env(s, names)) : i \in DOMAIN query.with}
  BY <1>1, <1>7 DEF AllOf
<1> HIDE DEF n, C, D, At, F, qs
<1>11. ASSUME NEW i \in 1 .. n
       PROVE  /\ C[i] \in PendingCalls /\ Fits(C[i], At[i - 1])
              /\ After(C[i], At[i - 1]) = At[i - 1]
              /\ Finds(C[i], At[i - 1]) = F[i]
  <2>1. i - 1 \in 0 .. n
    BY <1>1
  <2> DEFINE t == At[i - 1]
             c == C[i]
             node == query.with[i].query
  <2>2. /\ t = Inside(s, query, 1 .. i - 1) /\ t \in Scopes
        /\ Env(t, names) = Seeing(1 .. i - 1, query, Env(s, names))
    BY <1>6, <2>1, InsideType
  <2>3. /\ c \in PendingCalls /\ node \in Queries
        /\ c.fn = "FindInQuery" /\ c.node = node /\ c.names = names
    BY <1>1, <1>3, CallType, CallFields
  <2>4. Free[node][Env(t, names)] = F[i]
    BY <1>7, <2>2 DEF FreeInEntry, EntriesSeen
  <2> HIDE DEF t, c, node
  <2>5. Fits(c, t) /\ After(c, t) = t /\ Finds(c, t) = Free[node][Env(t, names)]
    BY <2>3, Effect
  <2> QED  BY <2>3, <2>4, <2>5 DEF t, c
<1>12. ASSUME NEW i \in 1 .. n
       PROVE  /\ D[i] \in PendingCalls /\ Fits(D[i], At[i - 1])
              /\ After(D[i], At[i - 1]) = At[i]
              /\ Finds(D[i], At[i - 1]) = {}
  <2>1. i - 1 \in 0 .. n /\ i \in 0 .. n
    BY <1>1
  <2> DEFINE t == At[i - 1]
             c == D[i]
             alias == Lower[query.with[i].alias]
  <2>2. c \in PendingCalls /\ c.fn = "Declare" /\ c.names = {alias}
    <3>1. c = Call("Declare", << >>, {alias}) /\ {alias} \in SUBSET Identifiers
      BY <1>4, <1>5
    <3> HIDE DEF c, alias
    <3>2. Call("Declare", << >>, {alias}) \in PendingCalls
      BY <3>1, CallType
    <3> QED  BY <3>1, <3>2, CallFields
  <2>3. /\ t.aliases = s.aliases \cup AliasesOf(query, 1 .. i - 1)
        /\ t.view = s.view /\ t.visible = s.visible
    BY <1>6, <2>1, InsideType
  <2>4. At[i] = ScopeOf(s.aliases \cup AliasesOf(query, 1 .. i), s.view, s.visible)
    BY <1>6, <2>1 DEF Inside
  <2>5. AliasesOf(query, 1 .. i) = AliasesOf(query, 1 .. i - 1) \cup {alias}
    <3>1. 1 .. i = (1 .. i - 1) \cup {i}
      BY <1>1
    <3> QED  BY <3>1 DEF AliasesOf
  <2>6. (s.aliases \cup AliasesOf(query, 1 .. i - 1)) \cup {alias} = s.aliases \cup AliasesOf(query, 1 .. i)
    BY <2>5
  <2> HIDE DEF t, c, alias
  <2>7. Fits(c, t) /\ Finds(c, t) = {} /\ After(c, t) = ScopeOf(t.aliases \cup c.names, t.view, t.visible)
    BY <2>2, Effect
  <2>8. After(c, t) = At[i]
    BY <2>2, <2>3, <2>4, <2>6, <2>7
  <2> QED  BY <2>2, <2>7, <2>8 DEF t, c
<1>13. Lead(InTurn(C, D), At[0], At[n], AllOf(n, F))
  <2>1. Alternate(n, C, D, At, F)
    BY <1>1, <1>3, <1>9, <1>11, <1>12 DEF Alternate
  <2> QED  BY <2>1, LeadInTurn
<1>14. At[0] = s
  <2>1. AliasesOf(query, 1 .. 0) = {}
    BY DEF AliasesOf
  <2>2. s.aliases \cup {} = s.aliases
    OBVIOUS
  <2>3. At[0] = Inside(s, query, 1 .. 0)
    BY <1>1, <1>6
  <2> QED  BY <2>1, <2>2, <2>3, ScopeType DEF Inside
<1>15. At[n] = Inside(s, query, DOMAIN query.with)
  BY <1>1, <1>6
<1> QED  BY <1>10, <1>13, <1>14, <1>15 DEF C, D

LEMMA QueryMakes ==
  ASSUME NEW s \in Scopes, NEW names \in SUBSET Identifiers, NEW query \in Queries
  PROVE  Lead(((IF query.recursive THEN Entries(query, names)
                ELSE InTurn(Entries(query, names), Declarations(query)))
                \o <<Call("FindInQueryExpression", [expr |-> query.expr, order |-> query.order], names)>>)
                \o (IF query.with = << >> THEN << >> ELSE <<Call("Restore", << >>, s.aliases)>>),
              IF query.recursive THEN Inside(s, query, DOMAIN query.with) ELSE s, s,
              Free[query][Env(s, names)])
<1> DEFINE r == Inside(s, query, DOMAIN query.with)
           first == IF query.recursive THEN r ELSE s
           entries == IF query.recursive THEN Entries(query, names)
                      ELSE InTurn(Entries(query, names), Declarations(query))
           last == IF query.with = << >> THEN << >> ELSE <<Call("Restore", << >>, s.aliases)>>
           U == UNION {FreeInEntry(query, i, Env(s, names)) : i \in DOMAIN query.with}
           Q == Free[query.expr][Env(r, names)]
                  \cup FreeInEach(query.order, Env(r, names \cup Variables(query.expr)), Free)
<1>1. /\ r \in Scopes /\ r.view = s.view /\ r.visible = s.visible
      /\ Env(r, names) = Seeing(DOMAIN query.with, query, Env(s, names))
  BY InsideType
<1>2. Lead(entries, first, r, U)
  BY EntriesTogether, EntriesInTurn
<1>3. query.expr \in QueryExpressions /\ query.order \in Seq(Queries)
  BY QuerySyntax DEF Trees, Queries
<1>4. Lead(last, r, s, {})
  <2>1. CASE query.with = << >>
    <3>1. AliasesOf(query, DOMAIN query.with) = {}
      BY <2>1 DEF AliasesOf
    <3>2. r = s
      BY <3>1, ScopeType DEF Inside
    <3> QED  BY <2>1, <3>2, LeadNowhere
  <2>2. CASE query.with # << >>
    <3>1. s.aliases \in SUBSET Identifiers /\ s = ScopeOf(s.aliases, s.view, s.visible)
      BY ScopeType
    <3>2. Lead(<<Call("Restore", << >>, s.aliases)>>, r, ScopeOf(s.aliases, r.view, r.visible), {})
      BY <1>1, <3>1, LeadCloser
    <3> QED  BY <1>1, <2>2, <3>1, <3>2
  <2> QED  BY <2>1, <2>2
<1> HIDE DEF r, entries, last, first
<1>5. Lead(<<Call("FindInQueryExpression", [expr |-> query.expr, order |-> query.order], names)>>, r, r, Q)
  BY <1>1, <1>3, LeadQueryExpression
<1>6. Lead(entries \o <<Call("FindInQueryExpression", [expr |-> query.expr, order |-> query.order], names)>>,
           first, r, U \cup Q)
  BY <1>2, <1>5, LeadOn
<1>7. Lead((entries \o <<Call("FindInQueryExpression", [expr |-> query.expr, order |-> query.order], names)>>)
             \o last, first, s, (U \cup Q) \cup {})
  BY <1>4, <1>6, LeadOn
<1>8. Free[query][Env(s, names)] = U \cup Q
  <2> DEFINE env == Env(s, names)
             inside == Seeing(DOMAIN query.with, query, env)
             m == names \cup Variables(query.expr)
  <2>1. Free[query][env] = FreeIn(query, env, Free) /\ query.kind = "query"
    BY EnvironmentType, FreeUnfolds DEF Trees, Queries
  <2>2. FreeIn(query, env, Free) = FreeInQuery(query, env, Free)
    BY <2>1 DEF FreeIn
  <2>3. FreeInQuery(query, env, Free)
          = U \cup Free[query.expr][inside]
              \cup FreeInEach(query.order, Among(inside, env.R \cup Variables(query.expr)), Free)
    BY DEF FreeInQuery, FreeInEntry
  <2>4. env.R = names /\ inside = Env(r, names) /\ Among(Env(r, names), m) = Env(r, m)
    BY <1>1, EnvFields
  <2> QED  BY <2>1, <2>2, <2>3, <2>4
<1>9. (U \cup Q) \cup {} = U \cup Q
  OBVIOUS
<1> QED  BY <1>7, <1>8, <1>9 DEF entries, last, first, r

-----------------------------------------------------------------------------
LEMMA LeadDeclare ==
  ASSUME NEW s \in Scopes, s.visible # << >>, NEW alias \in SUBSET Identifiers
  PROVE  Lead(<<Call("DeclareVisible", << >>, alias)>>, s, Extended(s, alias), {})
BY LeadCloser

LEMMA PathMakes ==
  ASSUME NEW s \in Scopes, s.visible # << >>, NEW names \in SUBSET Identifiers,
         NEW table \in TableExpressions, table.kind = "path"
  PROVE  \E inner :
           /\ Lead(Calls("FindInQuery", table.exprs, Head(s.visible))
                     \o <<Call("DeclareVisible", << >>, Alias(table.alias, table.path))>>,
                   s, Extended(s, Declares[table]), inner)
           /\ Free[table][TableEnv(s, names)]
                = FreePath(table.path, s.aliases, Head(s.visible), Named(s.view)) \cup inner
<1> DEFINE alias == Alias(table.alias, table.path)
           inner == FreeInEach(table.exprs, Env(s, Head(s.visible)), Free)
<1>1. /\ table.exprs \in Seq(Queries) /\ alias \in SUBSET Identifiers
  BY PathSyntax, AliasType DEF Trees
<1>2. Declares[table] = alias
  BY DeclaresUnfolds DEF DeclaresBody
<1>3. Head(s.visible) \in SUBSET Identifiers
  BY ScopeType
<1>4. Free[table][TableEnv(s, names)]
        = FreePath(table.path, s.aliases, Head(s.visible), Named(s.view)) \cup inner
  <2>1. Free[table][TableEnv(s, names)] = FreeIn(table, TableEnv(s, names), Free)
    BY EnvironmentType, FreeUnfolds DEF Trees
  <2> DEFINE env == TableEnv(s, names)
  <2>2. FreeIn(table, env, Free)
          = FreePath(table.path, env.W, env.L, env.V) \cup FreeInEach(table.exprs, Among(env, env.L), Free)
    BY DEF FreeIn
  <2>3. env.W = s.aliases /\ env.L = Head(s.visible) /\ env.V = Named(s.view)
        /\ Among(env, Head(s.visible)) = Env(s, Head(s.visible))
    BY EnvFields
  <2> QED  BY <2>1, <2>2, <2>3
<1> HIDE DEF alias
<1>5. Lead(Calls("FindInQuery", table.exprs, Head(s.visible)), s, s, inner)
  BY <1>1, <1>3, LeadQueries
<1>6. Lead(<<Call("DeclareVisible", << >>, alias)>>, s, Extended(s, alias), {})
  BY <1>1, LeadDeclare
<1> HIDE DEF inner
<1>7. Lead(Calls("FindInQuery", table.exprs, Head(s.visible))
             \o <<Call("DeclareVisible", << >>, alias)>>, s, Extended(s, alias), inner \cup {})
  BY <1>5, <1>6, LeadOn
<1>8. inner \cup {} = inner
  OBVIOUS
<1> QED  BY <1>2, <1>4, <1>7, <1>8 DEF alias

LEMMA SubqueryMakes ==
  ASSUME NEW s \in Scopes, s.visible # << >>, NEW names \in SUBSET Identifiers,
         NEW table \in TableExpressions, table.kind = "subquery"
  PROVE  Lead(<<Call("FindInQuery", table.query, names)>>
                \o <<Call("DeclareVisible", << >>, Alias(table.alias, << >>))>>,
              s, Extended(s, Declares[table]), Free[table][TableEnv(s, names)])
<1> DEFINE alias == Alias(table.alias, << >>)
           inner == Free[table.query][Env(s, names)]
<1>1. table.query \in Queries /\ table.alias \in Seq(Identifiers) /\ << >> \in Seq(Identifiers)
  BY SubquerySyntax DEF Trees
<1>2. alias \in SUBSET Identifiers
  BY <1>1, AliasType
<1>3. Declares[table] = alias
  BY DeclaresUnfolds DEF DeclaresBody
<1>4. Free[table][TableEnv(s, names)] = inner
  <2>1. Free[table][TableEnv(s, names)] = FreeIn(table, TableEnv(s, names), Free)
    BY EnvironmentType, FreeUnfolds DEF Trees
  <2>2. FreeIn(table, TableEnv(s, names), Free)
          = Free[table.query][Among(TableEnv(s, names), TableEnv(s, names).R)]
    BY DEF FreeIn
  <2> QED  BY <2>1, <2>2, EnvFields
<1> HIDE DEF alias, inner
<1>5. Lead(<<Call("FindInQuery", table.query, names)>>, s, s, inner)
  BY <1>1, LeadQuery DEF inner
<1>6. Lead(<<Call("DeclareVisible", << >>, alias)>>, s, Extended(s, alias), {})
  BY <1>2, LeadDeclare
<1>7. Lead(<<Call("FindInQuery", table.query, names)>> \o <<Call("DeclareVisible", << >>, alias)>>,
           s, Extended(s, alias), inner \cup {})
  BY <1>5, <1>6, LeadOn
<1>8. inner \cup {} = inner
  OBVIOUS
<1> QED  BY <1>3, <1>4, <1>7, <1>8 DEF alias

LEMMA TvfMakes ==
  ASSUME NEW s \in Scopes, s.visible # << >>, NEW names \in SUBSET Identifiers,
         names \subseteq Head(s.visible),
         NEW table \in TableExpressions, table.kind = "tvf"
  PROVE  \E inner :
           /\ Lead(Calls("FindInQuery", table.exprs, Head(s.visible))
                     \o Calls("FindInTableExpression", table.inner, names),
                   s, Extended(s, Declares[table]), inner)
           /\ Free[table][TableEnv(s, names)]
                = (UNION {FreePath(path, s.aliases, {}, Named(s.view)) : path \in table.tables}) \cup inner
<1> DEFINE env == TableEnv(s, names)
           calls == Calls("FindInTableExpression", table.inner, names)
           n == Len(table.inner)
           E == FreeInEach(table.exprs, Env(s, Head(s.visible)), Free)
           I == FreeInEach(table.inner, env, Free)
<1>1. /\ table.exprs \in Seq(Queries) /\ table.inner \in Seq(Functions)
      /\ Head(s.visible) \in SUBSET Identifiers
  BY TvfSyntax, ScopeType DEF Trees
<1>2. Declares[table] = {}
  BY DeclaresUnfolds DEF DeclaresBody
<1>3. Free[table][env]
        = (UNION {FreePath(path, s.aliases, {}, Named(s.view)) : path \in table.tables}) \cup (E \cup I)
  <2>1. Free[table][env] = FreeIn(table, env, Free)
    BY EnvironmentType, FreeUnfolds DEF Trees
  <2>2. FreeIn(table, env, Free)
          = (UNION {FreePath(path, env.W, {}, env.V) : path \in table.tables})
              \cup FreeInEach(table.exprs, Among(env, env.L), Free)
              \cup FreeInEach(table.inner, env, Free)
    BY DEF FreeIn
  <2>3. env.W = s.aliases /\ env.L = Head(s.visible) /\ env.V = Named(s.view)
        /\ Among(env, Head(s.visible)) = Env(s, Head(s.visible))
    BY EnvFields
  <2> QED  BY <2>1, <2>2, <2>3
<1>4. /\ calls \in Seq(PendingCalls) /\ Len(calls) = n
      /\ \A i \in 1 .. n : calls[i] = Call("FindInTableExpression", table.inner[i], names)
  <2>1. \A node \in Functions : Call("FindInTableExpression", node, names) \in PendingCalls
    BY CallType DEF Functions
  <2> QED  BY <1>1, <2>1, CallsType
<1>5. DOMAIN table.inner = 1 .. n /\ \A i \in 1 .. n : table.inner[i] \in Functions
  BY <1>1
<1> HIDE DEF calls, n
<1>6. ASSUME NEW i \in 1 .. n
      PROVE  /\ Fits(calls[i], s) /\ After(calls[i], s) = s
             /\ Finds(calls[i], s) = Free[table.inner[i]][env]
  <2> DEFINE c == calls[i]
             node == table.inner[i]
  <2>1. c.fn = "FindInTableExpression" /\ c.node = node /\ c.names = names
    BY <1>4, CallFields
  <2>2. node \in TableExpressions /\ node.kind = "tvf"
    BY <1>5 DEF Functions
  <2> HIDE DEF c, node
  <2>3. Declares[node] = {}
    BY <2>2, DeclaresUnfolds DEF DeclaresBody
  <2>4. Extended(s, {}) = s
    BY ExtendedByNothing
  <2>5. Fits(c, s)
    BY <2>1, <2>2, Effect
  <2>6. After(c, s) = Extended(s, Declares[node]) /\ Finds(c, s) = Free[node][TableEnv(s, names)]
    BY <2>1, Effect
  <2> QED  BY <2>3, <2>4, <2>5, <2>6 DEF c, node
<1>7. UNION {Finds(calls[i], s) : i \in 1 .. n} = I
  <2>1. {Finds(calls[i], s) : i \in 1 .. n} = {Free[table.inner[i]][env] : i \in 1 .. n}
    BY <1>6
  <2> QED  BY <1>5, <2>1 DEF FreeInEach
<1>8. Lead(calls, s, s, I)
  BY <1>4, <1>6, <1>7, LeadAround
<1>9. Lead(Calls("FindInQuery", table.exprs, Head(s.visible)), s, s, E)
  BY <1>1, LeadQueries
<1> HIDE DEF E, I, env
<1>10. Lead(Calls("FindInQuery", table.exprs, Head(s.visible)) \o calls, s, s, E \cup I)
  BY <1>8, <1>9, LeadOn
<1>11. Extended(s, Declares[table]) = s
  BY <1>2, ExtendedByNothing
<1> QED  BY <1>3, <1>10, <1>11 DEF calls, env

LEMMA LeadJoin ==
  ASSUME NEW s \in Scopes, s.visible # << >>, NEW names \in SUBSET Identifiers,
         names \subseteq Head(s.visible),
         NEW join \in TableExpressions, join.kind \in {"join", "parenthesized"}
  PROVE  Lead(JoinCalls(join, names), s, Extended(s, Declares[join]),
              FreeInJoin(join, TableEnv(s, names), Free))
<1> DEFINE L == Declares[join.lhs]
           R == Declares[join.rhs]
           t == Extended(s, L)
           u == Extended(t, R)
           c == Call("FindInTableExpression", join.lhs, names)
           d == Call("FindInTableExpression", join.rhs, names)
           env == TableEnv(s, names)
           after == Head(s.visible) \cup L
           F == Free[join.lhs][env]
           G == Free[join.rhs][InFrom(s.aliases, names, after, Named(s.view))]
           H == FreeInEach(join.on, Env(s, after \cup R), Free)
<1>1. join.lhs \in TableExpressions /\ join.rhs \in TableExpressions /\ join.on \in Seq(Queries)
  BY JoinSyntax DEF Trees
<1>2. L \in SUBSET Identifiers /\ R \in SUBSET Identifiers
  BY <1>1, DeclaresType
<1>3. Declares[join] = L \cup R
  BY DeclaresUnfolds DEF DeclaresBody
<1>4. FreeInJoin(join, env, Free) = F \cup G \cup H
  <2>1. FreeInJoin(join, env, Free)
          = Free[join.lhs][env]
              \cup Free[join.rhs][InFrom(env.W, env.R, env.L \cup L, env.V)]
              \cup FreeInEach(join.on, Among(env, (env.L \cup L) \cup R), Free)
    BY DEF FreeInJoin
  <2>2. env.W = s.aliases /\ env.R = names /\ env.L = Head(s.visible) /\ env.V = Named(s.view)
        /\ Among(env, after \cup R) = Env(s, after \cup R)
    BY EnvFields
  <2> QED  BY <2>1, <2>2
<1>5. Calls("FindInTableExpression", <<join.lhs, join.rhs>>, names) = <<c, d>>
  <2> DEFINE nodes == <<join.lhs, join.rhs>>
             calls == Calls("FindInTableExpression", nodes, names)
             pair == <<c, d>>
  <2>1. nodes \in Seq(TableExpressions) /\ Len(nodes) = 2 /\ nodes[1] = join.lhs /\ nodes[2] = join.rhs
    BY <1>1
  <2>2. \A node \in TableExpressions : Call("FindInTableExpression", node, names) \in PendingCalls
    BY CallType
  <2> HIDE DEF nodes
  <2>3. /\ calls \in Seq(PendingCalls) /\ Len(calls) = 2
        /\ \A i \in 1 .. 2 : calls[i] = Call("FindInTableExpression", nodes[i], names)
    BY <2>1, <2>2, CallsType
  <2>4. c \in PendingCalls /\ d \in PendingCalls
    BY <1>1, <2>2
  <2>5. calls[1] = c /\ calls[2] = d
    BY <2>1, <2>3
  <2> HIDE DEF calls, c, d
  <2>6. pair \in Seq(PendingCalls) /\ Len(pair) = 2 /\ pair[1] = c /\ pair[2] = d
    BY <2>4
  <2> HIDE DEF pair
  <2>7. \A i \in 1 .. Len(calls) : calls[i] = pair[i]
    BY <2>3, <2>5, <2>6
  <2>8. calls = pair
    BY <2>3, <2>6, <2>7, SeqEqual
  <2> QED  BY <2>8 DEF calls, pair, nodes
<1> HIDE DEF L, R
<1>6. /\ t \in Scopes /\ t.visible # << >> /\ Head(t.visible) = after
      /\ t.aliases = s.aliases /\ t.view = s.view
  BY <1>2, ExtendedType
<1>7. Lead(<<c>>, s, t, F)
  BY <1>1, LeadTable DEF L
<1> HIDE DEF t
<1>8. /\ u \in Scopes /\ u.visible # << >> /\ Head(u.visible) = after \cup R
      /\ u.aliases = s.aliases /\ u.view = s.view
  BY <1>2, <1>6, ExtendedType
<1>9. Lead(<<d>>, t, u, G)
  <2>1. TableEnv(t, names) = InFrom(s.aliases, names, after, Named(s.view))
    BY <1>6 DEF TableEnv
  <2>2. names \subseteq Head(t.visible)
    BY <1>6
  <2>3. Lead(<<d>>, t, Extended(t, Declares[join.rhs]), Free[join.rhs][TableEnv(t, names)])
    BY <1>1, <1>6, <2>2, LeadTable
  <2> QED  BY <2>1, <2>3 DEF R
<1>10. u = Extended(s, Declares[join])
  BY <1>2, <1>3, ExtendedTwice DEF t
<1> HIDE DEF u
<1>11. Lead(<<Call("Expressions", join.on, {})>>, u, u, H)
  <2>1. Env(u, Head(u.visible)) = Env(s, after \cup R)
    BY <1>8 DEF Env
  <2> QED  BY <1>1, <1>8, <2>1, LeadExpressions
<1> HIDE DEF F, G, H, c, d, env
<1>12. Lead(<<c, d>>, s, u, F \cup G)
  BY <1>7, <1>9, LeadTwo
<1>13. Lead(<<c, d>> \o <<Call("Expressions", join.on, {})>>, s, u, (F \cup G) \cup H)
  BY <1>11, <1>12, LeadOn
<1> QED  BY <1>4, <1>5, <1>10, <1>13 DEF JoinCalls, env

LEMMA JoinMakes ==
  ASSUME NEW s \in Scopes, s.visible # << >>, NEW names \in SUBSET Identifiers,
         names \subseteq Head(s.visible),
         NEW join \in TableExpressions, join.kind = "join"
  PROVE  Lead(JoinCalls(join, names), s, Extended(s, Declares[join]), Free[join][TableEnv(s, names)])
<1>1. Free[join][TableEnv(s, names)] = FreeIn(join, TableEnv(s, names), Free)
  BY EnvironmentType, FreeUnfolds DEF Trees
<1>2. FreeIn(join, TableEnv(s, names), Free) = FreeInJoin(join, TableEnv(s, names), Free)
  BY DEF FreeIn
<1> QED  BY <1>1, <1>2, LeadJoin

LEMMA ParenthesizedMakes ==
  ASSUME NEW s \in Scopes, s.visible # << >>, NEW names \in SUBSET Identifiers,
         names \subseteq Head(s.visible),
         NEW join \in TableExpressions, join.kind = "parenthesized"
  PROVE  Lead(JoinCalls(join, names) \o <<Call("EndParentheses", << >>, {})>>,
              ScopeOf(s.aliases, s.view, <<names>> \o s.visible), Extended(s, Declares[join]),
              Free[join][TableEnv(s, names)])
<1> DEFINE t == ScopeOf(s.aliases, s.view, <<names>> \o s.visible)
           D == Declares[join]
           u == Extended(t, D)
           F == FreeInJoin(join, TableEnv(t, names), Free)
<1>1. /\ t \in Scopes /\ t.visible # << >> /\ Head(t.visible) = names /\ Tail(t.visible) = s.visible
      /\ t.aliases = s.aliases /\ t.view = s.view
  BY PushedScope
<1>2. D \in SUBSET Identifiers
  BY DeclaresType
<1> HIDE DEF t
<1>3. Lead(JoinCalls(join, names), t, u, F)
  BY <1>1, LeadJoin
<1> HIDE DEF D
<1>4. /\ u \in Scopes /\ u.visible # << >> /\ Head(u.visible) = names \cup D
      /\ Tail(u.visible) = s.visible /\ u.aliases = s.aliases /\ u.view = s.view
  BY <1>1, <1>2, ExtendedType
<1> HIDE DEF u
<1>5. Lead(<<Call("EndParentheses", << >>, {})>>, u, Extended(s, D), {})
  <2>1. (names \cup D) \cup Head(s.visible) = Head(s.visible) \cup D
    OBVIOUS
  <2>2. {} \in SUBSET Identifiers
    OBVIOUS
  <2>3. Lead(<<Call("EndParentheses", << >>, {})>>, u,
             ScopeOf(u.aliases, u.view,
                     <<Head(u.visible) \cup Head(Tail(u.visible))>> \o Tail(Tail(u.visible))), {})
    BY <1>4, <2>2, LeadCloser
  <2> QED  BY <1>4, <2>1, <2>3 DEF Extended
<1>6. Lead(JoinCalls(join, names) \o <<Call("EndParentheses", << >>, {})>>, t, Extended(s, D), F \cup {})
  BY <1>3, <1>5, LeadOn
<1>7. Free[join][TableEnv(s, names)] = F
  <2>1. Free[join][TableEnv(s, names)] = FreeIn(join, TableEnv(s, names), Free)
    BY EnvironmentType, FreeUnfolds DEF Trees
  <2>2. FreeIn(join, TableEnv(s, names), Free)
          = FreeInJoin(join, Among(TableEnv(s, names), TableEnv(s, names).R), Free)
    BY DEF FreeIn
  <2>3. Among(TableEnv(s, names), TableEnv(s, names).R) = TableEnv(t, names)
    <3>1. Among(TableEnv(s, names), TableEnv(s, names).R) = Env(s, names)
      BY EnvFields
    <3>2. TableEnv(t, names) = Env(s, names)
      BY <1>1 DEF TableEnv, Env, Environment
    <3> QED  BY <3>1, <3>2
  <2> QED  BY <2>1, <2>2, <2>3
<1>8. F \cup {} = F
  OBVIOUS
<1> QED  BY <1>6, <1>7, <1>8 DEF t, D

-----------------------------------------------------------------------------
LEMMA EmptyScopeType ==
  /\ EmptyScope \in Scopes /\ EmptyScope.aliases = {} /\ EmptyScope.view = << >>
  /\ EmptyScope.visible = << >>
  /\ \A names : Env(EmptyScope, names) = Environment({}, names, {})
<1>1. /\ EmptyScope \in Scopes /\ EmptyScope.aliases = {} /\ EmptyScope.view = << >>
      /\ EmptyScope.visible = << >>
  BY DEF EmptyScope, ScopeOf, Scopes
<1>2. \A names : Env(EmptyScope, names) = Environment({}, names, {})
  BY <1>1, NamedType DEF Env
<1> QED  BY <1>1, <1>2

LEMMA StatementMakes ==
  ASSUME NEW statement \in Statements
  PROVE  Lead(Calls("FindInQuery", statement.options, {}) \o <<Call("Case", statement, {})>>,
              EmptyScope, EmptyScope, FoundInStatement[statement])
<1> DEFINE O == FreeInEach(statement.options, Environment({}, {}, {}), Free)
           c == Call("Case", statement, {})
           F == FoundInCase(statement, FoundInStatement)
<1>1. {} \in SUBSET Identifiers /\ statement.options \in Seq(Queries)
  BY StatementSyntax
<1>2. Lead(Calls("FindInQuery", statement.options, {}), EmptyScope, EmptyScope, O)
  BY <1>1, EmptyScopeType, LeadQueries
<1>3. c \in PendingCalls /\ c.fn = "Case" /\ c.node = statement
  BY <1>1, CallType, CallFields
<1> HIDE DEF c, O
<1>4. Fits(c, EmptyScope) /\ After(c, EmptyScope) = EmptyScope /\ Finds(c, EmptyScope) = F
  BY <1>3, Effect
<1>5. Lead(<<c>>, EmptyScope, After(c, EmptyScope), Finds(c, EmptyScope))
  BY <1>3, <1>4, EmptyScopeType, LeadOne
<1> HIDE DEF F
<1>6. Lead(Calls("FindInQuery", statement.options, {}) \o <<c>>, EmptyScope, EmptyScope, O \cup F)
  BY <1>2, <1>4, <1>5, LeadOn
<1>7. FoundInStatement[statement] = O \cup F
  BY FoundInStatementUnfolds DEF O, F
<1> QED  BY <1>6, <1>7 DEF c

\* Statements of which queries are searched, and no more.
LEMMA CaseMakes ==
  ASSUME NEW statement \in Statements, NEW queries \in Seq(Queries)
  PROVE  Lead(Calls("FindInQuery", queries, {}), EmptyScope, EmptyScope,
              FreeInEach(queries, Environment({}, {}, {}), Free))
<1>1. {} \in SUBSET Identifiers
  OBVIOUS
<1> QED  BY <1>1, EmptyScopeType, LeadQueries

LEMMA ViewMakes ==
  ASSUME NEW statement \in Statements, statement.kind = "view"
  PROVE  Lead(Calls("FindInQuery", statement.query, {}) \o <<Call("EndView", << >>, {})>>,
              ScopeOf({}, IF statement.recursive THEN statement.target ELSE << >>, << >>), EmptyScope,
              FoundInCase(statement, FoundInStatement))
<1> DEFINE V == IF statement.recursive THEN statement.target ELSE << >>
           s == ScopeOf({}, V, << >>)
           F == FreeInEach(statement.query, Environment({}, {}, Named(V)), Free)
<1>1. statement.query \in Seq(Queries) /\ V \in Seq(Identifiers) /\ {} \in SUBSET Identifiers
      /\ << >> \in Seq(SUBSET Identifiers)
  BY StatementSyntax
<1>2. FoundInCase(statement, FoundInStatement) = F
  BY DEF FoundInCase, FreeInCase
<1> HIDE DEF V
<1>3. s \in Scopes /\ s.aliases = {} /\ s.view = V /\ s.visible = << >>
  BY <1>1 DEF Scopes, ScopeOf
<1>4. Env(s, {}) = Environment({}, {}, Named(V))
  BY <1>3 DEF Env
<1> HIDE DEF s
<1>5. Lead(Calls("FindInQuery", statement.query, {}), s, s, F)
  BY <1>1, <1>3, <1>4, LeadQueries
<1>6. Lead(<<Call("EndView", << >>, {})>>, s, EmptyScope, {})
  BY <1>1, <1>3, LeadCloser DEF EmptyScope
<1> HIDE DEF F
<1>7. Lead(Calls("FindInQuery", statement.query, {}) \o <<Call("EndView", << >>, {})>>, s, EmptyScope, F \cup {})
  BY <1>5, <1>6, LeadOn
<1>8. F \cup {} = F
  OBVIOUS
<1> QED  BY <1>2, <1>7, <1>8 DEF s, V

LEMMA TableFunctionMakes ==
  ASSUME NEW statement \in Statements, statement.kind = "table_function"
  PROVE  /\ Lead(Calls("FindInQuery", statement.query, {}) \o <<Call("Restore", << >>, {})>>,
                 ScopeOf(statement.parameters, << >>, << >>), EmptyScope,
                 FoundInCase(statement, FoundInStatement))
         /\ statement.query = << >> => FoundInCase(statement, FoundInStatement) = {}
<1> DEFINE W == statement.parameters
           s == ScopeOf(W, << >>, << >>)
           F == FreeInEach(statement.query, Environment(W, {}, {}), Free)
<1>1. statement.query \in Seq(Queries) /\ W \in SUBSET Identifiers /\ {} \in SUBSET Identifiers
      /\ << >> \in Seq(SUBSET Identifiers) /\ << >> \in Seq(Identifiers)
  BY StatementSyntax
<1>2. FoundInCase(statement, FoundInStatement) = F
  BY DEF FoundInCase, FreeInCase
<1> HIDE DEF W
<1>3. s \in Scopes /\ s.aliases = W /\ s.view = << >> /\ s.visible = << >>
  BY <1>1 DEF Scopes, ScopeOf
<1>4. Env(s, {}) = Environment(W, {}, {})
  BY <1>3, NamedType DEF Env
<1> HIDE DEF s
<1>5. Lead(Calls("FindInQuery", statement.query, {}), s, s, F)
  BY <1>1, <1>3, <1>4, LeadQueries
<1>6. Lead(<<Call("Restore", << >>, {})>>, s, EmptyScope, {})
  BY <1>1, <1>3, LeadCloser DEF EmptyScope
<1>7. statement.query = << >> => F = {}
  BY DEF FreeInEach
<1> HIDE DEF F
<1>8. Lead(Calls("FindInQuery", statement.query, {}) \o <<Call("Restore", << >>, {})>>, s, EmptyScope, F \cup {})
  BY <1>5, <1>6, LeadOn
<1>9. F \cup {} = F
  OBVIOUS
<1> QED  BY <1>2, <1>7, <1>8, <1>9 DEF s, W

LEMMA DmlMakes ==
  ASSUME NEW statement \in Statements, statement.kind = "dml"
  PROVE  LET R == Alias(statement.alias, statement.target)
         IN  \E inner :
               /\ Lead(Calls("FindInTableExpression", statement.from, {})
                         \o <<Call("Expressions", statement.exprs \o statement.query, {}),
                              Call("EndScope", << >>, {})>>,
                       ScopeOf({}, << >>, <<R>> \o << >>), EmptyScope, inner)
               /\ FoundInCase(statement, FoundInStatement) = {statement.target} \cup inner
<1> DEFINE R == Alias(statement.alias, statement.target)
           t == ScopeOf({}, << >>, <<R>> \o << >>)
           D == DeclaredIn(statement.from)
           u == Extended(t, D)
           exprs == statement.exprs \o statement.query
           F == FreeInEach(statement.from, InFrom({}, {}, R, {}), Free)
           E == FreeInEach(exprs, Environment({}, R \cup D, {}), Free)
<1>1. /\ statement.from \in Seq(TableExpressions) /\ Len(statement.from) <= 1
      /\ statement.exprs \in Seq(Queries) /\ statement.query \in Seq(Queries)
      /\ statement.alias \in Seq(Identifiers) /\ statement.target \in Seq(Identifiers)
  BY StatementSyntax
<1>2. R \in SUBSET Identifiers /\ {} \in SUBSET Identifiers
  BY <1>1, AliasType
<1>3. FoundInCase(statement, FoundInStatement) = {statement.target} \cup F \cup E
  BY DEF FoundInCase, FreeInCase
<1> HIDE DEF R
<1>4. /\ t \in Scopes /\ t.visible # << >> /\ Head(t.visible) = R /\ Tail(t.visible) = << >>
      /\ t.aliases = {} /\ t.view = << >>
  <2> DEFINE e == EmptyScope
             p == ScopeOf(e.aliases, e.view, <<R>> \o e.visible)
  <2>1. e \in Scopes /\ e.aliases = {} /\ e.view = << >> /\ e.visible = << >>
    BY EmptyScopeType
  <2>2. t = p
    BY <2>1
  <2> HIDE DEF e, t
  <2>3. /\ p \in Scopes /\ p.visible # << >> /\ Head(p.visible) = R /\ Tail(p.visible) = e.visible
        /\ p.aliases = e.aliases /\ p.view = e.view
    BY <1>2, <2>1, PushedScope
  <2> HIDE DEF p
  <2> QED  BY <2>1, <2>2, <2>3
<1>5. exprs \in Seq(Queries)
  BY <1>1
<1> HIDE DEF t, exprs
<1>6. TableEnv(t, {}) = InFrom({}, {}, R, {})
  BY <1>4, NamedType DEF TableEnv
<1>7. /\ D \in SUBSET Identifiers
      /\ Lead(Calls("FindInTableExpression", statement.from, {}), t, u, F)
  BY <1>1, <1>2, <1>4, <1>6, LeadFrom
<1> HIDE DEF D, F
<1>8. /\ u \in Scopes /\ u.visible # << >> /\ Head(u.visible) = R \cup D
      /\ Tail(u.visible) = << >> /\ u.aliases = {} /\ u.view = << >>
  BY <1>4, <1>7, ExtendedType
<1> HIDE DEF u
<1>9. Lead(<<Call("Expressions", exprs, {})>>, u, u, E)
  <2>1. Env(u, Head(u.visible)) = Environment({}, R \cup D, {})
    BY <1>8, NamedType DEF Env
  <2> QED  BY <1>5, <1>8, <2>1, LeadExpressions
<1>10. Lead(<<Call("EndScope", << >>, {})>>, u, EmptyScope, {})
  BY <1>2, <1>8, LeadCloser DEF EmptyScope
<1> HIDE DEF E
<1>11. Lead(<<Call("Expressions", exprs, {}), Call("EndScope", << >>, {})>>, u, EmptyScope, E \cup {})
  BY <1>9, <1>10, LeadTwo
<1>12. Lead(Calls("FindInTableExpression", statement.from, {})
              \o <<Call("Expressions", exprs, {}), Call("EndScope", << >>, {})>>, t, EmptyScope,
            F \cup (E \cup {}))
  BY <1>7, <1>11, LeadOn
<1>13. {statement.target} \cup F \cup E = {statement.target} \cup (F \cup (E \cup {}))
  OBVIOUS
<1> QED  BY <1>3, <1>12, <1>13 DEF t, exprs, R

-----------------------------------------------------------------------------
(***************************************************************************)
(* The invariant: the pending calls lead from the current scope to that of *)
(* no statement, and what they find is what has not been found yet.        *)
(***************************************************************************)

Scope == ScopeOf(local_table_aliases_, recursive_view_name_, visible)

AllFound == UNION {FoundInStatement[script[i]] : i \in DOMAIN script}

PendingFindsTheRest ==
  \E rest : /\ Lead(pending, Scope, EmptyScope, rest)
            /\ table_names \cup rest = AllFound

IInv ==
  /\ script \in Scripts
  /\ Scope \in Scopes
  /\ table_names \in SUBSET Paths
  /\ outcome \in {"running", "done", "error"}
  /\ outcome # "error" => PendingFindsTheRest
  /\ outcome = "done" => pending = << >>
  /\ outcome = "error" => pending # << >>

LEMMA ScopeFields ==
  Scope.aliases = local_table_aliases_ /\ Scope.view = recursive_view_name_ /\ Scope.visible = visible
BY DEF Scope, ScopeOf

LEMMA LeadScope ==
  ASSUME NEW calls, NEW s, NEW t, NEW tables, Lead(calls, s, t, tables)
  PROVE  s \in Scopes
<1>1. calls \in Seq(PendingCalls) /\ Len(calls) \in Nat
  BY DEF Lead
<1>2. PICK path : Path(calls, path, s, t, tables)
  BY DEF Lead
<1>3. 1 \in 1 .. Len(calls) + 1
  BY <1>1
<1> QED  BY <1>2, <1>3 DEF Path

LEMMA Initially ==
  ASSUME Init
  PROVE  IInv
<1>1. script \in Seq(Statements)
  BY SyntaxAssumption DEF Init
<1>2. Scope = EmptyScope /\ Scope \in Scopes
  BY EmptyScopeType DEF Init, Scope, EmptyScope
<1>3. pending = Calls("FindInStatement", script, {}) /\ table_names = {}
  BY DEF Init
<1>4. Lead(pending, Scope, EmptyScope, AllFound)
  BY <1>1, <1>2, <1>3, LeadStatements DEF AllFound
<1>5. {} \cup AllFound = AllFound
  OBVIOUS
<1>6. PendingFindsTheRest
  BY <1>3, <1>4, <1>5 DEF PendingFindsTheRest
<1> QED  BY <1>2, <1>3, <1>6 DEF IInv, Init

\* The call that is made next.
LEMMA Called ==
  ASSUME IInv, NEW fn, Calling(fn)
  PROVE  /\ Head(pending) \in PendingCalls /\ Head(pending).fn = fn
         /\ Head(pending).names \in SUBSET Identifiers
         /\ Scope \in Scopes /\ Fits(Head(pending), Scope)
<1>1. pending # << >> /\ outcome = "running" /\ Head(pending).fn = fn
  BY DEF Calling
<1>2. PICK rest : Lead(pending, Scope, EmptyScope, rest)
  BY <1>1 DEF IInv, PendingFindsTheRest
<1>3. Head(pending) \in PendingCalls /\ Scope \in Scopes /\ Fits(Head(pending), Scope)
  BY <1>1, <1>2, LeadFirst
<1> QED  BY <1>1, <1>3 DEF PendingCalls

\* A call that makes calls and finds names.
LEMMA Proceeds ==
  ASSUME IInv, NEW fn, Calling(fn), NEW calls, NEW names, NEW inner,
         Makes(calls), table_names' = table_names \cup names, names \in SUBSET Paths,
         script' = script, outcome' = outcome,
         Lead(calls, Scope', After(Head(pending), Scope), inner),
         names \cup inner = Finds(Head(pending), Scope)
  PROVE  IInv'
<1>1. pending # << >> /\ outcome = "running"
  BY DEF Calling
<1>2. PICK rest : /\ Lead(pending, Scope, EmptyScope, rest)
                  /\ table_names \cup rest = AllFound
  BY <1>1 DEF IInv, PendingFindsTheRest
<1>3. PICK outer : /\ Lead(Tail(pending), After(Head(pending), Scope), EmptyScope, outer)
                   /\ rest = Finds(Head(pending), Scope) \cup outer
  BY <1>1, <1>2, LeadFirst
<1>4. pending' = calls \o Tail(pending)
  BY DEF Makes
<1>5. AllFound' = AllFound
  BY DEF AllFound
<1>6. (table_names \cup names) \cup (inner \cup outer) = AllFound
  BY <1>2, <1>3
<1>7. Lead(calls \o Tail(pending), Scope', EmptyScope, inner \cup outer)
  BY <1>3, LeadOn
<1>8. PendingFindsTheRest'
  BY <1>4, <1>5, <1>6, <1>7 DEF PendingFindsTheRest, EmptyScope, ScopeOf
<1>9. Scope' \in Scopes
  BY LeadScope
<1>10. table_names' \in SUBSET Paths
  BY DEF IInv
<1> QED  BY <1>1, <1>8, <1>9, <1>10 DEF IInv, Scopes

\* A call that makes calls and finds nothing itself.
LEMMA Descends ==
  ASSUME IInv, NEW fn, Calling(fn), NEW calls,
         Makes(calls), table_names' = table_names, script' = script, outcome' = outcome,
         Lead(calls, Scope', After(Head(pending), Scope), Finds(Head(pending), Scope))
  PROVE  IInv'
<1>1. /\ table_names' = table_names \cup {} /\ {} \in SUBSET Paths
      /\ {} \cup Finds(Head(pending), Scope) = Finds(Head(pending), Scope)
  OBVIOUS
<1> QED  BY <1>1, Proceeds

\* A call that makes none and finds nothing.
LEMMA Closes ==
  ASSUME IInv, NEW fn, Calling(fn),
         Makes(<< >>), table_names' = table_names, script' = script, outcome' = outcome,
         Scope' = After(Head(pending), Scope), Finds(Head(pending), Scope) = {}
  PROVE  IInv'
<1>1. Scope' \in Scopes
  BY Called, AfterType
<1>2. Lead(<< >>, Scope', Scope', {})
  BY <1>1, LeadNowhere
<1> QED  BY <1>2, Descends

-----------------------------------------------------------------------------
(* What is known of the call, by its kind.                                 *)

LEMMA SameScope ==
  ASSUME UNCHANGED scope
  PROVE  Scope' = Scope
BY DEF scope, Scope, ScopeOf

LEMMA CaseCalled ==
  ASSUME IInv, NEW kind, Case(kind)
  PROVE  /\ Calling("Case") /\ script' = script
         /\ Node \in Statements /\ Node.kind = kind
         /\ Scope = EmptyScope
         /\ local_table_aliases_ = {} /\ recursive_view_name_ = << >> /\ visible = << >>
         /\ After(Head(pending), Scope) = EmptyScope
         /\ Finds(Head(pending), Scope) = FoundInCase(Node, FoundInStatement)
<1>1. Calling("Case") /\ script' = script /\ Node.kind = kind
  BY DEF Case
<1>2. Head(pending).fn = "Case" /\ Fits(Head(pending), Scope)
  BY <1>1, Called
<1>3. Node \in Statements /\ Scope = EmptyScope
  BY <1>2, Effect DEF Node
<1>4. After(Head(pending), Scope) = Scope /\ Finds(Head(pending), Scope) = FoundInCase(Node, FoundInStatement)
  BY <1>2, Effect DEF Node
<1>5. local_table_aliases_ = {} /\ recursive_view_name_ = << >> /\ visible = << >>
  BY <1>3, ScopeFields, EmptyScopeType
<1> QED  BY <1>1, <1>3, <1>4, <1>5

LEMMA QueryExpressionCalled ==
  ASSUME IInv, NEW kind, QueryExpression(kind)
  PROVE  /\ Calling("FindInQueryExpression") /\ UNCHANGED <<script, found, outcome>>
         /\ Node.expr \in QueryExpressions /\ Node.expr.kind = kind
         /\ Node.order \in Seq(Queries) /\ Names \in SUBSET Identifiers
         /\ Scope \in Scopes /\ After(Head(pending), Scope) = Scope
         /\ Finds(Head(pending), Scope)
              = Free[Node.expr][Env(Scope, Names)]
                  \cup FreeInEach(Node.order, Env(Scope, Names \cup Variables(Node.expr)), Free)
<1>1. /\ Calling("FindInQueryExpression") /\ Node.expr.kind = kind
      /\ UNCHANGED <<script, found, outcome>>
  BY DEF QueryExpression
<1>2. /\ Head(pending).fn = "FindInQueryExpression" /\ Fits(Head(pending), Scope)
      /\ Scope \in Scopes /\ Names \in SUBSET Identifiers
  BY <1>1, Called DEF Names
<1>3. Node \in [expr : QueryExpressions, order : Seq(Queries)]
  BY <1>2, Effect DEF Node
<1>4. /\ After(Head(pending), Scope) = Scope
      /\ Finds(Head(pending), Scope)
           = Free[Node.expr][Env(Scope, Names)]
               \cup FreeInEach(Node.order, Env(Scope, Names \cup Variables(Node.expr)), Free)
  BY <1>2, Effect DEF Node, Names
<1> QED  BY <1>1, <1>2, <1>3, <1>4

LEMMA TableExpressionCalled ==
  ASSUME IInv, NEW kind, TableExpression(kind)
  PROVE  /\ Calling("FindInTableExpression") /\ UNCHANGED <<script, outcome>>
         /\ Node \in TableExpressions /\ Node.kind = kind
         /\ Names \in SUBSET Identifiers
         /\ Scope \in Scopes /\ Scope.visible # << >> /\ Names \subseteq Head(Scope.visible)
         /\ After(Head(pending), Scope) = Extended(Scope, Declares[Node])
         /\ Finds(Head(pending), Scope) = Free[Node][TableEnv(Scope, Names)]
<1>1. Calling("FindInTableExpression") /\ Node.kind = kind /\ UNCHANGED <<script, outcome>>
  BY DEF TableExpression
<1>2. /\ Head(pending).fn = "FindInTableExpression" /\ Fits(Head(pending), Scope)
      /\ Scope \in Scopes /\ Names \in SUBSET Identifiers
  BY <1>1, Called DEF Names
<1>3. Node \in TableExpressions /\ Scope.visible # << >> /\ Names \subseteq Head(Scope.visible)
  BY <1>2, Effect DEF Node, Names
<1>4. /\ After(Head(pending), Scope) = Extended(Scope, Declares[Node])
      /\ Finds(Head(pending), Scope) = Free[Node][TableEnv(Scope, Names)]
  BY <1>2, Effect DEF Node, Names
<1> QED  BY <1>1, <1>2, <1>3, <1>4

LEMMA PathsFound ==
  ASSUME NEW path \in Seq(Identifiers), NEW names
  PROVE  /\ {p \in {path} : p # << >> /\ IsTable(p, names)}
              = FreePath(path, local_table_aliases_, names, Named(recursive_view_name_))
         /\ FreePath(path, local_table_aliases_, names, Named(recursive_view_name_)) \in SUBSET Paths
<1>1. \A p \in {path} : (p # << >> /\ IsTable(p, names))
         <=> (/\ p # << >> /\ p # recursive_view_name_
              /\ Lower[p[1]] \notin (IF Len(p) = 1 THEN local_table_aliases_ ELSE names))
  BY DEF IsTable
<1>2. FreePath(path, local_table_aliases_, names, Named(recursive_view_name_))
        = {p \in {path} : /\ p # << >> /\ p # recursive_view_name_
                          /\ Lower[p[1]] \notin (IF Len(p) = 1 THEN local_table_aliases_ ELSE names)}
  BY DEF FreePath, Named
<1>3. \A p \in {path} : p # << >> => p \in Paths
  BY DEF Paths
<1> QED  BY <1>1, <1>2, <1>3

LEMMA FunctionTablesFound ==
  ASSUME NEW tables \in SUBSET Paths
  PROVE  /\ {p \in tables : IsTable(p, {})}
              = UNION {FreePath(p, local_table_aliases_, {}, Named(recursive_view_name_)) : p \in tables}
         /\ {p \in tables : IsTable(p, {})} \in SUBSET Paths
<1>1. \A p \in tables : FreePath(p, local_table_aliases_, {}, Named(recursive_view_name_))
                          = {q \in {p} : IsTable(q, {})}
  <2>1. SUFFICES ASSUME NEW p \in tables
                 PROVE  FreePath(p, local_table_aliases_, {}, Named(recursive_view_name_))
                          = {q \in {p} : IsTable(q, {})}
    OBVIOUS
  <2>2. p \in Seq(Identifiers) /\ p # << >>
    BY DEF Paths
  <2>3. FreePath(p, local_table_aliases_, {}, Named(recursive_view_name_))
          = {q \in {p} : q # << >> /\ IsTable(q, {})}
    BY <2>2, PathsFound
  <2> QED  BY <2>2, <2>3
<1> QED  BY <1>1

-----------------------------------------------------------------------------
(* Each action keeps the invariant.                                        *)

LEMMA StatementStep ==
  ASSUME IInv, FindInStatement
  PROVE  IInv'
<1>1. /\ Calling("FindInStatement")
      /\ Makes(Calls("FindInQuery", Node.options, {}) \o <<Call("Case", Node, {})>>)
      /\ table_names' = table_names /\ script' = script /\ outcome' = outcome /\ UNCHANGED scope
  BY DEF FindInStatement, FindInExpressionsUnder, found
<1>2. Head(pending).fn = "FindInStatement" /\ Fits(Head(pending), Scope)
  BY <1>1, Called
<1>3. Node \in Statements /\ Scope = EmptyScope
  BY <1>2, Effect DEF Node
<1>4. /\ After(Head(pending), Scope) = EmptyScope
      /\ Finds(Head(pending), Scope) = FoundInStatement[Node]
  BY <1>2, <1>3, Effect DEF Node
<1>5. Scope' = EmptyScope
  BY <1>1, <1>3, SameScope
<1> DEFINE calls == Calls("FindInQuery", Node.options, {}) \o <<Call("Case", Node, {})>>
<1>6. Lead(calls, EmptyScope, EmptyScope, FoundInStatement[Node])
  BY <1>3, StatementMakes
<1> HIDE DEF calls
<1>7. Lead(calls, Scope', After(Head(pending), Scope), Finds(Head(pending), Scope))
  BY <1>4, <1>5, <1>6
<1> QED  BY <1>1, <1>7, Descends DEF calls

LEMMA PlainCaseStep ==
  ASSUME IInv, \/ FindInQueryStatement \/ FindInScalarStatement \/ IgnoreStatement
               \/ FindInNestedStatements
  PROVE  IInv'
<1> DEFINE top == Environment({}, {}, {})
<1>1. ASSUME NEW kind, Case(kind), NEW calls, Makes(calls), UNCHANGED <<found, scope, outcome>>,
             Lead(calls, EmptyScope, EmptyScope, FoundInCase(Node, FoundInStatement))
      PROVE  IInv'
  <2>1. Scope' = EmptyScope
    BY <1>1, CaseCalled, SameScope
  <2>2. Lead(calls, Scope', After(Head(pending), Scope), Finds(Head(pending), Scope))
    BY <1>1, <2>1, CaseCalled
  <2>3. Calling("Case") /\ script' = script /\ table_names' = table_names /\ outcome' = outcome
    BY <1>1, CaseCalled DEF found
  <2> QED  BY <1>1, <2>2, <2>3, Descends
<1>2. CASE FindInQueryStatement
  <2>1. /\ Case("query_statement") /\ Makes(Calls("FindInQuery", Node.query, {}))
        /\ UNCHANGED <<found, scope, outcome>>
    BY <1>2 DEF FindInQueryStatement
  <2>2. Node \in Statements /\ Node.kind = "query_statement"
    BY <2>1, CaseCalled
  <2>3. FoundInCase(Node, FoundInStatement) = FreeInEach(Node.query, top, Free)
    BY <2>2 DEF FoundInCase, FreeInCase
  <2>4. Node.query \in Seq(Queries)
    BY <2>2, StatementSyntax
  <2>5. Lead(Calls("FindInQuery", Node.query, {}), EmptyScope, EmptyScope, FoundInCase(Node, FoundInStatement))
    BY <2>2, <2>3, <2>4, CaseMakes
  <2> QED  BY <1>1, <2>1, <2>5
<1>3. CASE FindInScalarStatement
  <2>1. /\ Case("expressions") /\ Makes(Calls("FindInQuery", Node.exprs, {}))
        /\ UNCHANGED <<found, scope, outcome>>
    BY <1>3 DEF FindInScalarStatement, FindInExpressionsUnder
  <2>2. Node \in Statements /\ Node.kind = "expressions"
    BY <2>1, CaseCalled
  <2>3. FoundInCase(Node, FoundInStatement) = FreeInEach(Node.exprs, top, Free)
    BY <2>2 DEF FoundInCase, FreeInCase
  <2>4. Node.exprs \in Seq(Queries)
    BY <2>2, StatementSyntax
  <2>5. Lead(Calls("FindInQuery", Node.exprs, {}), EmptyScope, EmptyScope, FoundInCase(Node, FoundInStatement))
    BY <2>2, <2>3, <2>4, CaseMakes
  <2> QED  BY <1>1, <2>1, <2>5
<1>4. CASE IgnoreStatement
  <2>1. Case("ignored") /\ Makes(<< >>) /\ UNCHANGED <<found, scope, outcome>>
    BY <1>4 DEF IgnoreStatement
  <2>2. Node.kind = "ignored"
    BY <2>1, CaseCalled
  <2>3. FoundInCase(Node, FoundInStatement) = {}
    BY <2>2 DEF FoundInCase, FreeInCase
  <2>4. Lead(<< >>, EmptyScope, EmptyScope, FoundInCase(Node, FoundInStatement))
    BY <2>3, EmptyScopeType, LeadNowhere
  <2> QED  BY <1>1, <2>1, <2>4
<1>5. CASE FindInNestedStatements
  <2>1. /\ Case("nested") /\ Makes(Calls("FindInStatement", Node.body, {}))
        /\ UNCHANGED <<found, scope, outcome>>
    BY <1>5 DEF FindInNestedStatements
  <2>2. Node \in Statements /\ Node.kind = "nested"
    BY <2>1, CaseCalled
  <2>3. FoundInCase(Node, FoundInStatement) = UNION {FoundInStatement[Node.body[i]] : i \in DOMAIN Node.body}
    BY <2>2 DEF FoundInCase, FreeInCase
  <2>4. Node.body \in Seq(Statements)
    BY <2>2, StatementSyntax
  <2>5. Lead(Calls("FindInStatement", Node.body, {}), EmptyScope, EmptyScope, FoundInCase(Node, FoundInStatement))
    BY <2>3, <2>4, LeadStatements
  <2> QED  BY <1>1, <2>1, <2>5
<1> QED  BY <1>2, <1>3, <1>4, <1>5

LEMMA TargetStep ==
  ASSUME IInv, NameTarget
  PROVE  IInv'
<1> DEFINE calls == Calls("FindInQuery", Node.exprs, {})
           inner == FreeInEach(Node.exprs, Environment({}, {}, {}), Free)
<1>1. /\ Case("target") /\ Makes(calls) /\ table_names' = table_names \cup {Node.target}
      /\ UNCHANGED <<scope, outcome>>
  BY DEF NameTarget, FindInExpressionsUnder
<1>2. /\ Calling("Case") /\ script' = script /\ Node \in Statements /\ Node.kind = "target"
      /\ Scope = EmptyScope /\ After(Head(pending), Scope) = EmptyScope
      /\ Finds(Head(pending), Scope) = FoundInCase(Node, FoundInStatement)
  BY <1>1, CaseCalled
<1>3. Node.target \in Seq(Identifiers) /\ Node.target # << >> /\ Node.exprs \in Seq(Queries)
  BY <1>2, StatementSyntax
<1>4. {Node.target} \in SUBSET Paths
  BY <1>3 DEF Paths
<1>5. {Node.target} \cup inner = Finds(Head(pending), Scope)
  BY <1>2 DEF FoundInCase, FreeInCase
<1>6. Lead(calls, EmptyScope, EmptyScope, inner)
  BY <1>2, <1>3, CaseMakes
<1>7. Scope' = EmptyScope
  BY <1>1, <1>2, SameScope
<1> HIDE DEF calls, inner
<1>8. Lead(calls, Scope', After(Head(pending), Scope), inner)
  BY <1>2, <1>6, <1>7
<1> QED  BY <1>1, <1>2, <1>4, <1>5, <1>8, Proceeds

LEMMA ViewStep ==
  ASSUME IInv, FindInCreateViewStatement
  PROVE  IInv'
<1> DEFINE calls == Calls("FindInQuery", Node.query, {}) \o <<Call("EndView", << >>, {})>>
           V == IF Node.recursive THEN Node.target ELSE << >>
<1>1. /\ Case("view") /\ Makes(calls)
      /\ recursive_view_name_' = IF Node.recursive THEN Node.target ELSE recursive_view_name_
      /\ UNCHANGED <<found, local_table_aliases_, visible, outcome>>
  BY DEF FindInCreateViewStatement
<1>2. /\ Calling("Case") /\ script' = script /\ Node \in Statements /\ Node.kind = "view"
      /\ local_table_aliases_ = {} /\ recursive_view_name_ = << >> /\ visible = << >>
      /\ After(Head(pending), Scope) = EmptyScope
      /\ Finds(Head(pending), Scope) = FoundInCase(Node, FoundInStatement)
  BY <1>1, CaseCalled
<1>3. Scope' = ScopeOf({}, V, << >>)
  BY <1>1, <1>2 DEF Scope, ScopeOf
<1>4. Lead(calls, ScopeOf({}, V, << >>), EmptyScope, FoundInCase(Node, FoundInStatement))
  BY <1>2, ViewMakes
<1> HIDE DEF calls, V
<1>5. Lead(calls, Scope', After(Head(pending), Scope), Finds(Head(pending), Scope))
  BY <1>2, <1>3, <1>4
<1>6. table_names' = table_names /\ outcome' = outcome
  BY <1>1 DEF found
<1> QED  BY <1>1, <1>2, <1>5, <1>6, Descends

LEMMA TableFunctionStep ==
  ASSUME IInv, FindInCreateTableFunctionStatement
  PROVE  IInv'
<1>1. Case("table_function")
  BY DEF FindInCreateTableFunctionStatement
<1>2. /\ Calling("Case") /\ script' = script /\ Node \in Statements /\ Node.kind = "table_function"
      /\ Scope = EmptyScope
      /\ local_table_aliases_ = {} /\ recursive_view_name_ = << >> /\ visible = << >>
      /\ After(Head(pending), Scope) = EmptyScope
      /\ Finds(Head(pending), Scope) = FoundInCase(Node, FoundInStatement)
  BY <1>1, CaseCalled
<1>3. table_names' = table_names /\ recursive_view_name_' = << >> /\ visible' = << >>
  BY <1>2 DEF FindInCreateTableFunctionStatement, found
<1>4. CASE Node.query = << >>
  <2>1. Makes(<< >>) /\ local_table_aliases_' = local_table_aliases_ /\ outcome' = outcome
    BY <1>2, <1>4 DEF FindInCreateTableFunctionStatement
  <2>2. Scope' = EmptyScope
    BY <1>2, <1>3, <2>1 DEF Scope, ScopeOf, EmptyScope
  <2>3. Finds(Head(pending), Scope) = {}
    BY <1>2, <1>4, TableFunctionMakes
  <2> QED  BY <1>2, <1>3, <2>1, <2>2, <2>3, Closes
<1>5. CASE Node.query # << >>
  <2> DEFINE calls == Calls("FindInQuery", Node.query, {}) \o <<Call("Restore", << >>, {})>>
  <2>1. Makes(calls) /\ local_table_aliases_' = Node.parameters /\ outcome' = outcome
    BY <1>2, <1>5 DEF FindInCreateTableFunctionStatement
  <2>2. Scope' = ScopeOf(Node.parameters, << >>, << >>)
    BY <1>3, <2>1 DEF Scope, ScopeOf
  <2>3. Lead(calls, ScopeOf(Node.parameters, << >>, << >>), EmptyScope, FoundInCase(Node, FoundInStatement))
    BY <1>2, TableFunctionMakes
  <2> HIDE DEF calls
  <2>4. Lead(calls, Scope', After(Head(pending), Scope), Finds(Head(pending), Scope))
    BY <1>2, <2>2, <2>3
  <2> QED  BY <1>2, <1>3, <2>1, <2>4, Descends
<1> QED  BY <1>4, <1>5

LEMMA DmlStep ==
  ASSUME IInv, FindInDmlStatement
  PROVE  IInv'
<1> DEFINE R == Alias(Node.alias, Node.target)
           calls == Calls("FindInTableExpression", Node.from, {})
                      \o <<Call("Expressions", Node.exprs \o Node.query, {}),
                           Call("EndScope", << >>, {})>>
<1>1. /\ Case("dml") /\ Node.target # << >>
      /\ table_names' = table_names \cup {Node.target}
      /\ visible' = <<R>> \o visible
      /\ Makes(calls)
      /\ UNCHANGED <<local_table_aliases_, recursive_view_name_, outcome>>
  BY DEF FindInDmlStatement, FindInTarget
<1>2. /\ Calling("Case") /\ script' = script /\ Node \in Statements /\ Node.kind = "dml"
      /\ local_table_aliases_ = {} /\ recursive_view_name_ = << >> /\ visible = << >>
      /\ After(Head(pending), Scope) = EmptyScope
      /\ Finds(Head(pending), Scope) = FoundInCase(Node, FoundInStatement)
  BY <1>1, CaseCalled
<1>3. Scope' = ScopeOf({}, << >>, <<R>> \o << >>)
  BY <1>1, <1>2 DEF Scope, ScopeOf
<1>4. Node.target \in Seq(Identifiers)
  BY <1>2, StatementSyntax
<1>5. {Node.target} \in SUBSET Paths
  BY <1>1, <1>4 DEF Paths
<1>6. PICK inner : /\ Lead(calls, ScopeOf({}, << >>, <<R>> \o << >>), EmptyScope, inner)
                   /\ FoundInCase(Node, FoundInStatement) = {Node.target} \cup inner
  BY <1>2, DmlMakes
<1> HIDE DEF calls, R
<1>7. Lead(calls, Scope', After(Head(pending), Scope), inner)
  BY <1>2, <1>3, <1>6
<1>8. {Node.target} \cup inner = Finds(Head(pending), Scope)
  BY <1>2, <1>6
<1> QED  BY <1>1, <1>2, <1>5, <1>7, <1>8, Proceeds

LEMMA NestedTargetStep ==
  ASSUME IInv, TargetIsNested
  PROVE  IInv'
<1>1. Case("dml") /\ outcome' = "error" /\ UNCHANGED <<pending, found, scope>>
  BY DEF TargetIsNested
<1>2. pending # << >> /\ script' = script
  BY <1>1 DEF Case, Calling
<1>3. Scope' = Scope /\ pending' = pending /\ table_names' = table_names
  BY <1>1, SameScope DEF found
<1> QED  BY <1>1, <1>2, <1>3 DEF IInv, Scopes

\* What ends a scope or declares a name.
LEMMA CloserStep ==
  ASSUME IInv, \/ EndView \/ DeclareAlias \/ RestoreAliases \/ EndScope \/ EndParentheses
               \/ DeclareTableAlias
  PROVE  IInv'
<1> DEFINE c == Head(pending)
<1>1. ASSUME NEW fn, Calling(fn), fn \in {"EndView", "Declare", "Restore", "EndScope", "EndParentheses", "DeclareVisible"},
             Makes(<< >>), UNCHANGED <<script, found, outcome>>, Scope' = After(c, Scope)
      PROVE  IInv'
  <2>1. c.fn = fn
    BY <1>1, Called
  <2>2. Finds(c, Scope) = {}
    BY <1>1, <2>1 DEF Finds
  <2>3. table_names' = table_names /\ script' = script /\ outcome' = outcome
    BY <1>1 DEF found
  <2> QED  BY <1>1, <2>2, <2>3, Closes
<1>2. CASE EndView
  <2>1. /\ Calling("EndView") /\ Makes(<< >>) /\ UNCHANGED <<script, found, outcome>>
        /\ recursive_view_name_' = << >>
        /\ UNCHANGED <<local_table_aliases_, visible>>
    BY <1>2 DEF EndView
  <2>2. c.fn = "EndView"
    BY <2>1, Called
  <2>3. After(c, Scope) = ScopeOf(local_table_aliases_, << >>, visible)
    BY <2>2, ScopeFields DEF After
  <2>4. Scope' = After(c, Scope)
    BY <2>1, <2>3 DEF Scope, ScopeOf
  <2> QED  BY <1>1, <2>1, <2>4
<1>3. CASE DeclareAlias
  <2>1. /\ Calling("Declare") /\ Makes(<< >>) /\ UNCHANGED <<script, found, outcome>>
        /\ local_table_aliases_' = local_table_aliases_ \cup c.names
        /\ UNCHANGED <<recursive_view_name_, visible>>
    BY <1>3 DEF DeclareAlias, Names
  <2>2. c.fn = "Declare"
    BY <2>1, Called
  <2>3. After(c, Scope) = ScopeOf(local_table_aliases_ \cup c.names, recursive_view_name_, visible)
    BY <2>2, ScopeFields DEF After
  <2>4. Scope' = After(c, Scope)
    BY <2>1, <2>3 DEF Scope, ScopeOf
  <2> QED  BY <1>1, <2>1, <2>4
<1>4. CASE RestoreAliases
  <2>1. /\ Calling("Restore") /\ Makes(<< >>) /\ UNCHANGED <<script, found, outcome>>
        /\ local_table_aliases_' = c.names
        /\ UNCHANGED <<recursive_view_name_, visible>>
    BY <1>4 DEF RestoreAliases, Names
  <2>2. c.fn = "Restore"
    BY <2>1, Called
  <2>3. After(c, Scope) = ScopeOf(c.names, recursive_view_name_, visible)
    BY <2>2, ScopeFields DEF After
  <2>4. Scope' = After(c, Scope)
    BY <2>1, <2>3 DEF Scope, ScopeOf
  <2> QED  BY <1>1, <2>1, <2>4
<1>5. CASE EndScope
  <2>1. /\ Calling("EndScope") /\ Makes(<< >>) /\ UNCHANGED <<script, found, outcome>>
        /\ visible' = Tail(visible)
        /\ UNCHANGED <<local_table_aliases_, recursive_view_name_>>
    BY <1>5 DEF EndScope
  <2>2. c.fn = "EndScope"
    BY <2>1, Called
  <2>3. After(c, Scope) = ScopeOf(local_table_aliases_, recursive_view_name_, Tail(visible))
    BY <2>2, ScopeFields DEF After
  <2>4. Scope' = After(c, Scope)
    BY <2>1, <2>3 DEF Scope, ScopeOf
  <2> QED  BY <1>1, <2>1, <2>4
<1>6. CASE EndParentheses
  <2>1. /\ Calling("EndParentheses") /\ Makes(<< >>) /\ UNCHANGED <<script, found, outcome>>
        /\ visible' = <<visible[1] \cup visible[2]>> \o Tail(Tail(visible))
        /\ UNCHANGED <<local_table_aliases_, recursive_view_name_>>
    BY <1>6 DEF EndParentheses
  <2>2. c.fn = "EndParentheses" /\ Fits(c, Scope) /\ Scope \in Scopes
    BY <2>1, Called
  <2>3. visible \in Seq(SUBSET Identifiers) /\ visible # << >> /\ Tail(visible) # << >>
    BY <2>2, ScopeFields, ScopeType, Effect
  <2>4. Head(visible) = visible[1] /\ Head(Tail(visible)) = visible[2]
    BY <2>3
  <2>5. After(c, Scope) = ScopeOf(local_table_aliases_, recursive_view_name_,
                            <<Head(visible) \cup Head(Tail(visible))>> \o Tail(Tail(visible)))
    BY <2>2, ScopeFields DEF After
  <2>6. Scope' = After(c, Scope)
    BY <2>1, <2>4, <2>5 DEF Scope, ScopeOf
  <2> QED  BY <1>1, <2>1, <2>6
<1>7. CASE DeclareTableAlias
  <2>1. /\ Calling("DeclareVisible") /\ Makes(<< >>) /\ UNCHANGED <<script, found, outcome>>
        /\ visible' = <<Head(visible) \cup c.names>> \o Tail(visible)
        /\ UNCHANGED <<local_table_aliases_, recursive_view_name_>>
    BY <1>7 DEF DeclareTableAlias, WithVisible, Names
  <2>2. c.fn = "DeclareVisible"
    BY <2>1, Called
  <2>3. After(c, Scope) = ScopeOf(local_table_aliases_, recursive_view_name_,
                            <<Head(visible) \cup c.names>> \o Tail(visible))
    BY <2>2, ScopeFields DEF After, Extended
  <2>4. Scope' = After(c, Scope)
    BY <2>1, <2>3 DEF Scope, ScopeOf
  <2> QED  BY <1>1, <2>1, <2>4
<1> QED  BY <1>2, <1>3, <1>4, <1>5, <1>6, <1>7

LEMMA ExpressionsStep ==
  ASSUME IInv, FindInExpressions
  PROVE  IInv'
<1> DEFINE calls == Calls("FindInQuery", Node, Head(visible))
<1>1. /\ Calling("Expressions") /\ Makes(calls) /\ UNCHANGED <<script, found, scope, outcome>>
  BY DEF FindInExpressions, FindInExpressionsUnder
<1>2. Head(pending).fn = "Expressions" /\ Fits(Head(pending), Scope) /\ Scope \in Scopes
  BY <1>1, Called
<1>3. Node \in Seq(Queries) /\ Scope.visible # << >>
  BY <1>2, Effect DEF Node
<1>4. Head(visible) \in SUBSET Identifiers
  BY <1>2, <1>3, ScopeFields, ScopeType
<1>5. /\ After(Head(pending), Scope) = Scope
      /\ Finds(Head(pending), Scope) = FreeInEach(Node, Env(Scope, Head(visible)), Free)
  BY <1>2, ScopeFields, Effect DEF Node
<1>6. Lead(calls, Scope, Scope, FreeInEach(Node, Env(Scope, Head(visible)), Free))
  BY <1>2, <1>3, <1>4, LeadQueries
<1>7. Scope' = Scope
  BY <1>1, SameScope
<1> HIDE DEF calls
<1>8. Lead(calls, Scope', After(Head(pending), Scope), Finds(Head(pending), Scope))
  BY <1>5, <1>6, <1>7
<1> QED  BY <1>1, <1>8, Descends DEF found

LEMMA QueryStep ==
  ASSUME IInv, FindInQuery
  PROVE  IInv'
<1> DEFINE s == Scope
           query == Node
           names == Names
           calls == ((IF query.recursive THEN Entries(query, names)
                      ELSE InTurn(Entries(query, names), Declarations(query)))
                      \o <<Call("FindInQueryExpression", [expr |-> query.expr, order |-> query.order], names)>>)
                      \o (IF query.with = << >> THEN << >> ELSE <<Call("Restore", << >>, s.aliases)>>)
           r == IF query.recursive THEN Inside(s, query, DOMAIN query.with) ELSE s
<1>1. /\ Calling("FindInQuery") /\ UNCHANGED <<script, found, recursive_view_name_, visible, outcome>>
  BY DEF FindInQuery
<1>2. /\ Head(pending).fn = "FindInQuery" /\ Fits(Head(pending), s) /\ s \in Scopes
      /\ names \in SUBSET Identifiers
  BY <1>1, Called DEF Names
<1>3. query \in Queries
  BY <1>2, Effect DEF Node
<1>4. After(Head(pending), s) = s /\ Finds(Head(pending), s) = Free[query][Env(s, names)]
  BY <1>2, Effect DEF Node, Names
<1>5. Makes(calls)
  BY ScopeFields DEF FindInQuery, Entries, Declarations
<1>6. local_table_aliases_' = IF query.recursive
                              THEN local_table_aliases_ \cup AliasesOf(query, DOMAIN query.with)
                              ELSE local_table_aliases_
  BY DEF FindInQuery, AliasesOf
<1>7. Scope' = r
  BY <1>1, <1>6, ScopeFields DEF Inside, Scope, ScopeOf
<1>8. Lead(calls, r, s, Free[query][Env(s, names)])
  BY <1>2, <1>3, QueryMakes
<1> HIDE DEF calls, r
<1>9. Lead(calls, Scope', After(Head(pending), Scope), Finds(Head(pending), Scope))
  BY <1>4, <1>7, <1>8
<1> QED  BY <1>1, <1>5, <1>9, Descends DEF found

LEMMA QueryExpressionStep ==
  ASSUME IInv, \/ FindInSelect \/ FindInSetOperation \/ FindInParenthesizedQuery
  PROVE  IInv'
<1>1. CASE FindInSelect
  <2> DEFINE calls == Calls("FindInTableExpression", Node.expr.from, Names)
                        \o <<Call("Expressions", Node.expr.exprs \o Node.order, {}),
                             Call("EndScope", << >>, {})>>
             r == ScopeOf(Scope.aliases, Scope.view, <<Names>> \o Scope.visible)
  <2>1. /\ QueryExpression("select") /\ Makes(calls)
        /\ visible' = <<Names>> \o visible
        /\ UNCHANGED <<local_table_aliases_, recursive_view_name_>>
    BY <1>1 DEF FindInSelect
  <2>2. Scope' = r
    BY <2>1, ScopeFields DEF Scope, ScopeOf
  <2>3. Lead(calls, r, Scope, Finds(Head(pending), Scope))
    <3> DEFINE expr == Node.expr
               order == Node.order
               names == Names
               s == Scope
    <3>1. /\ s \in Scopes /\ names \in SUBSET Identifiers /\ order \in Seq(Queries)
          /\ expr \in QueryExpressions /\ expr.kind = "select"
          /\ Finds(Head(pending), s)
               = Free[expr][Env(s, names)] \cup FreeInEach(order, Env(s, names \cup Variables(expr)), Free)
      BY <2>1, QueryExpressionCalled
    <3> HIDE DEF expr, order, names, s
    <3>2. Lead(Calls("FindInTableExpression", expr.from, names)
                 \o <<Call("Expressions", expr.exprs \o order, {}), Call("EndScope", << >>, {})>>,
               ScopeOf(s.aliases, s.view, <<names>> \o s.visible), s, Finds(Head(pending), s))
      BY <3>1, SelectMakes
    <3> QED  BY <3>2 DEF expr, order, names, s
  <2> HIDE DEF calls, r
  <2>4. Lead(calls, Scope', After(Head(pending), Scope), Finds(Head(pending), Scope))
    BY <2>1, <2>2, <2>3, QueryExpressionCalled
  <2> QED  BY <2>1, <2>4, QueryExpressionCalled, Descends DEF found
<1>2. CASE FindInSetOperation
  <2> DEFINE calls == Calls("FindInQueryExpression",
                            [i \in DOMAIN Node.expr.inputs |->
                               [expr |-> Node.expr.inputs[i], order |-> << >>]], Names)
                        \o Calls("FindInQuery", Node.order, Names)
  <2>1. QueryExpression("set") /\ Makes(calls) /\ UNCHANGED scope
    BY <1>2 DEF FindInSetOperation, FindInExpressionsUnder
  <2>2. Scope' = Scope
    BY <2>1, SameScope
  <2>3. Lead(calls, Scope, Scope, Finds(Head(pending), Scope))
    BY <2>1, QueryExpressionCalled, SetMakes
  <2> HIDE DEF calls
  <2>4. Lead(calls, Scope', After(Head(pending), Scope), Finds(Head(pending), Scope))
    BY <2>1, <2>2, <2>3, QueryExpressionCalled
  <2> QED  BY <2>1, <2>4, QueryExpressionCalled, Descends DEF found
<1>3. CASE FindInParenthesizedQuery
  <2> DEFINE calls == <<Call("FindInQuery", Node.expr, Names)>> \o Calls("FindInQuery", Node.order, Names)
  <2>1. QueryExpression("query") /\ Makes(calls) /\ UNCHANGED scope
    BY <1>3 DEF FindInParenthesizedQuery, FindInExpressionsUnder
  <2>2. Scope' = Scope
    BY <2>1, SameScope
  <2>3. Lead(calls, Scope, Scope, Finds(Head(pending), Scope))
    BY <2>1, QueryExpressionCalled, ParenthesizedQueryMakes
  <2> HIDE DEF calls
  <2>4. Lead(calls, Scope', After(Head(pending), Scope), Finds(Head(pending), Scope))
    BY <2>1, <2>2, <2>3, QueryExpressionCalled
  <2> QED  BY <2>1, <2>4, QueryExpressionCalled, Descends DEF found
<1> QED  BY <1>1, <1>2, <1>3

LEMMA PathStep ==
  ASSUME IInv, FindInTablePathExpression
  PROVE  IInv'
<1> DEFINE table == Node
           s == Scope
           calls == Calls("FindInQuery", table.exprs, Head(s.visible))
                      \o <<Call("DeclareVisible", << >>, Alias(table.alias, table.path))>>
           names == FreePath(table.path, s.aliases, Head(s.visible), Named(s.view))
<1>1. /\ TableExpression("path") /\ Makes(calls) /\ UNCHANGED scope
      /\ table_names' = table_names
           \cup {p \in {table.path} : p # << >> /\ IsTable(p, Head(s.visible))}
  BY ScopeFields DEF FindInTablePathExpression, FindInExpressionsUnder, DeclareVisible
<1>2. /\ Calling("FindInTableExpression") /\ script' = script /\ outcome' = outcome
      /\ table \in TableExpressions /\ table.kind = "path" /\ Names \in SUBSET Identifiers
      /\ s \in Scopes /\ s.visible # << >>
      /\ After(Head(pending), s) = Extended(s, Declares[table])
      /\ Finds(Head(pending), s) = Free[table][TableEnv(s, Names)]
  BY <1>1, TableExpressionCalled
<1>3. table.path \in Seq(Identifiers)
  BY <1>2, PathSyntax DEF Trees
<1>4. /\ {p \in {table.path} : p # << >> /\ IsTable(p, Head(s.visible))} = names
      /\ names \in SUBSET Paths
  BY <1>3, ScopeFields, PathsFound
<1> HIDE DEF table, s
<1>5. PICK inner : /\ Lead(calls, s, Extended(s, Declares[table]), inner)
                   /\ Free[table][TableEnv(s, Names)] = names \cup inner
  BY <1>2, PathMakes
<1>6. Scope' = s
  BY <1>1, SameScope DEF s
<1> HIDE DEF calls, names
<1>7. Lead(calls, Scope', After(Head(pending), Scope), inner) /\ names \cup inner = Finds(Head(pending), Scope)
  BY <1>2, <1>5, <1>6 DEF s
<1>8. table_names' = table_names \cup names
  BY <1>1, <1>4
<1> QED  BY <1>1, <1>2, <1>4, <1>7, <1>8, Proceeds

LEMMA FunctionStep ==
  ASSUME IInv, FindInTVF
  PROVE  IInv'
<1> DEFINE table == Node
           s == Scope
           calls == Calls("FindInQuery", table.exprs, Head(s.visible))
                      \o Calls("FindInTableExpression", table.inner, Names)
           names == UNION {FreePath(p, s.aliases, {}, Named(s.view)) : p \in table.tables}
<1>1. /\ TableExpression("tvf") /\ Makes(calls) /\ UNCHANGED scope
      /\ table_names' = table_names \cup {p \in table.tables : IsTable(p, {})}
  BY ScopeFields DEF FindInTVF, FindInExpressionsUnder
<1>2. /\ Calling("FindInTableExpression") /\ script' = script /\ outcome' = outcome
      /\ table \in TableExpressions /\ table.kind = "tvf" /\ Names \in SUBSET Identifiers
      /\ s \in Scopes /\ s.visible # << >> /\ Names \subseteq Head(s.visible)
      /\ After(Head(pending), s) = Extended(s, Declares[table])
      /\ Finds(Head(pending), s) = Free[table][TableEnv(s, Names)]
  BY <1>1, TableExpressionCalled
<1>3. table.tables \in SUBSET Paths
  BY <1>2, TvfSyntax DEF Trees
<1>4. {p \in table.tables : IsTable(p, {})} = names /\ names \in SUBSET Paths
  BY <1>3, ScopeFields, FunctionTablesFound
<1> HIDE DEF table, s
<1>5. PICK inner : /\ Lead(calls, s, Extended(s, Declares[table]), inner)
                   /\ Free[table][TableEnv(s, Names)] = names \cup inner
  BY <1>2, TvfMakes
<1>6. Scope' = s
  BY <1>1, SameScope DEF s
<1> HIDE DEF calls, names
<1>7. Lead(calls, Scope', After(Head(pending), Scope), inner) /\ names \cup inner = Finds(Head(pending), Scope)
  BY <1>2, <1>5, <1>6 DEF s
<1>8. table_names' = table_names \cup names
  BY <1>1, <1>4
<1> QED  BY <1>1, <1>2, <1>4, <1>7, <1>8, Proceeds

LEMMA SubqueryStep ==
  ASSUME IInv, FindInTableSubquery
  PROVE  IInv'
<1> DEFINE calls == <<Call("FindInQuery", Node.query, Names)>>
                      \o <<Call("DeclareVisible", << >>, Alias(Node.alias, << >>))>>
<1>1. TableExpression("subquery") /\ Makes(calls) /\ UNCHANGED <<found, scope>>
  BY DEF FindInTableSubquery, DeclareVisible
<1>2. Lead(calls, Scope, After(Head(pending), Scope), Finds(Head(pending), Scope))
  <2> DEFINE table == Node
             s == Scope
  <2>1. /\ table \in TableExpressions /\ table.kind = "subquery" /\ Names \in SUBSET Identifiers
        /\ s \in Scopes /\ s.visible # << >> /\ Names \subseteq Head(s.visible)
        /\ After(Head(pending), s) = Extended(s, Declares[table])
        /\ Finds(Head(pending), s) = Free[table][TableEnv(s, Names)]
    BY <1>1, TableExpressionCalled
  <2> HIDE DEF table, s
  <2>2. Lead(<<Call("FindInQuery", table.query, Names)>>
                   \o <<Call("DeclareVisible", << >>, Alias(table.alias, << >>))>>, s,
             Extended(s, Declares[table]), Free[table][TableEnv(s, Names)])
    BY <2>1, SubqueryMakes
  <2> QED  BY <2>1, <2>2 DEF table, s
<1>3. Scope' = Scope
  BY <1>1, SameScope
<1> HIDE DEF calls
<1>4. Lead(calls, Scope', After(Head(pending), Scope), Finds(Head(pending), Scope))
  BY <1>2, <1>3
<1> QED  BY <1>1, <1>4, TableExpressionCalled, Descends DEF found

LEMMA JoinStep ==
  ASSUME IInv, FindInJoin
  PROVE  IInv'
<1> DEFINE calls == JoinCalls(Node, Names)
<1>1. TableExpression("join") /\ Makes(calls) /\ UNCHANGED <<found, scope>>
  BY DEF FindInJoin
<1>2. Lead(calls, Scope, After(Head(pending), Scope), Finds(Head(pending), Scope))
  <2> DEFINE table == Node
             s == Scope
  <2>1. /\ table \in TableExpressions /\ table.kind = "join" /\ Names \in SUBSET Identifiers
        /\ s \in Scopes /\ s.visible # << >> /\ Names \subseteq Head(s.visible)
        /\ After(Head(pending), s) = Extended(s, Declares[table])
        /\ Finds(Head(pending), s) = Free[table][TableEnv(s, Names)]
    BY <1>1, TableExpressionCalled
  <2> HIDE DEF table, s
  <2>2. Lead(JoinCalls(table, Names), s,
             Extended(s, Declares[table]), Free[table][TableEnv(s, Names)])
    BY <2>1, JoinMakes
  <2> QED  BY <2>1, <2>2 DEF table, s
<1>3. Scope' = Scope
  BY <1>1, SameScope
<1> HIDE DEF calls
<1>4. Lead(calls, Scope', After(Head(pending), Scope), Finds(Head(pending), Scope))
  BY <1>2, <1>3
<1> QED  BY <1>1, <1>4, TableExpressionCalled, Descends DEF found

LEMMA ParenthesizedStep ==
  ASSUME IInv, FindInParenthesizedJoin
  PROVE  IInv'
<1> DEFINE calls == JoinCalls(Node, Names) \o <<Call("EndParentheses", << >>, {})>>
           r == ScopeOf(Scope.aliases, Scope.view, <<Names>> \o Scope.visible)
<1>1. /\ TableExpression("parenthesized") /\ Makes(calls) /\ visible' = <<Names>> \o visible
      /\ UNCHANGED <<found, local_table_aliases_, recursive_view_name_>>
  BY DEF FindInParenthesizedJoin
<1>2. Lead(calls, r, After(Head(pending), Scope), Finds(Head(pending), Scope))
  <2> DEFINE table == Node
             s == Scope
  <2>1. /\ table \in TableExpressions /\ table.kind = "parenthesized" /\ Names \in SUBSET Identifiers
        /\ s \in Scopes /\ s.visible # << >> /\ Names \subseteq Head(s.visible)
        /\ After(Head(pending), s) = Extended(s, Declares[table])
        /\ Finds(Head(pending), s) = Free[table][TableEnv(s, Names)]
    BY <1>1, TableExpressionCalled
  <2> HIDE DEF table, s
  <2>2. Lead(JoinCalls(table, Names) \o <<Call("EndParentheses", << >>, {})>>, ScopeOf(s.aliases, s.view, <<Names>> \o s.visible),
             Extended(s, Declares[table]), Free[table][TableEnv(s, Names)])
    BY <2>1, ParenthesizedMakes
  <2> QED  BY <2>1, <2>2 DEF table, s
<1>3. Scope' = r
  BY <1>1, ScopeFields DEF Scope, ScopeOf
<1> HIDE DEF calls, r
<1>4. Lead(calls, Scope', After(Head(pending), Scope), Finds(Head(pending), Scope))
  BY <1>2, <1>3
<1> QED  BY <1>1, <1>4, TableExpressionCalled, Descends DEF found

LEMMA FinishStep ==
  ASSUME IInv, Finish
  PROVE  IInv'
<1>1. /\ outcome = "running" /\ pending = << >> /\ outcome' = "done"
      /\ script' = script /\ pending' = pending /\ table_names' = table_names /\ UNCHANGED scope
  BY DEF Finish, found
<1>2. Scope' = Scope
  BY <1>1, SameScope
<1>3. PendingFindsTheRest
  BY <1>1 DEF IInv
<1>4. PendingFindsTheRest'
  BY <1>1, <1>2, <1>3 DEF PendingFindsTheRest, AllFound, EmptyScope, ScopeOf
<1> QED  BY <1>1, <1>2, <1>4 DEF IInv, Scopes

LEMMA Stutter ==
  ASSUME IInv, UNCHANGED vars
  PROVE  IInv'
<1>1. /\ outcome' = outcome /\ script' = script /\ pending' = pending
      /\ table_names' = table_names /\ UNCHANGED scope
  BY DEF vars, found
<1>2. Scope' = Scope
  BY <1>1, SameScope
<1>3. PendingFindsTheRest' <=> PendingFindsTheRest
  BY <1>1, <1>2 DEF PendingFindsTheRest, AllFound, EmptyScope, ScopeOf
<1> QED  BY <1>1, <1>2, <1>3 DEF IInv, Scopes

LEMMA Inductive == IInv /\ [Next]_vars => IInv'
<1> SUFFICES ASSUME IInv, [Next]_vars
             PROVE  IInv'
  OBVIOUS
<1>1. CASE FindInStatement  BY <1>1, StatementStep
<1>2. CASE \/ FindInQueryStatement \/ FindInScalarStatement \/ IgnoreStatement \/ FindInNestedStatements
  BY <1>2, PlainCaseStep
<1>3. CASE NameTarget  BY <1>3, TargetStep
<1>4. CASE FindInCreateViewStatement  BY <1>4, ViewStep
<1>5. CASE FindInCreateTableFunctionStatement  BY <1>5, TableFunctionStep
<1>6. CASE FindInDmlStatement  BY <1>6, DmlStep
<1>7. CASE TargetIsNested  BY <1>7, NestedTargetStep
<1>8. CASE \/ EndView \/ DeclareAlias \/ RestoreAliases \/ EndScope \/ EndParentheses \/ DeclareTableAlias
  BY <1>8, CloserStep
<1>9. CASE FindInExpressions  BY <1>9, ExpressionsStep
<1>10. CASE FindInQuery  BY <1>10, QueryStep
<1>11. CASE \/ FindInSelect \/ FindInSetOperation \/ FindInParenthesizedQuery
  BY <1>11, QueryExpressionStep
<1>12. CASE FindInTablePathExpression  BY <1>12, PathStep
<1>13. CASE FindInTVF  BY <1>13, FunctionStep
<1>14. CASE FindInTableSubquery  BY <1>14, SubqueryStep
<1>15. CASE FindInJoin  BY <1>15, JoinStep
<1>16. CASE FindInParenthesizedJoin  BY <1>16, ParenthesizedStep
<1>17. CASE Finish  BY <1>17, FinishStep
<1>18. CASE Terminated \/ UNCHANGED vars  BY <1>18, Stutter DEF Terminated
<1> QED
  BY <1>1, <1>2, <1>3, <1>4, <1>5, <1>6, <1>7, <1>8, <1>9, <1>10, <1>11, <1>12, <1>13, <1>14,
     <1>15, <1>16, <1>17, <1>18 DEF Next

LEMMA Invariant == Spec => []IInv
<1>1. Init => IInv
  BY Initially
<1> QED  BY <1>1, Inductive, PTL DEF Spec

-----------------------------------------------------------------------------
(* The theorems.                                                           *)

LEMMA NoCallIsLeft ==
  ASSUME IInv, outcome # "error", pending = << >>
  PROVE  Scope = EmptyScope /\ table_names = AllFound
<1>1. PICK rest : Lead(pending, Scope, EmptyScope, rest) /\ table_names \cup rest = AllFound
  BY DEF IInv, PendingFindsTheRest
<1>2. Scope = EmptyScope /\ rest = {}
  BY <1>1, LeadsNowhere
<1> QED  BY <1>1, <1>2

\* The paths found are paths, all names in scope are identifiers, and GetTables
\* ends with a result or an error, never with a failed check.
THEOREM Types == Spec => []TypeOK
<1>1. IInv => TypeOK
  <2> SUFFICES ASSUME IInv PROVE TypeOK
    OBVIOUS
  <2>1. \A path \in table_names : path \in Seq(Identifiers) /\ path # << >>
    BY DEF IInv, Paths
  <2>2. \A path \in table_names : Range(path) \subseteq Identifiers
    <3>1. \A path \in Seq(Identifiers) : \A i \in DOMAIN path : path[i] \in Identifiers
      BY Elements
    <3> QED  BY <2>1, <3>1 DEF Range
  <2>3. Scope \in Scopes
    BY DEF IInv
  <2>4. /\ local_table_aliases_ \in SUBSET Identifiers
        /\ recursive_view_name_ \in Seq(Identifiers)
        /\ visible \in Seq(SUBSET Identifiers)
    BY <2>3, ScopeFields, ScopeType
  <2>5. Range(recursive_view_name_) \subseteq Identifiers
    BY <2>4, Elements DEF Range
  <2>6. \A i \in DOMAIN visible : visible[i] \subseteq Identifiers
    BY <2>4
  <2>7. outcome \in {"running", "done", "error", "check_failed"}
    BY DEF IInv
  <2> QED  BY <2>1, <2>2, <2>4, <2>5, <2>6, <2>7 DEF TypeOK
<1> QED  BY <1>1, Invariant, PTL

\* Between two statements of a script, at any depth, no alias, range variable or
\* view name is left from an earlier one, and the check that none is when a table
\* function is created (l. 718) never fails.
THEOREM ScopesEnd == Spec => []ScopesEndWithStatement
<1>1. IInv => ScopesEndWithStatement
  <2> SUFFICES ASSUME IInv PROVE ScopesEndWithStatement
    OBVIOUS
  <2>1. outcome # "check_failed"
    BY DEF IInv
  <2>2. pending = << >> => Scope = EmptyScope
    BY NoCallIsLeft DEF IInv
  <2>3. Calling("FindInStatement") => Scope = EmptyScope
    BY Called, Effect
  <2>4. Scope = EmptyScope =>
          local_table_aliases_ = {} /\ recursive_view_name_ = << >> /\ visible = << >>
    BY ScopeFields, EmptyScopeType
  <2> QED  BY <2>1, <2>2, <2>3, <2>4 DEF ScopesEndWithStatement
<1> QED  BY <1>1, Invariant, PTL

\* In a FROM clause, in nested and in parenthesized joins too, the range variables
\* from outside of it stay visible next to its own (l. 124-129).
THEOREM LocalKeepsExternal == Spec => []LocalIncludesExternal
<1>1. IInv => LocalIncludesExternal
  <2> SUFFICES ASSUME IInv, Calling("FindInTableExpression") PROVE Names \subseteq Head(visible)
    BY DEF LocalIncludesExternal
  <2>1. Head(pending).fn = "FindInTableExpression" /\ Fits(Head(pending), Scope)
    BY Called
  <2>2. Head(pending).names \subseteq Head(Scope.visible)
    BY <2>1, Effect
  <2> QED  BY <2>2, ScopeFields DEF Names
<1> QED  BY <1>1, Invariant, PTL

-----------------------------------------------------------------------------
(***************************************************************************)
(* To add to an environment entries A of WITH and spellings B of a view    *)
(* takes away at most the uses of these.                                   *)
(***************************************************************************)

Wider(env, A, B) == InFrom(env.W \cup A, env.R, env.L, env.V \cup B)

Uses(A, B) == {<<i>> : i \in {j \in Identifiers : Lower[j] \in A}} \cup (B \ {<< >>})

Between(fewer, names, uses) == fewer \subseteq names /\ names \subseteq fewer \cup uses

LEMMA WiderFields ==
  ASSUME NEW env, NEW A, NEW B
  PROVE  /\ Wider(env, A, B).W = env.W \cup A /\ Wider(env, A, B).R = env.R
         /\ Wider(env, A, B).L = env.L /\ Wider(env, A, B).V = env.V \cup B
BY DEF Wider, InFrom

LEMMA EnvironmentFields ==
  ASSUME NEW env \in Environments
  PROVE  /\ env.W \in SUBSET Identifiers /\ env.R \in SUBSET Identifiers
         /\ env.L \in SUBSET Identifiers /\ env.V \in SUBSET Seq(Identifiers)
BY DEF Environments

LEMMA InFromType ==
  ASSUME NEW W \in SUBSET Identifiers, NEW R \in SUBSET Identifiers, NEW L \in SUBSET Identifiers,
         NEW V \in SUBSET Seq(Identifiers)
  PROVE  InFrom(W, R, L, V) \in Environments /\ Environment(W, R, V) \in Environments
BY DEF InFrom, Environment, Environments

\* The environments of the nodes below a node.
LEMMA WiderInside ==
  ASSUME NEW env \in Environments, NEW A \in SUBSET Identifiers, NEW B \in SUBSET Seq(Identifiers),
         NEW names \in SUBSET Identifiers
  PROVE  /\ Wider(env, A, B) \in Environments
         /\ Among(env, names) \in Environments
         /\ Wider(Among(env, names), A, B) = Among(Wider(env, A, B), names)
         /\ InFrom(env.W, env.R, names, env.V) \in Environments
         /\ Wider(InFrom(env.W, env.R, names, env.V), A, B)
              = InFrom(Wider(env, A, B).W, Wider(env, A, B).R, names, Wider(env, A, B).V)
<1>1. env.W \cup A \in SUBSET Identifiers /\ env.V \cup B \in SUBSET Seq(Identifiers)
  BY EnvironmentFields
<1>2. Wider(env, A, B) \in Environments
  BY <1>1, EnvironmentFields, InFromType DEF Wider
<1>3. Among(env, names) \in Environments /\ InFrom(env.W, env.R, names, env.V) \in Environments
  BY EnvironmentFields, InFromType DEF Among
<1>4. Wider(Among(env, names), A, B) = Among(Wider(env, A, B), names)
  BY DEF Wider, Among, Environment, InFrom
<1>5. Wider(InFrom(env.W, env.R, names, env.V), A, B)
        = InFrom(Wider(env, A, B).W, Wider(env, A, B).R, names, Wider(env, A, B).V)
  BY DEF Wider, InFrom
<1> QED  BY <1>2, <1>3, <1>4, <1>5

LEMMA WiderSeeing ==
  ASSUME NEW env \in Environments, NEW A \in SUBSET Identifiers, NEW B \in SUBSET Seq(Identifiers),
         NEW query \in Queries, NEW entries \in SUBSET DOMAIN query.with
  PROVE  /\ Seeing(entries, query, env) \in Environments
         /\ Wider(Seeing(entries, query, env), A, B) = Seeing(entries, query, Wider(env, A, B))
<1> DEFINE names == {Lower[query.with[i].alias] : i \in entries}
<1>1. names \in SUBSET Identifiers
  <2>1. \A i \in entries : query.with[i].alias \in Identifiers
    BY QuerySyntax DEF Trees, Queries
  <2> QED  BY <2>1, IdentifiersAssumption
<1>2. /\ Seeing(entries, query, env) = Environment(env.W \cup names, env.R, env.V)
      /\ Seeing(entries, query, Wider(env, A, B))
           = Environment((env.W \cup A) \cup names, env.R, env.V \cup B)
  <2> DEFINE wide == Wider(env, A, B)
  <2>1. wide.W = env.W \cup A /\ wide.R = env.R /\ wide.V = env.V \cup B
    BY WiderFields
  <2> HIDE DEF wide
  <2>2. Seeing(entries, query, wide) = Environment((env.W \cup A) \cup names, env.R, env.V \cup B)
    BY <2>1 DEF Seeing
  <2> QED  BY <2>2 DEF Seeing, wide
<1> HIDE DEF names
<1>3. (env.W \cup A) \cup names = (env.W \cup names) \cup A
  OBVIOUS
<1>4. env.W \cup names \in SUBSET Identifiers
  BY <1>1, EnvironmentFields
<1>5. Environment(env.W \cup names, env.R, env.V) \in Environments
  BY <1>4, EnvironmentFields, InFromType
<1>6. Wider(Environment(env.W \cup names, env.R, env.V), A, B)
        = Environment((env.W \cup names) \cup A, env.R, env.V \cup B)
  BY DEF Wider, Environment, InFrom
<1> QED  BY <1>2, <1>3, <1>5, <1>6

LEMMA BetweenBoth ==
  ASSUME NEW f, NEW g, NEW uses, NEW x, NEW y, Between(f, g, uses), Between(x, y, uses)
  PROVE  Between(f \cup x, g \cup y, uses)
BY DEF Between

LEMMA BetweenInEach ==
  ASSUME NEW nodes, NEW env, NEW wide, NEW uses,
         \A i \in DOMAIN nodes : Between(Free[nodes[i]][wide], Free[nodes[i]][env], uses)
  PROVE  Between(FreeInEach(nodes, wide, Free), FreeInEach(nodes, env, Free), uses)
BY DEF Between, FreeInEach

LEMMA BetweenPaths ==
  ASSUME NEW path \in Seq(Identifiers), NEW env, NEW R, NEW A, NEW B
  PROVE  Between(FreePath(path, env.W \cup A, R, env.V \cup B), FreePath(path, env.W, R, env.V), Uses(A, B))
<1>1. FreePath(path, env.W \cup A, R, env.V \cup B) \subseteq FreePath(path, env.W, R, env.V)
  BY DEF FreePath
<1>2. ASSUME path # << >>, path \notin FreePath(path, env.W \cup A, R, env.V \cup B),
             path \in FreePath(path, env.W, R, env.V)
      PROVE  path \in Uses(A, B)
  <2>1. CASE path \in B
    BY <1>2, <2>1 DEF Uses
  <2>2. CASE path \notin B
    <3>1. Len(path) = 1 /\ Lower[path[1]] \in A
      BY <1>2, <2>2 DEF FreePath
    <3>2. path[1] \in Identifiers /\ <<path[1]>> \in Seq(Identifiers)
          /\ Len(<<path[1]>>) = 1 /\ <<path[1]>>[1] = path[1]
      BY <3>1
    <3>3. \A i \in 1 .. Len(path) : path[i] = <<path[1]>>[i]
      BY <3>1, <3>2
    <3>4. path = <<path[1]>>
      BY <3>1, <3>2, <3>3, SeqEqual
    <3> QED  BY <3>1, <3>2, <3>4 DEF Uses
  <2> QED  BY <2>1, <2>2
<1>3. FreePath(path, env.W, R, env.V) \subseteq {path}
      /\ (path \in FreePath(path, env.W, R, env.V) => path # << >>)
  BY DEF FreePath
<1> QED  BY <1>1, <1>2, <1>3 DEF Between

LEMMA VariablesType ==
  ASSUME NEW expr \in QueryExpressions
  PROVE  /\ Variables(expr) \in SUBSET Identifiers
         /\ expr.kind = "select" => DeclaredIn(expr.from) \in SUBSET Identifiers
<1>1. CASE expr.kind = "select"
  <2>1. \A i \in DOMAIN expr.from : Declares[expr.from[i]] \subseteq Identifiers
    BY <1>1, SelectSyntax, DeclaresType DEF Trees
  <2>2. DeclaredIn(expr.from) \in SUBSET Identifiers
    BY <2>1 DEF DeclaredIn
  <2> QED  BY <1>1, <2>2 DEF Variables
<1>2. CASE expr.kind # "select"
  BY <1>2 DEF Variables
<1> QED  BY <1>1, <1>2

LEMMA FreeIsBetween ==
  ASSUME NEW A \in SUBSET Identifiers, NEW B \in SUBSET Seq(Identifiers)
  PROVE  \A node \in Trees : \A env \in Environments :
           Between(Free[node][Wider(env, A, B)], Free[node][env], Uses(A, B))
<1> DEFINE Good(n) == \A env \in Environments :
                         Between(Free[n][Wider(env, A, B)], Free[n][env], Uses(A, B))
           S == {n \in Trees : Good(n)}
<1>1. SUFFICES Trees \subseteq S
  OBVIOUS
<1>2. SUFFICES ASSUME NEW n \in Trees, \A m \in Trees : Depth[m] < Depth[n] => Good(m)
               PROVE  Good(n)
  <2> HIDE DEF Good
  <2>1. \A n \in Trees : (\A m \in Trees : Depth[m] < Depth[n] => m \in S) => n \in S
    BY <1>2
  <2> HIDE DEF S
  <2> QED  BY <2>1, DepthIsNumber, OfTrees!StructuralInduction DEF OfTrees!Ranked
<1>3. SUFFICES ASSUME NEW env \in Environments
               PROVE  Between(FreeIn(n, Wider(env, A, B), Free), FreeIn(n, env, Free), Uses(A, B))
  <2>1. \A env \in Environments : Wider(env, A, B) \in Environments
    BY WiderInside, EnvironmentFields
  <2> QED  BY <1>3, <2>1, FreeUnfolds
<1> DEFINE wide == Wider(env, A, B)
           U == Uses(A, B)
<1>4. /\ wide.W = env.W \cup A /\ wide.R = env.R /\ wide.L = env.L /\ wide.V = env.V \cup B
      /\ env.R \in SUBSET Identifiers /\ env.L \in SUBSET Identifiers
  BY WiderFields, EnvironmentFields
<1>5. Queries \subseteq Trees /\ QueryExpressions \subseteq Trees
      /\ TableExpressions \subseteq Trees /\ Functions \subseteq Trees
  BY DEF Trees, Queries, Functions
\* The nodes below, one and several, among range variables.
<1>6. \A m \in Trees : Depth[m] < Depth[n] => \A e \in Environments :
        Between(Free[m][Wider(e, A, B)], Free[m][e], U)
  BY <1>2
<1>7. \A nodes : \A e \in Environments :
        (\A i \in DOMAIN nodes : nodes[i] \in Trees /\ Depth[nodes[i]] < Depth[n])
          => Between(FreeInEach(nodes, Wider(e, A, B), Free), FreeInEach(nodes, e, Free), U)
  BY <1>6, BetweenInEach
<1>8. \A names \in SUBSET Identifiers : Among(env, names) \in Environments
        /\ Wider(Among(env, names), A, B) = Among(wide, names)
  BY WiderInside
<1> HIDE DEF wide, U, Good
<1>9. \A nodes : \A names \in SUBSET Identifiers :
        (\A i \in DOMAIN nodes : nodes[i] \in Trees /\ Depth[nodes[i]] < Depth[n])
          => Between(FreeInEach(nodes, Among(wide, names), Free), FreeInEach(nodes, Among(env, names), Free), U)
  BY <1>7, <1>8
<1> SUFFICES Between(FreeIn(n, wide, Free), FreeIn(n, env, Free), U)
  BY DEF wide, U
<1>10. CASE n.kind = "query"
  <2>1. n \in Queries /\ n.expr \in QueryExpressions /\ n.expr \in Trees /\ Depth[n.expr] < Depth[n]
    BY <1>5, <1>10, QuerySyntax
  <2> DEFINE Entry(e, i) == Free[n.with[i].query][Seeing(EntriesSeen(n, i), n, e)]
             inside(e) == Seeing(DOMAIN n.with, n, e)
             names == env.R \cup Variables(n.expr)
  <2>2. \A e : FreeIn(n, e, Free)
          = (UNION {Entry(e, i) : i \in DOMAIN n.with}) \cup Free[n.expr][inside(e)]
              \cup FreeInEach(n.order, Among(inside(e), e.R \cup Variables(n.expr)), Free)
    BY <1>10 DEF FreeIn, FreeInQuery
  <2>3. inside(env) \in Environments /\ Wider(inside(env), A, B) = inside(wide)
    BY <2>1, WiderSeeing DEF wide
  <2>4. \A i \in DOMAIN n.with : Between(Entry(wide, i), Entry(env, i), U)
    <3>1. TAKE i \in DOMAIN n.with
    <3>2. EntriesSeen(n, i) \in SUBSET DOMAIN n.with
      BY <2>1, EntryNodes DEF EntriesSeen
    <3>3. /\ Seeing(EntriesSeen(n, i), n, env) \in Environments
          /\ Wider(Seeing(EntriesSeen(n, i), n, env), A, B) = Seeing(EntriesSeen(n, i), n, wide)
      BY <2>1, <3>2, WiderSeeing DEF wide
    <3>4. n.with[i].query \in Trees /\ Depth[n.with[i].query] < Depth[n]
      BY <1>5, <1>10, QuerySyntax
    <3> QED  BY <1>6, <3>3, <3>4
  <2>5. Between(UNION {Entry(wide, i) : i \in DOMAIN n.with}, UNION {Entry(env, i) : i \in DOMAIN n.with}, U)
    BY <2>4 DEF Between
  <2>6. Between(Free[n.expr][inside(wide)], Free[n.expr][inside(env)], U)
    BY <1>6, <2>1, <2>3
  <2>7. names \in SUBSET Identifiers
    BY <1>4, <2>1, VariablesType
  <2>8. \A i \in DOMAIN n.order : n.order[i] \in Trees /\ Depth[n.order[i]] < Depth[n]
    BY <1>5, <1>10, QuerySyntax
  <2> HIDE DEF Entry, inside, names
  <2>9. /\ Among(inside(env), names) \in Environments
        /\ Wider(Among(inside(env), names), A, B) = Among(inside(wide), names)
    BY <2>3, <2>7, WiderInside
  <2>10. Between(FreeInEach(n.order, Among(inside(wide), names), Free),
                 FreeInEach(n.order, Among(inside(env), names), Free), U)
    BY <1>7, <2>8, <2>9
  <2> DEFINE E(e) == UNION {Entry(e, i) : i \in DOMAIN n.with}
             X(e) == Free[n.expr][inside(e)]
             O(e) == FreeInEach(n.order, Among(inside(e), names), Free)
  <2>11. FreeIn(n, wide, Free) = (E(wide) \cup X(wide)) \cup O(wide)
         /\ FreeIn(n, env, Free) = (E(env) \cup X(env)) \cup O(env)
    BY <1>4, <2>2 DEF names
  <2>12. Between(E(wide), E(env), U) /\ Between(X(wide), X(env), U) /\ Between(O(wide), O(env), U)
    BY <2>5, <2>6, <2>10
  <2> HIDE DEF E, X, O
  <2>13. Between(E(wide) \cup X(wide), E(env) \cup X(env), U)
    BY <2>12, BetweenBoth
  <2>14. Between((E(wide) \cup X(wide)) \cup O(wide), (E(env) \cup X(env)) \cup O(env), U)
    BY <2>12, <2>13, BetweenBoth
  <2> QED  BY <2>11, <2>14
<1>11. CASE n.kind = "select"
  <2> DEFINE names == env.R \cup DeclaredIn(n.from)
  <2>1. names \in SUBSET Identifiers
    BY <1>4, <1>11, VariablesType, SelectSyntax
  <2>2. /\ \A i \in DOMAIN n.from : n.from[i] \in Trees /\ Depth[n.from[i]] < Depth[n]
        /\ \A i \in DOMAIN n.exprs : n.exprs[i] \in Trees /\ Depth[n.exprs[i]] < Depth[n]
    BY <1>5, <1>11, SelectSyntax
  <2>3. FreeIn(n, wide, Free) = FreeInEach(n.from, wide, Free) \cup FreeInEach(n.exprs, Among(wide, names), Free)
        /\ FreeIn(n, env, Free) = FreeInEach(n.from, env, Free) \cup FreeInEach(n.exprs, Among(env, names), Free)
    BY <1>4, <1>11 DEF FreeIn
  <2> HIDE DEF names
  <2>4. Between(FreeInEach(n.from, wide, Free), FreeInEach(n.from, env, Free), U)
    BY <1>7, <2>2 DEF wide
  <2>5. Between(FreeInEach(n.exprs, Among(wide, names), Free), FreeInEach(n.exprs, Among(env, names), Free), U)
    BY <1>9, <2>1, <2>2
  <2> QED  BY <2>3, <2>4, <2>5, BetweenBoth
<1>12. CASE n.kind = "set"
  <2>1. \A i \in DOMAIN n.inputs : n.inputs[i] \in Trees /\ Depth[n.inputs[i]] < Depth[n]
    BY <1>5, <1>12, SetSyntax
  <2>2. Between(FreeInEach(n.inputs, wide, Free), FreeInEach(n.inputs, env, Free), U)
    BY <1>7, <2>1 DEF wide
  <2> QED  BY <1>12, <2>2 DEF FreeIn
<1>13. CASE n.kind = "path"
  <2>1. /\ n.path \in Seq(Identifiers)
        /\ \A i \in DOMAIN n.exprs : n.exprs[i] \in Trees /\ Depth[n.exprs[i]] < Depth[n]
    BY <1>5, <1>13, PathSyntax
  <2>2. Between(FreePath(n.path, wide.W, wide.L, wide.V), FreePath(n.path, env.W, env.L, env.V), U)
    BY <1>4, <2>1, BetweenPaths DEF U
  <2>3. Between(FreeInEach(n.exprs, Among(wide, env.L), Free), FreeInEach(n.exprs, Among(env, env.L), Free), U)
    BY <1>4, <1>9, <2>1
  <2>4. \A e : FreeIn(n, e, Free) = FreePath(n.path, e.W, e.L, e.V) \cup FreeInEach(n.exprs, Among(e, e.L), Free)
    BY <1>13 DEF FreeIn
  <2>5. /\ FreeIn(n, wide, Free)
             = FreePath(n.path, wide.W, wide.L, wide.V) \cup FreeInEach(n.exprs, Among(wide, env.L), Free)
        /\ FreeIn(n, env, Free)
             = FreePath(n.path, env.W, env.L, env.V) \cup FreeInEach(n.exprs, Among(env, env.L), Free)
    BY <1>4, <2>4
  <2> QED  BY <2>2, <2>3, <2>5, BetweenBoth
<1>14. CASE n.kind = "subquery"
  <2>1. n.query \in Trees /\ Depth[n.query] < Depth[n]
    BY <1>5, <1>14, SubquerySyntax
  <2>2. Between(Free[n.query][Among(wide, env.R)], Free[n.query][Among(env, env.R)], U)
    BY <1>4, <1>6, <1>8, <2>1
  <2> QED  BY <1>4, <1>14, <2>2 DEF FreeIn
<1>15. ASSUME n.kind \in {"join", "parenthesized"}, NEW e \in Environments
       PROVE  Between(FreeInJoin(n, Wider(e, A, B), Free), FreeInJoin(n, e, Free), U)
  <2> DEFINE w == Wider(e, A, B)
             after == e.L \cup Declares[n.lhs]
             both == after \cup Declares[n.rhs]
  <2>1. /\ n.lhs \in Trees /\ Depth[n.lhs] < Depth[n]
        /\ n.rhs \in Trees /\ Depth[n.rhs] < Depth[n]
        /\ \A i \in DOMAIN n.on : n.on[i] \in Trees /\ Depth[n.on[i]] < Depth[n]
    BY <1>5, <1>15, JoinSyntax
  <2>2. after \in SUBSET Identifiers /\ both \in SUBSET Identifiers
    BY <1>15, JoinSyntax, DeclaresType, EnvironmentFields
  <2>3. w.W = e.W \cup A /\ w.R = e.R /\ w.L = e.L /\ w.V = e.V \cup B
    BY WiderFields
  <2>4. /\ FreeInJoin(n, w, Free)
             = (Free[n.lhs][w] \cup Free[n.rhs][InFrom(w.W, w.R, after, w.V)])
                 \cup FreeInEach(n.on, Among(w, both), Free)
        /\ FreeInJoin(n, e, Free)
             = (Free[n.lhs][e] \cup Free[n.rhs][InFrom(e.W, e.R, after, e.V)])
                 \cup FreeInEach(n.on, Among(e, both), Free)
    BY <2>3 DEF FreeInJoin
  <2> HIDE DEF after, both
  <2>5. /\ Among(e, both) \in Environments /\ Wider(Among(e, both), A, B) = Among(w, both)
        /\ InFrom(e.W, e.R, after, e.V) \in Environments
        /\ Wider(InFrom(e.W, e.R, after, e.V), A, B) = InFrom(w.W, w.R, after, w.V)
    BY <1>15, <2>2, WiderInside
  <2>6. Between(Free[n.lhs][w], Free[n.lhs][e], U)
    BY <1>6, <1>15, <2>1
  <2>7. Between(Free[n.rhs][InFrom(w.W, w.R, after, w.V)], Free[n.rhs][InFrom(e.W, e.R, after, e.V)], U)
    BY <1>6, <2>1, <2>5
  <2>8. Between(FreeInEach(n.on, Among(w, both), Free), FreeInEach(n.on, Among(e, both), Free), U)
    BY <1>7, <2>1, <2>5
  <2>9. Between(Free[n.lhs][w] \cup Free[n.rhs][InFrom(w.W, w.R, after, w.V)],
                Free[n.lhs][e] \cup Free[n.rhs][InFrom(e.W, e.R, after, e.V)], U)
    BY <2>6, <2>7, BetweenBoth
  <2> HIDE DEF w
  <2>10. Between(FreeInJoin(n, w, Free), FreeInJoin(n, e, Free), U)
    BY <2>4, <2>8, <2>9, BetweenBoth
  <2> QED  BY <2>10 DEF w
<1>16. CASE n.kind = "join"
  <2>1. FreeIn(n, wide, Free) = FreeInJoin(n, wide, Free) /\ FreeIn(n, env, Free) = FreeInJoin(n, env, Free)
    BY <1>16 DEF FreeIn
  <2> QED  BY <1>15, <1>16, <2>1 DEF wide
<1>17. CASE n.kind = "parenthesized"
  <2>1. /\ FreeIn(n, wide, Free) = FreeInJoin(n, Among(wide, env.R), Free)
        /\ FreeIn(n, env, Free) = FreeInJoin(n, Among(env, env.R), Free)
    BY <1>4, <1>17 DEF FreeIn
  <2>2. Among(env, env.R) \in Environments /\ Wider(Among(env, env.R), A, B) = Among(wide, env.R)
    BY <1>4, <1>8
  <2>3. Between(FreeInJoin(n, Wider(Among(env, env.R), A, B), Free), FreeInJoin(n, Among(env, env.R), Free), U)
    BY <1>15, <1>17, <2>2
  <2> QED  BY <2>1, <2>2, <2>3
<1>18. CASE n.kind = "tvf"
  <2>1. /\ n.tables \subseteq Paths
        /\ \A i \in DOMAIN n.exprs : n.exprs[i] \in Trees /\ Depth[n.exprs[i]] < Depth[n]
        /\ \A i \in DOMAIN n.inner : n.inner[i] \in Trees /\ Depth[n.inner[i]] < Depth[n]
    BY <1>5, <1>18, TvfSyntax
  <2> DEFINE T(e) == UNION {FreePath(path, e.W, {}, e.V) : path \in n.tables}
             E(e) == FreeInEach(n.exprs, Among(e, e.L), Free)
             I(e) == FreeInEach(n.inner, e, Free)
  <2>2. \A path \in n.tables :
          Between(FreePath(path, wide.W, {}, wide.V), FreePath(path, env.W, {}, env.V), U)
    BY <1>4, <2>1, BetweenPaths DEF U, Paths
  <2>3. Between(T(wide), T(env), U)
    BY <2>2 DEF Between
  <2>4. Between(E(wide), E(env), U)
    BY <1>4, <1>9, <2>1
  <2>5. Between(I(wide), I(env), U)
    BY <1>7, <2>1 DEF wide
  <2>6. FreeIn(n, wide, Free) = (T(wide) \cup E(wide)) \cup I(wide)
        /\ FreeIn(n, env, Free) = (T(env) \cup E(env)) \cup I(env)
    BY <1>18 DEF FreeIn
  <2> HIDE DEF T, E, I
  <2>7. Between(T(wide) \cup E(wide), T(env) \cup E(env), U)
    BY <2>3, <2>4, BetweenBoth
  <2>8. Between((T(wide) \cup E(wide)) \cup I(wide), (T(env) \cup E(env)) \cup I(env), U)
    BY <2>5, <2>7, BetweenBoth
  <2> QED  BY <2>6, <2>8
<1> QED  BY <1>10, <1>11, <1>12, <1>13, <1>14, <1>16, <1>17, <1>18, Kinds DEF Trees

-----------------------------------------------------------------------------
(* What the code finds is what is free, and the names in other spellings.  *)

FreeInStatementBody(statement, free) ==
  FreeInEach(statement.options, Environment({}, {}, {}), Free)
    \cup FreeInCase(statement, free, Parameters(statement), RecursiveView(statement))

OfFree == INSTANCE StructuralRecursion
            WITH Nodes <- Statements, Rank <- Depth, Body <- FreeInStatementBody

RespelledBody(statement, respelled) ==
  CASE statement.kind = "table_function" ->
         {<<i>> : i \in {j \in Identifiers :
                           Lower[j] \in Parameters(statement) \ statement.parameters}}
    [] statement.kind = "view" -> RecursiveView(statement) \ {statement.target}
    [] statement.kind = "nested" -> UNION {respelled[statement.body[i]] : i \in DOMAIN statement.body}
    [] OTHER -> {}

OfRespelled == INSTANCE StructuralRecursion
                 WITH Nodes <- Statements, Rank <- Depth, Body <- RespelledBody

LEMMA FreeInStatementUnfolds ==
  ASSUME NEW statement \in Statements
  PROVE  FreeInStatement[statement] = FreeInStatementBody(statement, FreeInStatement)
<1>1. OfFree!Structural
  <2>1. SUFFICES ASSUME NEW n \in Statements, NEW f, NEW g,
                        \A m \in Statements : Depth[m] < Depth[n] => f[m] = g[m]
                 PROVE  \A W, V : FreeInCase(n, f, W, V) = FreeInCase(n, g, W, V)
    BY DEF OfFree!Structural, FreeInStatementBody
  <2>2. \A i \in DOMAIN n.body : f[n.body[i]] = g[n.body[i]]
    BY <2>1, StatementSyntax
  <2>3. CASE n.kind = "nested"
    BY <2>2, <2>3 DEF FreeInCase
  <2>4. CASE n.kind # "nested"
    BY <2>4 DEF FreeInCase
  <2> QED  BY <2>3, <2>4
<1>2. \E f : f = [n \in Statements |-> FreeInStatementBody(n, f)]
  BY <1>1, DepthIsNumber, OfFree!RecursionExists DEF OfFree!Ranked
<1>3. FreeInStatement = [n \in Statements |-> FreeInStatementBody(n, FreeInStatement)]
  BY <1>2 DEF FreeInStatement, FreeInStatementBody
<1> QED  BY <1>3

LEMMA RespelledUnfolds ==
  ASSUME NEW statement \in Statements
  PROVE  Respelled[statement] = RespelledBody(statement, Respelled)
<1>1. OfRespelled!Structural
  <2>1. SUFFICES ASSUME NEW n \in Statements, NEW f, NEW g,
                        \A m \in Statements : Depth[m] < Depth[n] => f[m] = g[m]
                 PROVE  RespelledBody(n, f) = RespelledBody(n, g)
    BY DEF OfRespelled!Structural
  <2>2. \A i \in DOMAIN n.body : f[n.body[i]] = g[n.body[i]]
    BY <2>1, StatementSyntax
  <2>3. CASE n.kind = "nested"
    BY <2>2, <2>3 DEF RespelledBody
  <2>4. CASE n.kind # "nested"
    BY <2>4 DEF RespelledBody
  <2> QED  BY <2>3, <2>4
<1>2. \E f : f = [n \in Statements |-> RespelledBody(n, f)]
  BY <1>1, DepthIsNumber, OfRespelled!RecursionExists DEF OfRespelled!Ranked
<1>3. Respelled = [n \in Statements |-> RespelledBody(n, Respelled)]
  BY <1>2 DEF Respelled, RespelledBody
<1> QED  BY <1>3

LEMMA QueriesAreBetween ==
  ASSUME NEW queries \in Seq(Queries), NEW env \in Environments,
         NEW A \in SUBSET Identifiers, NEW B \in SUBSET Seq(Identifiers)
  PROVE  Between(FreeInEach(queries, Wider(env, A, B), Free), FreeInEach(queries, env, Free), Uses(A, B))
<1>1. \A i \in DOMAIN queries : queries[i] \in Trees
  BY DEF Trees, Queries
<1>2. \A i \in DOMAIN queries : Between(Free[queries[i]][Wider(env, A, B)], Free[queries[i]][env], Uses(A, B))
  BY <1>1, FreeIsBetween
<1> QED  BY <1>2, BetweenInEach

\* The parameters in lower case instead of as they are spelled.
LEMMA ParametersBetween ==
  ASSUME NEW statement \in Statements
  PROVE  Between(FreeInEach(statement.query, Environment(Parameters(statement), {}, {}), Free),
                 FreeInEach(statement.query, Environment(statement.parameters, {}, {}), Free),
                 {<<i>> : i \in {j \in Identifiers :
                                   Lower[j] \in Parameters(statement) \ statement.parameters}})
<1> DEFINE W == statement.parameters
           P == Parameters(statement)
           F(names) == FreeInEach(statement.query, Environment(names, {}, {}), Free)
<1>1. statement.query \in Seq(Queries) /\ W \in SUBSET Identifiers
  BY StatementSyntax
<1>2. P \in SUBSET Identifiers /\ \A j \in Identifiers : Lower[j] \in W => Lower[j] \in P
  <2>1. P = {Lower[p] : p \in W}
    BY DEF Parameters
  <2>2. \A j \in Identifiers : Lower[j] \in Identifiers /\ Lower[Lower[j]] = Lower[j]
    BY IdentifiersAssumption
  <2> HIDE DEF P, W
  <2> QED  BY <1>1, <2>1, <2>2
<1> HIDE DEF W, P
<1>3. ASSUME NEW X \in SUBSET Identifiers, NEW Y \in SUBSET Identifiers
      PROVE  Between(F(X \cup Y), F(X), Uses(Y \ X, {}))
  <2>1. Environment(X, {}, {}) \in Environments /\ {} \in SUBSET Seq(Identifiers) /\ Y \ X \in SUBSET Identifiers
    BY InFromType
  <2>2. Wider(Environment(X, {}, {}), Y \ X, {}) = Environment(X \cup (Y \ X), {}, {} \cup {})
    BY DEF Wider, Environment, InFrom
  <2>3. X \cup (Y \ X) = X \cup Y /\ {} \cup {} = {}
    OBVIOUS
  <2> QED  BY <1>1, <2>1, <2>2, <2>3, QueriesAreBetween
<1>4. Uses(W \ P, {}) = {}
  BY <1>2 DEF Uses
<1>5. Uses(P \ W, {}) = {<<i>> : i \in {j \in Identifiers : Lower[j] \in P \ W}}
  BY DEF Uses
<1> HIDE DEF F
<1>6. Between(F(W \cup P), F(W), Uses(P \ W, {})) /\ Between(F(P \cup W), F(P), {})
  BY <1>1, <1>2, <1>3, <1>4
<1>7. P \cup W = W \cup P
  OBVIOUS
<1>8. F(W \cup P) = F(P)
  BY <1>6, <1>7 DEF Between
<1>9. Between(F(P), F(W), {<<i>> : i \in {j \in Identifiers : Lower[j] \in P \ W}})
  BY <1>5, <1>6, <1>8
<1> QED  BY <1>9 DEF F, P, W

\* Every spelling of the name of a view instead of its own.
LEMMA ViewBetween ==
  ASSUME NEW statement \in Statements
  PROVE  Between(FreeInEach(statement.query, Environment({}, {}, RecursiveView(statement)), Free),
                 FreeInEach(statement.query,
                   Environment({}, {}, Named(IF statement.recursive THEN statement.target ELSE << >>)), Free),
                 RecursiveView(statement) \ {statement.target})
<1> DEFINE N == Named(IF statement.recursive THEN statement.target ELSE << >>)
           V == RecursiveView(statement)
           F(paths) == FreeInEach(statement.query, Environment({}, {}, paths), Free)
<1>1. /\ statement.query \in Seq(Queries) /\ statement.target \in Seq(Identifiers)
      /\ statement.recursive \in BOOLEAN
  BY StatementSyntax
<1>2. N \in SUBSET Seq(Identifiers)
  BY <1>1, NamedType
<1>3. V \in SUBSET Seq(Identifiers)
  BY <1>1 DEF RecursiveView, Spellings
<1>4. N \subseteq V /\ (V \ N) \ {<< >>} \subseteq V \ {statement.target}
  <2>1. statement.target \in Spellings(statement.target)
    BY <1>1 DEF Spellings
  <2> QED  BY <1>1, <2>1, NamedType DEF Named, RecursiveView
<1> HIDE DEF N, V
<1>5. Wider(Environment({}, {}, N), {}, V \ N) = Environment({}, {}, V)
  <2>1. Wider(Environment({}, {}, N), {}, V \ N) = Environment({} \cup {}, {}, N \cup (V \ N))
    BY DEF Wider, Environment, InFrom
  <2>2. {} \cup {} = {} /\ N \cup (V \ N) = V
    BY <1>4
  <2> QED  BY <2>1, <2>2
<1>6. Environment({}, {}, N) \in Environments /\ {} \in SUBSET Identifiers /\ V \ N \in SUBSET Seq(Identifiers)
  BY <1>2, <1>3, InFromType
<1>7. Between(F(V), F(N), Uses({}, V \ N))
  BY <1>1, <1>5, <1>6, QueriesAreBetween
<1>8. Uses({}, V \ N) \subseteq V \ {statement.target}
  BY <1>4 DEF Uses
<1> HIDE DEF F
<1>9. Between(F(V), F(N), V \ {statement.target})
  BY <1>7, <1>8 DEF Between
<1> QED  BY <1>9 DEF F, V, N

LEMMA StatementsAreBetween ==
  ASSUME NEW s, \A i \in DOMAIN s : Between(FreeInStatement[s[i]], FoundInStatement[s[i]], Respelled[s[i]])
  PROVE  Between(UNION {FreeInStatement[s[i]] : i \in DOMAIN s},
                 UNION {FoundInStatement[s[i]] : i \in DOMAIN s},
                 UNION {Respelled[s[i]] : i \in DOMAIN s})
<1> DEFINE Free1(i) == FreeInStatement[s[i]]
           Found1(i) == FoundInStatement[s[i]]
           Other1(i) == Respelled[s[i]]
<1>1. \A i \in DOMAIN s : Free1(i) \subseteq Found1(i) /\ Found1(i) \subseteq Free1(i) \cup Other1(i)
  BY DEF Between
<1> HIDE DEF Free1, Found1, Other1
<1>2. (UNION {Free1(i) : i \in DOMAIN s}) \subseteq UNION {Found1(i) : i \in DOMAIN s}
  BY <1>1
<1>3. ASSUME NEW p \in UNION {Found1(i) : i \in DOMAIN s}
      PROVE  p \in (UNION {Free1(i) : i \in DOMAIN s}) \cup UNION {Other1(i) : i \in DOMAIN s}
  <2>1. PICK i \in DOMAIN s : p \in Found1(i)
    BY <1>3
  <2> QED  BY <1>1, <2>1
<1> QED  BY <1>2, <1>3 DEF Between, Free1, Found1, Other1

LEMMA StatementIsBetween ==
  \A s \in Statements : Between(FreeInStatement[s], FoundInStatement[s], Respelled[s])
<1> DEFINE Good(s) == Between(FreeInStatement[s], FoundInStatement[s], Respelled[s])
           S == {s \in Statements : Good(s)}
<1>1. SUFFICES Statements \subseteq S
  OBVIOUS
<1>2. SUFFICES ASSUME NEW n \in Statements, \A m \in Statements : Depth[m] < Depth[n] => Good(m)
               PROVE  Good(n)
  <2> HIDE DEF Good
  <2>1. \A n \in Statements : (\A m \in Statements : Depth[m] < Depth[n] => m \in S) => n \in S
    BY <1>2
  <2> HIDE DEF S
  <2> QED  BY <2>1, DepthIsNumber, OfFree!StructuralInduction DEF OfFree!Ranked
<1> DEFINE O == FreeInEach(n.options, Environment({}, {}, {}), Free)
           f == FreeInCase(n, FreeInStatement, Parameters(n), RecursiveView(n))
           g == FoundInCase(n, FoundInStatement)
<1>3. FreeInStatement[n] = O \cup f /\ FoundInStatement[n] = O \cup g
  BY FreeInStatementUnfolds, FoundInStatementUnfolds DEF FreeInStatementBody
<1>4. SUFFICES Between(f, g, RespelledBody(n, Respelled))
  <2> HIDE DEF O, f, g
  <2>1. Between(O, O, RespelledBody(n, Respelled))
    BY DEF Between
  <2>2. Between(O \cup f, O \cup g, RespelledBody(n, Respelled))
    BY <1>4, <2>1, BetweenBoth
  <2> QED  BY <1>3, <2>2, RespelledUnfolds
<1>5. CASE n.kind = "table_function"
  <2>1. /\ f = FreeInEach(n.query, Environment(Parameters(n), {}, {}), Free)
        /\ g = FreeInEach(n.query, Environment(n.parameters, {}, {}), Free)
    BY <1>5 DEF FreeInCase, FoundInCase
  <2>2. RespelledBody(n, Respelled)
          = {<<i>> : i \in {j \in Identifiers : Lower[j] \in Parameters(n) \ n.parameters}}
    BY <1>5 DEF RespelledBody
  <2> HIDE DEF f, g
  <2> QED  BY <2>1, <2>2, ParametersBetween
<1>6. CASE n.kind = "view"
  <2>1. /\ f = FreeInEach(n.query, Environment({}, {}, RecursiveView(n)), Free)
        /\ g = FreeInEach(n.query, Environment({}, {}, Named(IF n.recursive THEN n.target ELSE << >>)), Free)
    BY <1>6 DEF FreeInCase, FoundInCase
  <2>2. RespelledBody(n, Respelled) = RecursiveView(n) \ {n.target}
    BY <1>6 DEF RespelledBody
  <2> HIDE DEF f, g
  <2> QED  BY <2>1, <2>2, ViewBetween
<1>7. CASE n.kind = "nested"
  <2>1. /\ f = UNION {FreeInStatement[n.body[i]] : i \in DOMAIN n.body}
        /\ g = UNION {FoundInStatement[n.body[i]] : i \in DOMAIN n.body}
        /\ RespelledBody(n, Respelled) = UNION {Respelled[n.body[i]] : i \in DOMAIN n.body}
    BY <1>7 DEF FreeInCase, FoundInCase, RespelledBody
  <2>2. \A i \in DOMAIN n.body :
          Between(FreeInStatement[n.body[i]], FoundInStatement[n.body[i]], Respelled[n.body[i]])
    BY <1>2, StatementSyntax
  <2> HIDE DEF f, g
  <2> QED  BY <2>1, <2>2, StatementsAreBetween
<1>8. CASE n.kind \notin {"table_function", "view", "nested"}
  <2>1. f = g
    BY <1>8, StatementSyntax DEF FreeInCase, FoundInCase
  <2> HIDE DEF f, g
  <2> QED  BY <2>1 DEF Between
<1> QED  BY <1>5, <1>6, <1>7, <1>8

\* GetTables, a walk over the parse tree that adds and removes names in members
\* and sets that its calls share, finds for every script the tables that the
\* scoping rules, which know no state, leave free, and nothing else but uses of
\* parameters and recursive views that it does not know by their spelling.
THEOREM FindsFreeNames == Spec => []NamesAreFree
<1>1. IInv => NamesAreFree
  <2> SUFFICES ASSUME IInv, outcome = "done"
               PROVE  Between(FreeInScript, table_names, RespelledInScript)
    BY DEF NamesAreFree, Between
  <2>1. pending = << >> /\ script \in Seq(Statements)
    BY SyntaxAssumption DEF IInv
  <2>2. table_names = UNION {FoundInStatement[script[i]] : i \in DOMAIN script}
    BY <2>1, NoCallIsLeft DEF AllFound
  <2>3. \A i \in DOMAIN script :
          Between(FreeInStatement[script[i]], FoundInStatement[script[i]], Respelled[script[i]])
    BY <2>1, StatementIsBetween
  <2> QED  BY <2>2, <2>3, StatementsAreBetween DEF FreeInScript, RespelledInScript
<1> QED  BY <1>1, Invariant, PTL
===============================================================================
