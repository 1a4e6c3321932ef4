------------------------------- MODULE SqlScopes -------------------------------
(***************************************************************************)
(* What GetTables promises, written as the scoping rules that the comments *)
(* of table_name_resolver.h state (l. 76, 107-129, 190-197, 724-725,       *)
(* 861-879, 1013, 1035-1040 and 1105-1115), by structural recursion and    *)
(* without a state: a node is read in an environment of names, none of     *)
(* which depends on how it is spelled,                                     *)
(*                                                                         *)
(*   W  the WITH entries and table-valued parameters in scope,             *)
(*   R  the range variables in scope,                                      *)
(*   L  in a FROM clause, those and its own range variables so far,        *)
(*   V  the paths that mean the recursive view that is being defined.      *)
(***************************************************************************)
EXTENDS TableNameResolver

CONSTANT Depth   \* of the tree under a node

Children(node) ==
  CASE node.kind = "query" ->
         {node.with[i].query : i \in DOMAIN node.with} \cup {node.expr} \cup Range(node.order)
    [] node.kind = "select" -> Range(node.from) \cup Range(node.exprs)
    [] node.kind = "set" -> Range(node.inputs)
    [] node.kind = "path" -> Range(node.exprs)
    [] node.kind = "subquery" -> {node.query}
    [] node.kind \in {"join", "parenthesized"} -> {node.lhs, node.rhs} \cup Range(node.on)
    [] node.kind = "tvf" -> Range(node.exprs) \cup Range(node.inner)
    [] OTHER -> UNION {Range(node.options), Range(node.from), Range(node.exprs),
                       Range(node.query), Range(node.body)}

\* Parse trees are finite.
ASSUME DepthAssumption ==
  LET Nodes == QueryExpressions \cup TableExpressions \cup Statements
  IN  /\ Depth \in [Nodes -> Nat]
      /\ \A node \in Nodes : \A child \in Children(node) : Depth[child] < Depth[node]

Environments ==
  [W : SUBSET Identifiers, R : SUBSET Identifiers, L : SUBSET Identifiers,
   V : SUBSET Seq(Identifiers)]

InFrom(W, R, L, V)   == [W |-> W, R |-> R, L |-> L, V |-> V]
Environment(W, R, V) == InFrom(W, R, R, V)
Among(env, names)    == Environment(env.W, names, env.V)

\* A path that names a table of the warehouse.
FreePath(path, W, R, V) ==
  {p \in {path} : /\ p # << >> /\ p \notin V
                  /\ Lower[p[1]] \notin (IF Len(p) = 1 THEN W ELSE R)}

\* The range variables that a table expression declares.
Declares[table \in TableExpressions] ==
  CASE table.kind = "path" -> Alias(table.alias, table.path)
    [] table.kind = "subquery" -> Alias(table.alias, << >>)
    [] table.kind = "tvf" -> {}
    [] OTHER -> Declares[table.lhs] \cup Declares[table.rhs]

DeclaredIn(from) == UNION {Declares[from[i]] : i \in DOMAIN from}

\* The names of nodes that are free in env, as "free" has it for each of them.
FreeInEach(nodes, env, free) == UNION {free[nodes[i]][env] : i \in DOMAIN nodes}

\* The entries of WITH that an entry sees, what it is to see entries, and the
\* range variables of a FROM clause, which ORDER BY sees too.
EntriesSeen(query, i) == IF query.recursive THEN DOMAIN query.with ELSE 1 .. i - 1
Seeing(entries, query, env) ==
  Environment(env.W \cup {Lower[query.with[i].alias] : i \in entries}, env.R, env.V)
Variables(expr) == IF expr.kind = "select" THEN DeclaredIn(expr.from) ELSE {}

FreeInQuery(query, env, free) ==
  LET inside == Seeing(DOMAIN query.with, query, env)
  IN  (UNION {free[query.with[i].query][Seeing(EntriesSeen(query, i), query, env)] :
                i \in DOMAIN query.with})
        \cup free[query.expr][inside]
        \cup FreeInEach(query.order, Among(inside, env.R \cup Variables(query.expr)), free)

FreeInJoin(join, env, free) ==
  LET after == env.L \cup Declares[join.lhs]
  IN  free[join.lhs][env]
        \cup free[join.rhs][InFrom(env.W, env.R, after, env.V)]
        \cup FreeInEach(join.on, Among(env, after \cup Declares[join.rhs]), free)

FreeIn(node, env, free) ==
  CASE node.kind = "query" -> FreeInQuery(node, env, free)
    [] node.kind = "select" ->
         FreeInEach(node.from, env, free)
           \cup FreeInEach(node.exprs, Among(env, env.R \cup DeclaredIn(node.from)), free)
    [] node.kind = "set" -> FreeInEach(node.inputs, env, free)
    [] node.kind = "path" ->
         FreePath(node.path, env.W, env.L, env.V)
           \cup FreeInEach(node.exprs, Among(env, env.L), free)
    [] node.kind = "subquery" -> free[node.query][Among(env, env.R)]
    [] node.kind = "join" -> FreeInJoin(node, env, free)
    [] node.kind = "parenthesized" -> FreeInJoin(node, Among(env, env.R), free)
    [] node.kind = "tvf" ->
         (UNION {FreePath(path, env.W, {}, env.V) : path \in node.tables})
           \cup FreeInEach(node.exprs, Among(env, env.L), free)
           \cup FreeInEach(node.inner, env, free)

Free[node \in QueryExpressions \cup TableExpressions] ==
  [env \in Environments |-> FreeIn(node, env, Free)]

\* The free names of a statement, given the table-valued parameters W of a table
\* function and the paths V that mean a recursive view.
FreeInCase(statement, free, W, V) ==
  LET Top(nodes) == FreeInEach(nodes, Environment({}, {}, {}), Free)
      R == Alias(statement.alias, statement.target)
  IN  CASE statement.kind = "query_statement" -> Top(statement.query)
        [] statement.kind = "target" -> {statement.target} \cup Top(statement.exprs)
        [] statement.kind = "expressions" -> Top(statement.exprs)
        [] statement.kind = "ignored" -> {}
        [] statement.kind = "nested" -> UNION {free[statement.body[i]] : i \in DOMAIN statement.body}
        [] statement.kind = "view" -> FreeInEach(statement.query, Environment({}, {}, V), Free)
        [] statement.kind = "table_function" ->
             FreeInEach(statement.query, Environment(W, {}, {}), Free)
        [] statement.kind = "dml" ->
             {statement.target}
               \cup FreeInEach(statement.from, InFrom({}, {}, R, {}), Free)
               \cup FreeInEach(statement.exprs \o statement.query,
                      Environment({}, R \cup DeclaredIn(statement.from), {}), Free)

\* The paths that differ from this one at most in upper and lower case.
Spellings(path) ==
  {p \in [DOMAIN path -> Identifiers] : \A i \in DOMAIN path : Lower[p[i]] = Lower[path[i]]}

\* The table-valued parameters "that we should ignore" (l. 724-725), which are
\* "always lowercase" (l. 76), and the recursive view, which is "treated similar
\* to a WITH alias" (l. 194-196).
Parameters(statement) == {Lower[p] : p \in statement.parameters}
RecursiveView(statement) == IF statement.recursive THEN Spellings(statement.target) ELSE {}

FreeInStatement[statement \in Statements] ==
  FreeInEach(statement.options, Environment({}, {}, {}), Free)
    \cup FreeInCase(statement, FreeInStatement, Parameters(statement), RecursiveView(statement))

FreeInScript == UNION {FreeInStatement[script[i]] : i \in DOMAIN script}

\* The names that a statement declares in a spelling that the code misses: it
\* keeps parameters as they are spelled (l. 730) and compares the name of a
\* recursive view as it is spelled (l. 694 and 1118).
Respelled[statement \in Statements] ==
  CASE statement.kind = "table_function" ->
         {<<i>> : i \in {j \in Identifiers :
                           Lower[j] \in Parameters(statement) \ statement.parameters}}
    [] statement.kind = "view" -> RecursiveView(statement) \ {statement.target}
    [] statement.kind = "nested" -> UNION {Respelled[statement.body[i]] : i \in DOMAIN statement.body}
    [] OTHER -> {}

RespelledInScript == UNION {Respelled[script[i]] : i \in DOMAIN script}

-----------------------------------------------------------------------------
\* No table that the scoping rules leave free is missed, which would drop an edge
\* of the graph: no WITH entry, range variable or view name outlives its scope and
\* hides the use of a table.  And none of them is taken for a table, but for a
\* parameter or a recursive view in a spelling that the code misses: where no
\* statement declares one, the tables found are exactly those that are free.
NamesAreFree ==
  outcome = "done" => /\ FreeInScript \subseteq table_names
                      /\ table_names \subseteq FreeInScript \cup RespelledInScript

\* Names that a statement declares are not taken for tables, however they are
\* spelled: a table-valued parameter is "a name that we should ignore" (l. 724-725)
\* of a set that is "always lowercase" (l. 76), and uses of the name of a recursive
\* view "should be treated similar to a WITH alias" (l. 194-196).  Violated by
\* parameters, kept as they are spelled (l. 730) while paths are looked up in lower
\* case (l. 1116), and by views whose query spells them differently (l. 1118).
SpellingDoesNotMatter == outcome = "done" => table_names \subseteq FreeInScript
===============================================================================
