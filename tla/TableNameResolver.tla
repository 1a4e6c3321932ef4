--------------------------- MODULE TableNameResolver ---------------------------
(***************************************************************************)
(* GetTables (table_name_resolver.h): which tables a script mentions.  The *)
(* resolver descends into the queries of each statement.  A path in a FROM *)
(* clause is a table unless it names something that the script declares:   *)
(*                                                                         *)
(*   - local_table_aliases_, a member that all nested calls share, holds   *)
(*     the names of WITH entries and table-valued parameters in scope;     *)
(*   - visible_aliases, sets that are handed down by value or by pointer,  *)
(*     hold the range variables, of which a path may be an array;          *)
(*   - recursive_view_name_ is the view that is being defined.             *)
(*                                                                         *)
(* The recursion is a sequence of pending calls, the next one first.  Sets *)
(* handed down by value are part of a call; those handed down by pointer   *)
(* are on the stack "visible", the innermost first.  A clause that may be  *)
(* missing is a sequence of length 0 or 1, and where only the queries under*)
(* some expressions matter, they are the sequence "exprs".                 *)
(***************************************************************************)
EXTENDS Integers, SequencesExt

CONSTANTS
  Identifiers,        \* as they are spelled
  Lower,              \* their lower-case forms
  QueryExpressions,   \* the nodes of the parse trees,
  TableExpressions,
  Statements,
  Scripts             \* and what the file may hold: sequences of statements

ASSUME IdentifiersAssumption ==
  /\ Lower \in [Identifiers -> Identifiers]
  /\ \A i \in Identifiers : Lower[Lower[i]] = Lower[i]

Paths       == Seq(Identifiers) \ {<< >>}
Optional(S) == {s \in Seq(S) : Len(s) <= 1}
Queries     == {expr \in QueryExpressions : expr.kind = "query"}
Functions   == {table \in TableExpressions : table.kind = "tvf"}

\* What the parser hands over.
ASSUME SyntaxAssumption ==
  /\ QueryExpressions \subseteq
       [kind : {"query"}, with : Seq([alias : Identifiers, query : Queries]),
        recursive : BOOLEAN, expr : QueryExpressions, order : Seq(Queries)]
         \cup [kind : {"select"}, from : Optional(TableExpressions), exprs : Seq(Queries)]
         \cup [kind : {"set"}, inputs : Seq(QueryExpressions)]
  /\ TableExpressions \subseteq
       [kind : {"path"}, path : Seq(Identifiers), alias : Optional(Identifiers), exprs : Seq(Queries)]
         \cup [kind : {"subquery"}, query : Queries, alias : Optional(Identifiers)]
         \cup [kind : {"join", "parenthesized"}, lhs : TableExpressions,
               rhs : TableExpressions, on : Seq(Queries)]
         \cup [kind : {"tvf"}, exprs : Seq(Queries), tables : SUBSET Paths, inner : Seq(Functions)]
  /\ Statements \subseteq
       [kind : {"query_statement", "target", "expressions", "ignored", "nested", "view",
                "table_function", "dml"},
        options : Seq(Queries), target : Seq(Identifiers), alias : Optional(Identifiers),
        from : Optional(TableExpressions), exprs : Seq(Queries), query : Optional(Queries),
        parameters : SUBSET Identifiers, recursive : BOOLEAN, body : Seq(Statements)]
  /\ \A statement \in Statements : statement.kind = "target" => statement.target # << >>
  /\ Scripts \subseteq Seq(Statements)

VARIABLES
  script,                 \* the file
  pending,                \* the calls to be made, the next one first
  table_names,            \* the paths found
  local_table_aliases_, recursive_view_name_,
  visible,                \* the sets that *local_visible_aliases points to
  outcome

found == <<table_names>>
scope == <<local_table_aliases_, recursive_view_name_, visible>>
vars  == <<script, pending, found, scope, outcome>>

\* A call of fn for a node, with a set of names that it is handed by value.
Call(fn, node, names) == [fn |-> fn, node |-> node, names |-> names]

Calls(fn, nodes, names) == [i \in DOMAIN nodes |-> Call(fn, nodes[i], names)]

\* GetTables: the statements of the script, one after the other.
Init ==
  /\ script \in Scripts
  /\ pending = Calls("FindInStatement", script, {})
  /\ table_names = {}
  /\ local_table_aliases_ = {}
  /\ recursive_view_name_ = << >>
  /\ visible = << >>
  /\ outcome = "running"

-----------------------------------------------------------------------------
Calling(fn) == outcome = "running" /\ pending # << >> /\ Head(pending).fn = fn

Node  == Head(pending).node
Names == Head(pending).names

\* The call makes these calls before it is over.
Makes(calls) == pending' = calls \o Tail(pending)

\* InsertIfNotPresent(visible_aliases, alias), by a pointer.
WithVisible(names) == <<Head(visible) \cup names>> \o Tail(visible)

\* FindInExpressionsUnder: every outermost query under the expressions.
FindInExpressionsUnder(exprs, names) == Calls("FindInQuery", exprs, names)

\* An explicit alias, or the last part of the path; in lower case.
Alias(alias, path) ==
  IF alias # << >> THEN {Lower[alias[1]]}
  ELSE IF path # << >> THEN {Lower[Last(path)]} ELSE {}

\* A path of one part is a table unless WITH or a parameter declares it, a
\* longer one unless its first part is a range variable.
IsTable(path, names) ==
  /\ path # recursive_view_name_
  /\ IF Len(path) = 1 THEN Lower[path[1]] \notin local_table_aliases_
     ELSE Lower[path[1]] \notin names

-----------------------------------------------------------------------------
(* FindInStatement.                                                        *)

\* First the OPTIONS of any statement, then its own case.
FindInStatement ==
  /\ Calling("FindInStatement")
  /\ Makes(FindInExpressionsUnder(Node.options, {}) \o <<Call("Case", Node, {})>>)
  /\ UNCHANGED <<script, found, scope, outcome>>

Case(kind) == Calling("Case") /\ Node.kind = kind /\ UNCHANGED script

\* SELECT, CREATE TABLE AS, CREATE MODEL, EXPORT DATA: the query, if any.
FindInQueryStatement ==
  /\ Case("query_statement")
  /\ Makes(Calls("FindInQuery", Node.query, {}))
  /\ UNCHANGED <<found, scope, outcome>>

\* DROP, CREATE INDEX and the row access policies: the target is a table.
NameTarget ==
  /\ Case("target")
  /\ table_names' = table_names \cup {Node.target}
  /\ Makes(FindInExpressionsUnder(Node.exprs, {}))
  /\ UNCHANGED <<scope, outcome>>

\* CREATE CONSTANT and FUNCTION, ASSERT, SET, EXECUTE IMMEDIATE: expressions.
FindInScalarStatement ==
  /\ Case("expressions")
  /\ Makes(FindInExpressionsUnder(Node.exprs, {}))
  /\ UNCHANGED <<found, scope, outcome>>

\* CREATE PROCEDURE, CALL and most of DDL: nothing is looked at, and so it is,
\* but for a warning, with statements that have no case (IF, WHILE, LOOP).
IgnoreStatement ==
  /\ Case("ignored")
  /\ Makes(<< >>)
  /\ UNCHANGED <<found, scope, outcome>>

\* BEGIN with its handlers, EXPLAIN, and statements with a hint.
FindInNestedStatements ==
  /\ Case("nested")
  /\ Makes(Calls("FindInStatement", Node.body, {}))
  /\ UNCHANGED <<found, scope, outcome>>

\* CREATE [MATERIALIZED] VIEW.
FindInCreateViewStatement ==
  /\ Case("view")
  /\ recursive_view_name_' = IF Node.recursive THEN Node.target ELSE recursive_view_name_
  /\ Makes(Calls("FindInQuery", Node.query, {}) \o <<Call("EndView", << >>, {})>>)
  /\ UNCHANGED <<found, local_table_aliases_, visible, outcome>>

\* A slip: the name of the view stays.
EndViewKept ==
  /\ Calling("EndView")
  /\ Makes(<< >>)
  /\ UNCHANGED <<script, found, scope, outcome>>

EndView ==
  /\ Calling("EndView")
  /\ recursive_view_name_' = << >>
  /\ Makes(<< >>)
  /\ UNCHANGED <<script, found, local_table_aliases_, visible, outcome>>

\* CREATE TABLE FUNCTION: its table-valued parameters, as they are spelled, are
\* no tables.
FindInCreateTableFunctionStatement ==
  /\ Case("table_function")
  /\ IF Node.query # << >> /\ local_table_aliases_ # {}
     THEN outcome' = "check_failed" /\ UNCHANGED <<pending, local_table_aliases_>>
     ELSE IF Node.query = << >>
     THEN Makes(<< >>) /\ UNCHANGED <<local_table_aliases_, outcome>>
     ELSE /\ local_table_aliases_' = Node.parameters
          /\ Makes(Calls("FindInQuery", Node.query, {}) \o <<Call("Restore", << >>, {})>>)
          /\ UNCHANGED outcome
  /\ UNCHANGED <<found, recursive_view_name_, visible>>

\* DELETE, TRUNCATE, INSERT, UPDATE and MERGE: the target is a table, and its
\* alias or last part (always the last part in INSERT, TRUNCATE and MERGE) is
\* visible, first to the FROM or USING clause, then to the expressions and the
\* query.
FindInTarget ==
  /\ table_names' = table_names \cup {Node.target}
  /\ visible' = <<Alias(Node.alias, Node.target)>> \o visible
  /\ Makes(Calls("FindInTableExpression", Node.from, {})
             \o <<Call("Expressions", Node.exprs \o Node.query, {}),
                  Call("EndScope", << >>, {})>>)
  /\ UNCHANGED <<local_table_aliases_, recursive_view_name_, outcome>>

\* A slip: a target that is no path is taken for one.
FindInDmlStatementUnchecked == Case("dml") /\ FindInTarget

FindInDmlStatement == Case("dml") /\ Node.target # << >> /\ FindInTarget

\* A target that is no path is that of a nested statement: an error.
TargetIsNested ==
  /\ Case("dml") /\ Node.target = << >>
  /\ outcome' = "error"
  /\ UNCHANGED <<pending, found, scope>>

-----------------------------------------------------------------------------
(* Queries.                                                                *)

\* FindInExpressionsUnder, with the range variables that are visible by now.
FindInExpressions ==
  /\ Calling("Expressions")
  /\ Makes(FindInExpressionsUnder(Node, Head(visible)))
  /\ UNCHANGED <<script, found, scope, outcome>>

\* A set of range variables goes out of scope.
EndScope ==
  /\ Calling("EndScope")
  /\ visible' = Tail(visible)
  /\ Makes(<< >>)
  /\ UNCHANGED <<script, found, local_table_aliases_, recursive_view_name_, outcome>>

InTurn(s, t) ==
  [i \in 1 .. 2 * Len(s) |-> IF i % 2 = 1 THEN s[(i + 1) \div 2] ELSE t[i \div 2]]

\* The entries of WITH, each of which is declared after its query; those of
\* WITH RECURSIVE are declared before all of them.
FindInQuery ==
  /\ Calling("FindInQuery")
  /\ LET entries == Calls("FindInQuery", [i \in DOMAIN Node.with |-> Node.with[i].query], Names)
         alias(i) == Lower[Node.with[i].alias]
         aliases == {alias(i) : i \in DOMAIN Node.with}
         declarations == [i \in DOMAIN Node.with |-> Call("Declare", << >>, {alias(i)})]
     IN  /\ local_table_aliases_' =
              IF Node.recursive THEN local_table_aliases_ \cup aliases ELSE local_table_aliases_
         /\ Makes((IF Node.recursive THEN entries
                   ELSE InTurn(entries, declarations))
                  \o <<Call("FindInQueryExpression", [expr |-> Node.expr, order |-> Node.order], Names)>>
                  \o (IF Node.with = << >> THEN << >>
                      ELSE <<Call("Restore", << >>, local_table_aliases_)>>))
  /\ UNCHANGED <<script, found, recursive_view_name_, visible, outcome>>

\* A WITH entry is visible from here on.
DeclareAlias ==
  /\ Calling("Declare")
  /\ local_table_aliases_' = local_table_aliases_ \cup Names
  /\ Makes(<< >>)
  /\ UNCHANGED <<script, found, recursive_view_name_, visible, outcome>>

\* local_table_aliases_ is what it was before the query.
RestoreAliases ==
  /\ Calling("Restore")
  /\ local_table_aliases_' = Names
  /\ Makes(<< >>)
  /\ UNCHANGED <<script, found, recursive_view_name_, visible, outcome>>

QueryExpression(kind) ==
  Calling("FindInQueryExpression") /\ Node.expr.kind = kind /\ UNCHANGED <<script, found, outcome>>

\* A FROM clause adds its range variables to a copy of those from outside; the
\* expressions and ORDER BY see both.
FindInSelect ==
  /\ QueryExpression("select")
  /\ visible' = <<Names>> \o visible
  /\ Makes(Calls("FindInTableExpression", Node.expr.from, Names)
             \o <<Call("Expressions", Node.expr.exprs \o Node.order, {}),
                  Call("EndScope", << >>, {})>>)
  /\ UNCHANGED <<local_table_aliases_, recursive_view_name_>>

\* UNION and the like: the ORDER BY stands outside of all inputs.
FindInSetOperation ==
  /\ QueryExpression("set")
  /\ Makes(Calls("FindInQueryExpression",
                 [i \in DOMAIN Node.expr.inputs |->
                    [expr |-> Node.expr.inputs[i], order |-> << >>]], Names)
             \o FindInExpressionsUnder(Node.order, Names))
  /\ UNCHANGED scope

\* A query in parentheses.
FindInParenthesizedQuery ==
  /\ QueryExpression("query")
  /\ Makes(<<Call("FindInQuery", Node.expr, Names)>>
             \o FindInExpressionsUnder(Node.order, Names))
  /\ UNCHANGED scope

-----------------------------------------------------------------------------
(* FindInTableExpression: Names are the aliases from outside the clause.   *)

TableExpression(kind) ==
  Calling("FindInTableExpression") /\ Node.kind = kind /\ UNCHANGED <<script, outcome>>

\* The alias of a table expression is declared after it has been searched.
DeclareVisible(names) == <<Call("DeclareVisible", << >>, names)>>

\* A table, an array of an earlier range variable, or UNNEST of an expression
\* (no path); its alias is visible to what follows.
FindInTablePathExpression ==
  /\ TableExpression("path")
  /\ table_names' =
       table_names \cup {p \in {Node.path} : p # << >> /\ IsTable(p, Head(visible))}
  /\ Makes(FindInExpressionsUnder(Node.exprs, Head(visible))
             \o DeclareVisible(Alias(Node.alias, Node.path)))
  /\ UNCHANGED scope

\* A slip: a subquery sees the range variables before it.
FindInTableSubqueryCorrelated ==
  /\ TableExpression("subquery")
  /\ Makes(<<Call("FindInQuery", Node.query, Head(visible))>>
             \o DeclareVisible(Alias(Node.alias, << >>)))
  /\ UNCHANGED <<found, scope>>

\* A subquery does not see the other range variables of its FROM clause.
FindInTableSubquery ==
  /\ TableExpression("subquery")
  /\ Makes(<<Call("FindInQuery", Node.query, Names)>> \o DeclareVisible(Alias(Node.alias, << >>)))
  /\ UNCHANGED <<found, scope>>

\* The calls of FindInJoin; a comma is a join without ON.
JoinCalls(join, names) ==
  Calls("FindInTableExpression", <<join.lhs, join.rhs>>, names)
    \o <<Call("Expressions", join.on, {})>>

FindInJoin ==
  /\ TableExpression("join")
  /\ Makes(JoinCalls(Node, Names))
  /\ UNCHANGED <<found, scope>>

\* A slip: in parentheses a join sees nothing from outside of them.
FindInParenthesizedJoinAlone ==
  /\ TableExpression("parenthesized")
  /\ visible' = <<{}>> \o visible
  /\ Makes(JoinCalls(Node, Names) \o <<Call("EndParentheses", << >>, {})>>)
  /\ UNCHANGED <<found, local_table_aliases_, recursive_view_name_>>

\* In parentheses a join starts with the names from outside the clause; what it
\* declares is then added to those of the clause.
FindInParenthesizedJoin ==
  /\ TableExpression("parenthesized")
  /\ visible' = <<Names>> \o visible
  /\ Makes(JoinCalls(Node, Names) \o <<Call("EndParentheses", << >>, {})>>)
  /\ UNCHANGED <<found, local_table_aliases_, recursive_view_name_>>

EndParentheses ==
  /\ Calling("EndParentheses")
  /\ visible' = <<visible[1] \cup visible[2]>> \o Tail(Tail(visible))
  /\ Makes(<< >>)
  /\ UNCHANGED <<script, found, local_table_aliases_, recursive_view_name_, outcome>>

\* A table function: the queries in its arguments see the range variables; a
\* TABLE argument of several parts is always a table; a nested table function
\* is searched again.  Its own alias is not declared.
FindInTVF ==
  /\ TableExpression("tvf")
  /\ table_names' = table_names \cup {p \in Node.tables : IsTable(p, {})}
  /\ Makes(FindInExpressionsUnder(Node.exprs, Head(visible))
             \o Calls("FindInTableExpression", Node.inner, Names))
  /\ UNCHANGED scope

\* The alias of a table expression, once it has been searched.
DeclareTableAlias ==
  /\ Calling("DeclareVisible")
  /\ visible' = WithVisible(Names)
  /\ Makes(<< >>)
  /\ UNCHANGED <<script, found, local_table_aliases_, recursive_view_name_, outcome>>

-----------------------------------------------------------------------------
Finish ==
  /\ outcome = "running" /\ pending = << >>
  /\ outcome' = "done"
  /\ UNCHANGED <<script, pending, found, scope>>

Terminated == outcome # "running" /\ UNCHANGED vars

Next ==
  \/ FindInStatement
  \/ FindInQueryStatement
  \/ NameTarget
  \/ FindInScalarStatement
  \/ IgnoreStatement
  \/ FindInNestedStatements
  \/ FindInCreateViewStatement
  \/ EndView
  \/ FindInCreateTableFunctionStatement
  \/ FindInDmlStatement
  \/ TargetIsNested
  \/ FindInExpressions
  \/ EndScope
  \/ FindInQuery
  \/ DeclareAlias
  \/ RestoreAliases
  \/ FindInSelect
  \/ FindInSetOperation
  \/ FindInParenthesizedQuery
  \/ FindInTablePathExpression
  \/ FindInTableSubquery
  \/ FindInJoin
  \/ FindInParenthesizedJoin
  \/ EndParentheses
  \/ FindInTVF
  \/ DeclareTableAlias
  \/ Finish
  \/ Terminated

Spec == Init /\ [][Next]_vars

-----------------------------------------------------------------------------
TypeOK ==
  /\ \A path \in table_names : Range(path) \subseteq Identifiers /\ path # << >>
  /\ local_table_aliases_ \subseteq Identifiers
  /\ Range(recursive_view_name_) \subseteq Identifiers
  /\ \A i \in DOMAIN visible : visible[i] \subseteq Identifiers
  /\ outcome \in {"running", "done", "error", "check_failed"}

\* The scopes of a statement end with it: between two statements, those of a
\* nested block too, no alias, range variable or view name is left, so that the
\* members that all calls share need no reset and the check that no alias is in
\* scope when a table function is created (l. 718) never fails.
ScopesEndWithStatement ==
  /\ pending = << >> \/ Calling("FindInStatement") =>
       local_table_aliases_ = {} /\ recursive_view_name_ = << >> /\ visible = << >>
  /\ outcome # "check_failed"

\* Inside of a FROM clause the local names include all external ones, plus those
\* of the tables so far (l. 124-129), in parentheses and in nested joins too.
LocalIncludesExternal ==
  Calling("FindInTableExpression") => Names \subseteq Head(visible)
===============================================================================
