-------------------------- MODULE MCTableNameResolver --------------------------
\* Instances for TLC: "w" is a name that scripts declare and "W" is another
\* spelling of it, "t" is a table and "x" a column.
EXTENDS SqlScopes

MCIdentifiers == {"w", "W", "t", "x", "v"}
MCLower == [i \in MCIdentifiers |-> IF i = "W" THEN "w" ELSE i]

\* Table expressions.
Table(path, alias) == [kind |-> "path", path |-> path, alias |-> alias, exprs |-> << >>]
Unnest(query) == [kind |-> "path", path |-> << >>, alias |-> <<"w">>, exprs |-> <<query>>]
Subquery(query, alias) == [kind |-> "subquery", query |-> query, alias |-> alias]
Join(kind, lhs, rhs, on) == [kind |-> kind, lhs |-> lhs, rhs |-> rhs, on |-> on]
Tvf(exprs, tables, inner) == [kind |-> "tvf", exprs |-> exprs, tables |-> tables, inner |-> inner]

\* Queries.
Query(with, recursive, expr, order) ==
  [kind |-> "query", with |-> with, recursive |-> recursive, expr |-> expr, order |-> order]
Select(from, exprs) == [kind |-> "select", from |-> from, exprs |-> exprs]
Plain(expr) == Query(<< >>, FALSE, expr, << >>)
From(path) == Plain(Select(<<Table(path, << >>)>>, << >>))

\* Statements.
Statement(kind) ==
  [kind |-> kind, target |-> << >>, alias |-> << >>, query |-> << >>, from |-> << >>,
   exprs |-> << >>, options |-> << >>, parameters |-> {}, recursive |-> FALSE, body |-> << >>]
QueryStatement(query) == [Statement("query_statement") EXCEPT !.query = <<query>>]

MCPaths == {<<"w">>, <<"W">>, <<"t">>, <<"w", "x">>, <<"t", "x">>}
Probes == {From(<<"w">>), From(<<"w", "x">>)}

Tables == {Table(p, << >>) : p \in MCPaths} \cup {Table(<<"t">>, <<"W">>)}
Selects == {Plain(Select(<<f>>, << >>)) : f \in Tables} \cup {Plain(Select(<< >>, << >>))}

\* One join or other table expression, and a query among the expressions that
\* follow it.
Clauses ==
  {Join(kind, l, r, on) : kind \in {"join", "parenthesized"},
                          l \in Tables, r \in Tables, on \in {<< >>, <<From(<<"t", "x">>)>>}}
    \cup {Subquery(q, a) : q \in Selects, a \in {<< >>, <<"w">>}}
    \cup {Unnest(q) : q \in Probes}
    \cup {Tvf(<<q>>, {p}, inner) : q \in Probes, p \in {<<"W">>, <<"w", "x">>},
                                   inner \in {<< >>, <<Tvf(<< >>, {<<"t">>}, << >>)>>}}
    \cup {Join("join", Table(<<"t">>, <<"w">>), f, << >>) :
            f \in {Subquery(q, << >>) : q \in Probes}
                  \cup {Join("parenthesized", Table(<<"t">>, << >>), t, << >>) : t \in Tables}
                  \cup {Tvf(<<q>>, {<<"w", "x">>}, << >>) : q \in Probes}}

\* Queries that may declare names ...
Declaring ==
  {Query(<<[alias |-> a, query |-> q]>>, rec, Select(<<t>>, << >>), << >>) :
     a \in {"w", "W"}, q \in Selects, rec \in BOOLEAN, t \in Tables}
    \cup {Query(<<[alias |-> "w", query |-> q], [alias |-> "t", query |-> r]>>, rec,
                [kind |-> "set", inputs |-> <<From(<<"w">>).expr, From(<<"t">>).expr>>],
                <<From(<<"t", "x">>)>>) :
            q \in {From(<<"t">>), From(<<"w">>)}, r \in {From(<<"t">>), From(<<"w">>)},
            rec \in BOOLEAN}

\* ... and what may stand around them.
MCQueries ==
  Declaring
    \cup {Query(<< >>, FALSE, Select(<<f>>, e), << >>) : f \in Clauses, e \in {<< >>, <<From(<<"w", "x">>)>>}}
    \cup {Plain(Select(<<Table(<<"t">>, <<"w">>)>>, <<q>>)) :
            q \in Declaring \cup {Plain(Select(<<f>>, << >>)) : f \in Clauses}}
    \cup {Plain(Select(<<Join("join", Subquery(q, << >>), Table(<<"w">>, << >>), << >>)>>, << >>)) :
            q \in Declaring}
    \cup {Plain([kind |-> "set", inputs |-> <<q, From(<<"w">>).expr>>]) :
            q \in Declaring}
    \cup {Query(<< >>, FALSE, q, <<From(<<"w">>)>>) : q \in Declaring}

FewQueries ==
  {From(p) : p \in MCPaths} \cup {From(<<"v">>)}
    \cup {Query(<<[alias |-> "W", query |-> From(<<"w">>)]>>, rec,
                Select(<<Table(<<"w">>, << >>)>>, << >>), << >>) : rec \in BOOLEAN}

Dml(target, alias, from, exprs) ==
  [Statement("dml") EXCEPT !.target = target, !.alias = alias, !.from = from, !.exprs = exprs]

MCStatements ==
  {QueryStatement(q) : q \in FewQueries}
    \cup {[Statement("query_statement") EXCEPT !.options = <<q>>] : q \in FewQueries}
    \cup {[Statement("target") EXCEPT !.target = <<"w">>, !.exprs = e] :
            e \in {<< >>} \cup {<<q>> : q \in FewQueries}}
    \cup {[Statement("expressions") EXCEPT !.exprs = <<q>>] : q \in FewQueries}
    \cup {[Statement("ignored") EXCEPT !.target = <<"w">>]}
    \cup {[Statement("view") EXCEPT !.target = v, !.query = <<q>>, !.recursive = r] :
            v \in {<<"v">>, <<"w">>, <<"w", "x">>}, q \in FewQueries, r \in BOOLEAN}
    \cup {[Statement("table_function") EXCEPT !.parameters = ps, !.query = q] :
            ps \in {{}, {"w"}, {"W"}, {"w", "t"}}, q \in {<< >>} \cup {<<q>> : q \in FewQueries}}
    \cup {Dml(t, a, f, e) : t \in {<<"w">>, <<"t", "W">>}, a \in {<< >>, <<"x">>},
                            f \in {<< >>} \cup {<<c>> : c \in Tables},
                            e \in {<< >>} \cup {<<q>> : q \in Probes}}
    \cup {[Dml(<<"w">>, << >>, << >>, << >>) EXCEPT !.query = <<q>>] : q \in FewQueries}
    \cup {Statement("dml")}

\* A statement, or a query or another statement, alone or in a block, before one
\* that uses the names again.
MCScripts ==
  {<<QueryStatement(q), QueryStatement(From(<<"w">>))>> : q \in MCQueries}
    \cup {<<s>> : s \in MCStatements}
    \cup {<<s, QueryStatement(p)>> : s \in MCStatements, p \in Probes \cup {From(<<"v">>)}}
    \cup {<<s, [Statement("table_function") EXCEPT !.query = <<From(<<"w">>)>>]>> : s \in MCStatements}
    \cup {<<[Statement("nested") EXCEPT !.body = <<s, QueryStatement(From(<<"w">>))>>]>> :
            s \in MCStatements}

\* One of those statements with a parameter and one with a recursive view, each
\* with a query that uses the name in another spelling.
MCRespellingScripts ==
  {<<[Statement("table_function") EXCEPT !.parameters = {"W"}, !.query = <<From(<<"w">>)>>],
     [Statement("view") EXCEPT !.target = <<"w">>, !.query = <<From(<<"W">>)>>, !.recursive = TRUE]>>}

\* The nodes of MCScripts, and how deep each of them is.
RECURSIVE Below(_), DepthOf(_)
Below(nodes) ==
  IF nodes = {} THEN {} ELSE nodes \cup Below(UNION {Children(n) : n \in nodes})
DepthOf(node) == 1 + Max({0} \cup {DepthOf(n) : n \in Children(node)})

MCNodes == Below(UNION {Range(s) : s \in MCScripts})
MCQueryExpressions == {n \in MCNodes : n.kind \in {"query", "select", "set"}}
MCTableExpressions ==
  {n \in MCNodes : n.kind \in {"path", "subquery", "join", "parenthesized", "tvf"}}
MCAllStatements == MCNodes \ (MCQueryExpressions \cup MCTableExpressions)
MCDepth == [n \in MCNodes |-> DepthOf(n)]
===============================================================================
