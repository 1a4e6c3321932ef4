------------------------------ MODULE MCPipeline ------------------------------
\* Bounds for Pipeline: three files, two tables, the roles of MCAlphaDag.
EXTENDS Pipeline, TLC

CONSTANTS t1, t2

\* A file that does something with the first and the second table, and with the
\* function: each alone, and in chains from one to the other.
Info(r1, r2, fr) ==
  LET On(role) == {t \in {t1} : role \in r1} \cup {t \in {t2} : role \in r2}
      Of(role) == {n \in Functions : role \in fr}
  IN  [created |-> On("created"), dropped |-> On("dropped"), referenced |-> On("referenced"),
       inserted |-> On("inserted"), updated |-> {},
       defined |-> Of("defined"), undefined |-> {}, called |-> Of("called")]

Infos ==
  {Info(r, {}, {}) :
     r \in {{"created"}, {"referenced"}, {"inserted", "referenced"}, {"dropped"}}}
    \cup {Info(r1, r2, {}) : r1 \in {{"referenced"}, {"created"}},
                             r2 \in {{"created"}, {"referenced"}}}
    \cup {Info({}, {"created"}, {}), Info({"inserted", "referenced"}, {"referenced"}, {}),
          Info({"referenced"}, {}, {"defined"}), Info({"created"}, {}, {"called"})}

ThreeFiles == [Files -> Infos]
OneOrder == {CHOOSE s \in [1..3 -> Files] : {s[i] : i \in 1..3} = Files}

\* Warnings are errors where the graph shows the tables.
SomeFlags ==
  {f \in [with_tables : BOOLEAN, with_functions : {FALSE}, side_effect_first : BOOLEAN,
          warning_as_error : BOOLEAN] : f.warning_as_error = f.with_tables}

SomeLakes == {{}, {t1}}
===============================================================================
