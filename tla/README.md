# A formal model of AlphaSQL

AlphaSQL reads a set of SQL scripts, finds out which script must run before
which (`alphadag`), writes the dependency graph as a dot file, and type-checks
the scripts in an order that the graph allows (`alphacheck`). This directory
holds TLA+ modules for these two programs, TLC configurations that model-check
them, and proofs for TLAPS.

## 1. Inventory

| Part | State it keeps | Operations | Talks to |
| --- | --- | --- | --- |
| Identifier resolver (`identifier_resolver.cc/.h`) | per file: `identifier_information`, `temporary_tables`, `is_inside_procedure`, `procedure_name`; for all files: the static `procedure_artifacts_map` | one visit method per kind of node; `GetIdentifierInformation` | called by dag_lib for each file; calls the table name resolver |
| Table name resolver (`table_name_resolver.h`) | `table_names`, `local_table_aliases_`, `recursive_view_name_`; sets of visible aliases on the stack | `FindInStatement` and its helpers, `GetTables` | called by the identifier resolver |
| Dependency graph (`dag_lib.h`, `alphadag.cc`) | `table_queries_map`, `function_queries_map`, `vertices`, `depends_on`, `table_vertices`, `function_vertices`, `external_required_tables`, the graph and `indexes` | read a file, resolve tables, resolve functions, build, write, look for a cycle | writes the dot file that alphacheck reads |
| Execution plan (`GetExecutionPlan` in `alphacheck.cc`) | the graph, color map and stack of the walk, `has_cycle`, `result`, `execution_plan` | read, walk with `cycle_detector`, `topological_sort`, filter | called by main of alphacheck |
| Type check (`check`, `Run`, catalog helpers in `alphacheck.cc`) | catalog: `tables_`, `owned_tables_`, functions, table functions, procedures; `procedure_bodies`; per file `temp_table_names`, `temp_function_names`; the call stack of `check` | one case per kind of statement; removal of temporary names; loop of main | uses the plan; uses ZetaSQL's analyzer |
| JSON schema reader (`json_schema_reader.h`) | none; fills the catalog | `UpdateCatalogFromJSON`, type conversion | called once at the start of alphacheck |
| Parser wrapper (`common_lib.h`) | none | `ParseScript` | called by all |
| Service interface (`proto/`) | none, not implemented | - | - |
| Runners (bq_jobrunner, Airflow generator) | outside the repository | run the graph in parallel | read the dot file |

Both programs are single-threaded and keep nothing between runs but the dot
file, so there are no data races and no crash recovery. What runs in parallel is
the result: a runner outside the repository executes the queries in any order
that the graph allows, so an edge too few is a race in the warehouse and an edge
too many a deadlock or a lost chance. What is hard in the programs is order and
staleness: facts gathered in the order of the arguments must give a
graph that does not depend on that order; state that should end with a file
(temporary names, the visitor) must not leak and state that should outlive it
(the artifacts of procedures) must not be lost; two lists of one catalog must
agree; graph walks must be right about every graph. `PROJECT.json` lists the
hazards line by line. What makes each part correct:

* resolver: what a file creates, fills, changes, drops, calls is exactly what its
  statements, and the procedures it calls, do to permanent names;
* names: a path is a table exactly where no WITH entry, parameter, range variable
  or recursive view hides it, and no scope outlives its statement;
* graph: two queries are ordered if and only if the files say so, under every
  flag; nothing waits for itself; edges join real vertices; the external tables
  are those that nobody creates;
* plan: the verdict about cycles is right, the plan is a complete topological
  order of the queries, the program decides once and ends;
* check: the catalog tells the history of the statements checked, holds no
  dangling entry, and temporary names end with their script; two columns of the
  schema have one type if and only if they mean the same;
* all together: what was checked in one order runs in every interleaving, to one
  result, and to the end.

## 2. Modules

| Module | Models |
| --- | --- |
| `DagOrder` | cycle, reachability and topological order, stated with sets of vertices instead of paths |
| `PlanSpec` | abstract: one decision about a graph (unread, cycle, or a complete order of its queries) |
| `ExecutionPlan` | `GetExecutionPlan`: both walks event by event, the filter loop; implements `PlanSpec` |
| `ExecutionPlanProofs` | theorems about `ExecutionPlan` |
| `AlphaDag` | main of alphadag with the maps of dag_lib |
| `AlphaDagProofs` | theorems about `AlphaDag` |
| `IdentifierResolver` | the visitor, the temporary-table filter, `GetTables` as far as statements go |
| `IdentifierResolverProofs` | theorems about `IdentifierResolver` |
| `TableNameResolver` | `GetTables`: every `FindIn...` function, call by call |
| `SqlScopes` | the reference: which paths the scoping rules leave free, by recursive functions on the parse tree |
| `StructuralRecursion` | lemmas: induction and recursion over nodes with a rank, proved once and instantiated for parse trees and for the columns of a schema |
| `TableNameResolverProofs` | theorems about `TableNameResolver` and `SqlScopes` |
| `JsonSchema` | columns of the JSON schema and the types they become |
| `AlphaCheck` | loading the schema, check, Run, the catalog, the loop of main |
| `AlphaCheckProofs` | theorems about `AlphaCheck` |
| `Pipeline` | `AlphaDag`, alphacheck as `PlanSpec` promises it, and a parallel runner, one after the other |
| `PipelineProofs` | theorems about `Pipeline` |
| `MC...` | the bounds for TLC |

How they fit: `TableNameResolver` finds what a statement mentions, which is the
field `reads` of a node of `IdentifierResolver`; `IdentifierResolver` produces one
record of names per file, which is the input `content` of `AlphaDag`; `AlphaDag`
produces the edges that are the input `graph` of `ExecutionPlan`; its `plan` is
the input `Plan` of `AlphaCheck`. `Pipeline` composes the programs: it EXTENDS `AlphaDag`, lets any file be checked whose predecessors are (the orders
that `PlanIsTopological` and `PlanIsComplete` allow, no more and no less), and
then runs the queries.
`AlphaDag` and `ExecutionPlan` share `DagOrder`; the verdict of the walk with
`cycle_detector`, one step in `AlphaDag` (`DetectCycle`), is what
`ExecutionPlanProofs!VerdictIsRight` proves of the same walk in detail.

### Correspondence

Variables and actions carry the names of the source where there is one.
`PROJECT.json` ("map") gives file and lines of every definition.

*ExecutionPlan.* `phase` is the place in `GetExecutionPlan`. `color`, `stack`,
`todo` are the color map, the recursion and the out-edge iterators of Boost's
`depth_first_search`; a step is one visitor event. Boost examines vertices and
edges in the order of the dot file; the model takes any order, which includes
that one and costs nothing in the proofs.

*AlphaDag.* One action per file read and one per later stage of main. A file that
creates what another has created ends the program (`RefuseClash`) with any part of
its names entered in the maps; a file that cannot be parsed, or a path that does not
exist, ends it before (`RefuseFile`). Vectors of
paths are sets, since `edge(...)` skips repeated dependencies. Paths, names of
tables and names of functions are three sets; the assumption `NamesAssumption`
says that no path is also a name, while a table and a function may share one.
The texts of the outputs are left out.

*IdentifierResolver.* A script is the sequence of its nodes in the order of the
walk; a procedure is an "enter", its body and a "leave". A node says what it
targets, which tables its queries mention and which functions it calls, and
whether it stands at the top of the script (or in a BEGIN block), in a branch, or
in the body of a procedure, because the two walks treat these differently. What
counts as a mention is the subject of `TableNameResolver`. The names are compared
as they are written.

*TableNameResolver.* The recursion is the sequence `pending` of calls to be made;
an action takes the first one and puts the calls that it makes before the rest.
What C++ does when a call returns (restore an alias set, merge the set of a
parenthesized join, clear `recursive_view_name_`) is a call of its own at the
end: "Restore", "EndParentheses", "EndView". Sets handed down by value are part of
the call, sets handed down by pointer are on the stack `visible`. The statement
kinds fall into eight cases by what is searched in them: a query, a target,
expressions, nested statements, a view, a table function, DML, or nothing. The
nodes that the parser may build are the constants `QueryExpressions`,
`TableExpressions` and `Statements`; `SyntaxAssumption` says which fields a node of
each kind has.

*JsonSchema.* A column is a record of type, mode and fields; the names of fields are
left out. `Missing` is what the protobuf reader refuses. `Nesting` is how deep the
records in a column are nested; it makes the recursion over fields well-founded.

*Pipeline.* `stage` tells which program runs. `before` is the order read from the dot
file, paths through table and function vertices included. A query starts when
those before it are done, asks for what it needs then, and makes and drops what
it does when it is done; in between any other may start. `lake` is what there is
before, and what the JSON schema declares. Names in `NeededBy` are those that the
resolver reports; what a script creates and uses itself is left out, and a
function that no file creates is taken for one of the engine. The hand-over has no
order of the DROPs and CREATEs of one file: a table that a file both drops and
creates is taken for one that it replaces and leaves (`DroppedBy`), and one that it
reads too for its own (`NeededBy`). Nor does it tell DROP from DROP IF EXISTS: when a
file drops a table that the catalog of alphacheck does not own (`Owned`), the check
may go on (`CheckFile`) or end in the CHECK "No table named" (`CheckFails`).

*AlphaCheck.* `frames` is the stack of nested calls of `check`: a CALL pushes the
body of the procedure. BEGIN blocks are flattened, as check does it. `tables_` maps
a lower-case name to a table, `owned_tables_` is the list that the helpers search
by exact spelling; a table carries a serial number so that two of one name are
told apart. The analyzer is abstracted to "every name is known"; a type error is
told as an unknown name is. `checked` is auxiliary: it records the statements that
passed and is read by properties only. Adding a name twice to the catalog's
functions, table functions or procedures, or two JSON tables that differ in case
only, ends the program (`duplicate`): so does ZetaSQL's SimpleCatalog, which is not
in this repository. The schema is loaded entry by entry, and the columns of its
tables carry the types of `JsonSchema`; the names of columns are left out but for
whether two of one table are equal (`clash`), which the catalog refuses.

## 3. What TLC checks

| Run | Bounds | Shows |
| --- | --- | --- |
| `plan` | every graph of at most 5 edges over 3 vertices (382 edge sets, self-loops included), every set of queries | `CycleVerdict`, `NeverNotADag`, `PlanIsTopological`, `PlanIsComplete`, the inductive invariant `Inv`, and `ImplementsPromise`: refinement of `PlanSpec`, with its liveness |
| `dag` | 2 SQL files and another, one table, one function, all combinations of roles that the resolver can report, all graph flags, arguments with repetition, second creators that stop the reading anywhere in the maps, unparsable files | `Inv`, `NoSelfDependency`, `EndpointsAreVertices`, `ExternalTablesAreExact`, `QueriesOrderedAsFilesSay` |
| `pipeline` | 3 files of 12 kinds over 2 tables and a function, flags for tables, side effects and warnings, two lakes | `QueriesOrderedAsFilesSay` through third files and longer cycles, `PipelineInv`, `OrderIsOfFiles`, `CheckedQueriesRun`, `RunIsDeterminate`, `NoQueryRunsEarly`, `PipelineEnds` |
| `resolver` | 2 files of up to 2 blocks of 17 kinds (a block is a statement, a branch, or a procedure with its body), 2 procedures | `Inv`, `SideEffectsAreOwn`, `WarningsAreErrors`, `CreatedIsExact` |
| `check` | 2 files of up to 2 statements of 10 kinds about 2 tables, one with two spellings, 4 schemas; or one file of up to 3 and one of up to 1 statement of 11 kinds about 2 procedures (one nested and recursive), a function and a temporary table, stack of 3; or schemas with columns of every type and mode, records in records, unreadable fields and two columns of one name | `Inv`, `NoEntryDangles`, `SchemaIsWhole`, `CatalogTellsHistory`, `LastDefinitionCounts`, `DuplicatesEndTheCheck`, `TempTablesAreLocal`, `FunctionsTellHistory`, `TempFunctionsAreFound`, `CheckEnds` |
| `names` | scripts of 1 or 2 statements: any one, or a query of one of several hundred shapes (WITH, recursive or not, in FROM, in expressions, in set operations and parentheses; joins, UNNEST, table functions, correlated subqueries) or any other statement, then one that uses the names again; one name declared in two spellings, a table, a column, a view | `TypeOK`, `NamesAreFree`, `ScopesEndWithStatement`, `LocalIncludesExternal` |

Why the bounds are enough: three vertices give cycles of every length that the
visitor tells apart (self-loop, tree edge and back, through a finished vertex)
and a query behind a filtered vertex; the theorems cover the rest. One table and
one function see every interplay of roles of two files; a third file only adds
chains, which `pipeline` has. Two files are the least with something to leak
from one to the other; two blocks or statements are the least with an order, and
the routines add a third because a call needs a definition and a use. A scope
error shows in one nesting of a declaration and a use in one spot, and a leak in
the statement after it. `MaxDepth` (the room on the stack) is the only bound that
the behaviour itself knows; the other bounds (`MaxEdges`, `MaxBlocks`, the lengths
in `AllInputs`, the shapes in the MC modules) restrict inputs only.

`QueriesOrderedAsFilesSay` compares the graph with a definition, `MustPrecede`,
that looks only at the files, not at the maps, the flags for tables and functions
or the order of the arguments; `CatalogTellsHistory`, `CreatedIsExact` and
`NamesAreFree` do the same for the catalog and the resolvers. The scoping rules of
`SqlScopes` are those of the comments, which know no upper and lower case: where the
code misses the spelling of a parameter or of a recursive view, `NamesAreFree` lets
it find too much (`Respelled`), never too little, and a run of the next table shows it.
`CatalogTellsHistory` says which keys the catalog has, `LastDefinitionCounts` that
under each is the definition made last. `DuplicatesEndTheCheck` says exactly when a
second definition ends the program; a temporary function that one file left behind
would end the next one so.
`CheckedQueriesRun` promises nothing where a file drops something: alphadag takes
a DROP for a reference (dag_lib.h:94), so that a reader and the dropper race;
`RunIsDeterminate` says what is still true then. `CatalogTellsHistory` excludes names that
are temporary and permanent at once (`Unshadowed`), where the code deviates: see
the next table.

### Where the code and its own words differ

| Run | Shows |
| --- | --- |
| `dag_same_name` | a table and a function of one name share a vertex, and the graph gains orders and cycles. A single `DROP PROCEDURE p` is enough: the table name resolver lists `p` as a table |
| `resolver_call_first` | a caller read before the definition of a procedure is not known to create its tables |
| `resolver_temporaries` | calls in the body of a temporary function are lost, and a permanent table read before a temporary one of its name is created is no reference: the one script of the run shows both |
| `names_respelled` | a table-valued parameter with a capital letter, and a recursive view that its query names in another spelling, are taken for tables: the one script of the run shows both |
| `check_drop_of_schema_table` | DROP TABLE of a table of the JSON schema, or under another spelling, ends alphacheck in a CHECK |
| `check_shadowed_table` | a permanent table created under the name of an earlier temporary one disappears at the end of its script |

## 4. Fairness

`ExecutionPlan` and `AlphaCheck` assume `WF_vars(Next)`: one thread runs, and no
step waits for anything but the file system. Nothing more is assumed: every loop
ends by its own measure, and recursive procedures by the end of the stack.
`Pipeline` assumes weak fairness of its whole next-state relation: the Makefile
runs alphacheck after alphadag, whatever alphadag returned, and the runner, a
program outside the repository, goes on as long as a query can start or end. It
does not assume that any particular query is chosen: a run ends because there are
finitely many queries. `AlphaDag`, `IdentifierResolver` and `TableNameResolver`
have only safety properties and no fairness. `PlanSpec` states its liveness
directly (`<>(outcome # "none")`).

## 5. What is proved

All proofs hold for every value of the constants: the sets of vertices, files,
names and statements, the length of scripts, the number of files. The only
assumptions are the named ones of the modules, which TLC evaluates on its
instances:

* `GraphsAssumption`: the file holds a graph;
* `InputAssumption`, `NamesAssumption`: the inputs are of their types and no path
  is the name of a table or function;
* `LakesAssumption` (of `Pipeline`): no table has the name of a function; where
  one has, `dag_same_name` shows what happens;
* `ScriptsAssumption`: the scripts are sequences of nodes, and no procedure is
  created inside the body of another (BigQuery refuses it, and the visitor has one
  `procedure_name`);
* `CheckAssumption`: the inputs are of their types, and the plan holds no file
  twice, which is what `PlanLosesNothing` proves of `GetExecutionPlan`;
* `IdentifiersAssumption`: lower-casing a name twice is lower-casing it once;
* `SyntaxAssumption`: a node of each kind has the fields that its class in the
  parser has, of their types, and the target of a DROP is not empty;
* `DepthAssumption`, `ColumnsAssumption`: parse trees and records in columns are
  finite: a node has a depth, a natural number, and what is under it a smaller one.

*ExecutionPlan.* `Inv` is the type invariant with: the stack is a path through
exactly the gray vertices; an examined edge leads to a finished vertex or is the
next edge of the path; as long as no back edge was seen, no set of finished
vertices is endless (each with a successor in the set); the sorted list is
sorted and holds the finished vertices; the plan is what the filter kept. The
heart is that a vertex is finished only when its successors are, so that adding
it makes no set endless, and that a back edge together with the gray path is an
endless set. When the walk ends all vertices are finished, so the verdict is
about the whole graph; the second walk runs on an acyclic graph and so meets no
back edge (`SortNeverThrows`). `PlanRespectsDependencies` needs more than edges:
for an entry of the list, everything behind it is closed under edges, so every
query that it reaches stands behind it. `KeepsPromise` maps each step to a step of
`PlanSpec` or a stutter. `Cyclic` means what it says on finite graphs; the proofs
do not need finiteness.

*AlphaDag.* Until a file is refused, `Inv` says that the maps tell exactly what the files read so far say
(`TablesTellFiles`, `FunctionsTellFiles`, `OneCreator`) and the lists what the maps
say (`ListsTellMaps`). A file that is refused for a name with a creator may leave
the maps half filled; `Inv` then says that nothing is built from them. From it: no self-dependency under any flag, edges join
vertices, external tables are exact. `OrderOfQueries` is the property that the
program exists for: if no table has the name of a function, one query reaches
another in the graph if and only if the files say so (`MustPrecede`), under every
flag. An order that the files state is a path, of one edge or through the vertex
of a name; for the converse, the set of vertices that must come after a query is
closed under edges, so nothing outside it can be reached.

*Pipeline.* `PipelineInv` carries what one program tells the next: alphadag
leaves its whole graph (`WholeGraph`), alphacheck reads its order from it
(`BeforeIsOfGraph`) and takes files only when those before them are done
(`InOrder`), its catalog is what the checked files made and dropped
(`CatalogTellsCheck`), and the warehouse is what the finished queries did
(`WarehouseTellsRun`). From it: if nothing is dropped, what alphacheck accepted in
one order finds what it needs in every interleaving (`CheckedIsRunnable`); a
complete run leaves the same names in every interleaving (`RunIsUnique`), drops
included; no query starts early (`NoneRunsEarly`).

*IdentifierResolver.* `Inv` relates the members of the visitor to the nodes
passed (`VisitorTellsWalk`: what is created, targeted and temporary is exactly what
the nodes of this walk say, and it is inside a procedure exactly between an
"enter" and its "leave") and the static map to the bodies passed in this file and
in those read before it (`MapTellsBodies`). Since a CALL copies what the map holds
at that moment, the second part must speak of moments (a file and a node), not
only of files; the proofs are by the position of the walk, with one lemma for all
nodes that just go on. `CreatesExactly`, `TargetsAreOwn` and `WarningsStop` follow.

*AlphaCheck.* What a user relies on (`CatalogTellsHistory`: a file may read what
the statements before it made and did not drop) is not inductive: the end of a
script removes temporary names one by one, by spelling, from two lists of which
one is searched by the lower-case name. `Inv` adds what makes it so:
`OwnedTellsHistory` (each owned table was made by a statement that was checked,
no two have one spelling, and a temporary one is on the list to be removed),
`FunctionsTellNames` (the functions are the permanent ones and, apart from them
and each once, those to be removed), `FilesInTurn` (a file is checked once, and
leaves no name to be removed) and `TablesTellHistory` (what the catalog finds
while the schema is loaded and while names are removed). The theorems name no
bound on files, statements or nested calls; a table that is temporary and
permanent under one name is excluded (`Unshadowed`), as in section 3.

`HistoryInv`, the last part of `Inv`, is about definitions. `LastDefinitionCounts` is
kept because an entry is only ever set to the table of the statement just checked, or
taken out. For `DuplicatesEndTheCheck` the catalog's answer to "is it there?" must be
that of the history: for functions this is `FunctionsTellNames`, for table functions
and procedures, and for the keys of the entries loaded so far, `RoutinesTellHistory`.

`Inv` also says what the loading of the schema leaves (`SchemaIsLoaded`): each entry
read so far is in the catalog under a name of its own, with the types of its
columns, and nothing but a checked statement moves it. `TypesAreMeanings` is about
the conversion alone: two columns that can be read get one type if and only if they
mean the same, whatever records are nested in them. It goes by induction over the
fields: an ARRAY is never mistaken for the type of an element, since BigQuery
has no array of arrays and the conversion makes none, a STRUCT is told apart from
a simple type, and 14 names of simple types give 11 types, equal for synonyms only.
`SchemaIsComplete` joins the two.

*Induction over data.* The provers cannot instantiate the induction theorems of the
library, which take a predicate as a parameter. `StructuralRecursion` does without:
it takes *sets* of nodes, and finds a least rank outside of the set
(`StructuralInduction`). From it: a function defined by recursion on nodes of
smaller rank exists and is what its definition says (`RecursionExists`), which TLA+
does not grant by itself, as `f[n \in S] == e` only chooses an `f` if there is one.
The module is instantiated for `Declares`, `Free` and `FreeInStatement` of
`SqlScopes` and for `Readable`, `ConvertSupportedTypeToZetaSQLType` and `Meaning` of
`JsonSchema`; lemmas `...Unfolds` give the equations that the other proofs use.

*TableNameResolver.* `FindsFreeNames` is the theorem about the resolver: for every
script of any size, an explicit stack of calls with shared, mutated members finds
what a definition by recursion on the tree, without any state, calls free, and
nothing else but names in `Respelled`.
The invariant, `IInv`, must say of any sequence of pending calls, halfway through
any statement, what it will still find and how it will leave the members.
`After(call, s)` is the scope (aliases, recursive view, stack of range variables) in
which a call leaves the members when it finds them in s, `Finds(call, s)` what it
finds, in terms of `Free`, and `Fits(call, s)` what s must look like when it starts.
`Lead(calls, s, t, tables)`: one after the other, these calls fit, lead from
s to t and find tables. `IInv` is: the pending calls lead from the members as they
are to the empty scope, and what they find is what `table_names` lacks of
`AllFree`. For each action there is a lemma that the calls that it makes lead from
where its own call starts to where `After` says, and find what `Finds` says
(`Lead` of a sequence is composed of the `Lead`s of its parts); this is where it
matters that FindInQuery restores what it saved, that a join in parentheses starts
from the outer names and hands its own on, and that ORDER BY comes last. The four
properties of run `names` follow: `Types`, `ScopesEnd`, `LocalKeepsExternal` and
`FindsFreeNames`.

For this the definition is stated twice. `FoundInStatement`, in the module of the
proofs, takes parameters and the recursive view as the code spells them; the calls
find exactly that. `Between` then compares it with `FreeInStatement`, in every node
of the tree: an environment that hides more names (`Wider`) leaves fewer paths free,
and those that it takes away are uses of these names (`Uses`), which in a statement
are the respelled ones.

The leaves are proved by Z3 and Zenon, the temporal steps by LS4; the modules
prove from nothing in some minutes, the longest in about five.

## 6. Only model-checked

Every invariant of a passing run is also a theorem.
What TLC alone checks:

* Liveness: `ImplementsPromise` beyond its safety part, `CheckEnds`,
  `PipelineEnds`. The provers have no ENABLED and no fairness reasoning here.
* The disagreements of section 3: each run of that table is one counterexample.

## 7. Not modelled

* The text of dot files, JSON, messages and logs; paths of several identifiers
  stand for themselves.
* `common_lib.h`, a stateless call of the parser: its failure is an outcome of
  each module that reads a file. The service interface, which has no
  implementation. Build files, images and samples.
* The dot file of an earlier run. `src/Makefile` goes on to alphacheck when
  alphadag has failed, and alphadag writes before it looks for a cycle; `Pipeline`
  has the second and starts without a file for the first.
* Retries and the limit of parallel queries of the runners, which are other
  projects.
* `FOR SYSTEM TIME`: GetTables does not ask the resolver for it.
* The types of expressions: the analyzer of ZetaSQL accepts a statement of
  `AlphaCheck` when it knows the names in it.

Points where the code does less than a reader may expect, kept in the models as
they are: the aliases of table functions and of MERGE are not declared; GetTables
passes over IF, WHILE and LOOP statements with a warning, so that a reader in a
branch does not wait for the creator; FLOAT64 columns of the JSON schema become the
32-bit FLOAT, and a column without a mode is refused; DELETE, TRUNCATE and MERGE are
references and no side effects; a procedure that calls itself is checked until the
stack ends. For these the repository promises nothing, and no property judges them.

## 8. Plan

Done, in this order: `DagOrder`, `PlanSpec`, `ExecutionPlan` and its proofs;
`AlphaDag` and its proofs; `IdentifierResolver`; `AlphaCheck`; `Pipeline` and its
proofs; `TableNameResolver` with `SqlScopes`; `JsonSchema`; the order of queries;
the proofs about `IdentifierResolver` and about `AlphaCheck`; structural induction,
the proofs about `TableNameResolver` and about the types of columns.

Left: a composition of `IdentifierResolver` with `AlphaDag` over whole scripts,
in which the order of the arguments reaches the graph through the static map; the
dot file of an earlier run in `Pipeline`; an abstract catalog (a map from names to
definitions) that `AlphaCheck` implements as long as no name is shadowed.
