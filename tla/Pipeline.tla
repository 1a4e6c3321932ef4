------------------------------- MODULE Pipeline -------------------------------
(***************************************************************************)
(* The three programs one after the other, as README.md and the Makefile   *)
(* run them: alphadag writes the graph, alphacheck checks the files in an  *)
(* order that the graph allows, and a runner (bq_jobrunner or an Airflow   *)
(* DAG, README.md:109-147, not in this repository) executes the queries in *)
(* parallel, each as soon as all those before it in the graph are done.    *)
(*                                                                         *)
(* A file is one step of the check and two of the run: its needs are asked *)
(* for when it starts, its effects are there when it finishes.  Names that *)
(* alphacheck knows and names that the warehouse has are sets; at first    *)
(* both hold the tables of the lake, whose schemata the JSON file gives    *)
(* (README.md:208-224).  The Makefile goes on to alphacheck whatever       *)
(* alphadag returned (l. 17-26).                                           *)
(***************************************************************************)
EXTENDS AlphaDag

CONSTANT Lakes   \* the sets of tables that there may be before

\* A table and a function of one name would share a vertex of the graph.
ASSUME LakesAssumption ==
  /\ Lakes \subseteq SUBSET Tables
  /\ Tables \cap Functions = {}

VARIABLES
  lake,
  written,       \* the dot file is there
  stage,         \* the program that runs
  before,        \* the order that the programs read from the dot file
  analyzed,      \* the files checked so far
  catalog,       \* what alphacheck knows by then
  warehouse,     \* what the warehouse has
  status         \* of each query, to the runner

pipelineVars == <<vars, lake, written, stage, before, analyzed, catalog, warehouse, status>>

PipelineInit ==
  /\ Init
  /\ lake \in Lakes
  /\ written = FALSE
  /\ stage = "alphadag"
  /\ before = {}
  /\ analyzed = {}
  /\ catalog = lake
  /\ warehouse = lake
  /\ status = [f \in Files |-> "waiting"]

-----------------------------------------------------------------------------
(* What a file needs of other files or the lake, and what it leaves.       *)

\* A function that no file creates is one of the engine's own.
NeededBy(f) ==
  (content[f].referenced \ (content[f].created \cup content[f].dropped))
    \cup {n \in content[f].called \ content[f].defined :
            \E g \in vertices : n \in content[g].defined}

MadeBy(f) == content[f].created \cup content[f].defined

\* alphadag tells no order of DROP and CREATE in one file: a table that it both
\* drops and creates is taken for one that it replaces, and leaves.
DroppedBy(f) == content[f].dropped \ content[f].created

\* alphacheck ignores DROP FUNCTION, the warehouse does not.
UndefinedBy(f) == content[f].undefined \ content[f].defined

Made(S)    == UNION {MadeBy(f) : f \in S}
Dropped(S) == UNION {DroppedBy(f) : f \in S}
Gone(S)    == Dropped(S) \cup UNION {UndefinedBy(f) : f \in S}

-----------------------------------------------------------------------------
(* alphadag.                                                               *)

\* The dot file comes before the list of external tables; when the path of one
\* of the two is a directory, the first may be written or not.
RunAlphaDag ==
  /\ stage = "alphadag"
  /\ phase \notin {"failed", "succeeded"} /\ Next
  /\ written' \in IF phase # "write" THEN {written}
                  ELSE IF phase' = "check" THEN {TRUE} ELSE BOOLEAN
  /\ UNCHANGED <<lake, stage, before, analyzed, catalog, warehouse, status>>

DagIsOver == stage = "alphadag" /\ phase \in {"failed", "succeeded"} /\ UNCHANGED vars

\* "ERROR: not a file".
NoDotFile ==
  /\ DagIsOver /\ ~written
  /\ stage' = "refused"
  /\ UNCHANGED <<lake, written, before, analyzed, catalog, warehouse, status>>

-----------------------------------------------------------------------------
(* alphacheck: GetExecutionPlan as PlanSpec promises it, then the files.   *)

RefuseCycle ==
  /\ DagIsOver /\ written /\ HasCycle
  /\ stage' = "refused"
  /\ UNCHANGED <<lake, written, before, analyzed, catalog, warehouse, status>>

Before ==
  {e \in vertices \X vertices :
     Reaches(graph.vertex, graph.edge, <<"query", e[1]>>, <<"query", e[2]>>)}

\* A slip: the paths through tables and functions are lost with them.
ReadPlanDirect ==
  /\ DagIsOver /\ written /\ ~HasCycle
  /\ stage' = "check"
  /\ before' = {e \in vertices \X vertices : <<<<"query", e[1]>>, <<"query", e[2]>>>> \in graph.edge}
  /\ UNCHANGED <<lake, written, analyzed, catalog, warehouse, status>>

ReadPlan ==
  /\ DagIsOver /\ written /\ ~HasCycle
  /\ stage' = "check"
  /\ before' = Before
  /\ UNCHANGED <<lake, written, analyzed, catalog, warehouse, status>>

\* f may be the next one in a topological order.
IsNext(f) ==
  /\ stage = "check"
  /\ f \in vertices \ analyzed
  /\ \A e \in before : e[2] = f => e[1] \in analyzed

\* A slip: names that the catalog lacks are no error.
CheckFileLeniently(f) ==
  /\ IsNext(f)
  /\ analyzed' = analyzed \cup {f}
  /\ catalog' = (catalog \cup MadeBy(f)) \ DroppedBy(f)
  /\ UNCHANGED <<vars, lake, written, stage, before, warehouse, status>>

CheckFile(f) ==
  /\ IsNext(f) /\ NeededBy(f) \subseteq catalog
  /\ analyzed' = analyzed \cup {f}
  /\ catalog' = (catalog \cup MadeBy(f)) \ DroppedBy(f)
  /\ UNCHANGED <<vars, lake, written, stage, before, warehouse, status>>

\* The tables that the catalog of alphacheck owns.
Owned == Made(analyzed) \ Dropped(analyzed)

\* The analyzer does not know a name, or the CHECK "No table named" fails over a
\* table that is not owned: alphadag does not tell DROP from DROP IF EXISTS, which
\* has no such CHECK, so that CheckFile is possible too.
CheckFails(f) ==
  /\ IsNext(f)
  /\ \/ ~(NeededBy(f) \subseteq catalog)
     \/ ~(content[f].dropped \subseteq Owned \cup content[f].created)
  /\ stage' = "refused"
  /\ UNCHANGED <<vars, lake, written, before, analyzed, catalog, warehouse, status>>

\* "Successfully finished type check!"
CheckSucceeds ==
  /\ stage = "check" /\ analyzed = vertices
  /\ stage' = "run"
  /\ UNCHANGED <<vars, lake, written, before, analyzed, catalog, warehouse, status>>

-----------------------------------------------------------------------------
(* The runner.                                                             *)

Ready(f) ==
  /\ stage = "run"
  /\ f \in vertices /\ status[f] = "waiting"
  /\ \A e \in before : e[2] = f => status[e[1]] = "done"

\* A slip: a query that misses something is tried again.
StartQueryAgain(f) ==
  /\ Ready(f)
  /\ status' = [status EXCEPT ![f] = IF NeededBy(f) \subseteq warehouse THEN "running" ELSE "waiting"]
  /\ UNCHANGED <<vars, lake, written, stage, before, analyzed, catalog, warehouse>>

\* A query that misses something fails, and those behind it never start.
StartQuery(f) ==
  /\ Ready(f)
  /\ status' = [status EXCEPT ![f] = IF NeededBy(f) \subseteq warehouse THEN "running" ELSE "failed"]
  /\ UNCHANGED <<vars, lake, written, stage, before, analyzed, catalog, warehouse>>

FinishQuery(f) ==
  /\ stage = "run" /\ status[f] = "running"
  /\ status' = [status EXCEPT ![f] = "done"]
  /\ warehouse' = (warehouse \cup MadeBy(f)) \ (DroppedBy(f) \cup UndefinedBy(f))
  /\ UNCHANGED <<vars, lake, written, stage, before, analyzed, catalog>>

\* No query runs or can start.
RunEnds ==
  /\ stage = "run"
  /\ \A f \in vertices : status[f] # "running" /\ ~Ready(f)
  /\ stage' = "over"
  /\ UNCHANGED <<vars, lake, written, before, analyzed, catalog, warehouse, status>>

Over == stage \in {"refused", "over"} /\ UNCHANGED pipelineVars

PipelineNext ==
  \/ RunAlphaDag
  \/ NoDotFile
  \/ RefuseCycle
  \/ ReadPlan
  \/ \E f \in Files : CheckFile(f)
  \/ \E f \in Files : CheckFails(f)
  \/ CheckSucceeds
  \/ \E f \in Files : StartQuery(f)
  \/ \E f \in Files : FinishQuery(f)
  \/ RunEnds
  \/ Over

PipelineSpec == PipelineInit /\ [][PipelineNext]_pipelineVars

\* The programs run to their ends, and so do queries of the warehouse.
FairPipelineSpec == PipelineSpec /\ WF_pipelineVars(PipelineNext)

-----------------------------------------------------------------------------
\* The order in which queries may run is that of the files, no more and no
\* less, through any number of files in between.
OrderIsOfFiles ==
  stage = "check" =>
    LET plain == {e \in vertices \X vertices : MustPrecede(e[1], e[2])}
    IN  before = {e \in vertices \X vertices : Reaches(vertices, plain, e[1], e[2])}

NothingDropped == Gone(vertices) = {}

\* What alphacheck has accepted in one order runs in every order in which the
\* runner may interleave the queries (README.md:6): if nothing is dropped, no
\* query misses a table or a function.
CheckedQueriesRun ==
  NothingDropped => \A f \in vertices : status[f] # "failed"

Done == {f \in vertices : status[f] = "done"}

\* Queries that are all done leave the same tables and functions behind in every
\* interleaving: a table is dropped after it was created (dag_lib.h:94: DROP
\* counts as a reference) and not the other way round.
RunIsDeterminate ==
  Done = vertices => warehouse = (lake \cup Made(vertices)) \ Gone(vertices)

\* A reader of a table runs when the creator is done, and with side_effect_first
\* when all who fill or change it are, whatever runs at the same time.
NoQueryRunsEarly ==
  \A f \in vertices : status[f] \in {"running", "done"} =>
    \A g \in vertices : MustPrecede(g, f) => status[g] = "done"

\* The three programs come to an end, and a query is left out only if one fails:
\* never do all wait for each other, because a graph with a cycle is not
\* executed (README.md:81).
PipelineEnds ==
  <>(\/ stage = "refused"
     \/ stage = "over" /\ (Done = vertices \/ \E f \in vertices : status[f] = "failed"))

-----------------------------------------------------------------------------
(* Why it is: the inductive invariant, by parts, next to Inv of AlphaDag.  *)

PipelineTypeOK ==
  /\ lake \in Lakes
  /\ written \in BOOLEAN
  /\ stage \in {"alphadag", "refused", "check", "run", "over"}
  /\ before \subseteq vertices \X vertices
  /\ analyzed \subseteq vertices
  /\ status \in [Files -> {"waiting", "running", "done", "failed"}]
  /\ \A f \in Files \ vertices : status[f] = "waiting"

\* Whatever alphadag returned, a dot file that is there is the whole graph.
WholeGraph ==
  written =>
    /\ phase \in {"check", "failed", "succeeded"} /\ unread = << >>
    /\ depends_on = TableDependencies \cup FunctionDependencies
    /\ table_vertices = IF flags.with_tables THEN KnownTables ELSE {}
    /\ function_vertices = IF flags.with_functions THEN CreatedFunctions ELSE {}
    /\ graph = [vertex |-> GraphVertices, edge |-> GraphEdges]

Planned == stage \in {"check", "run", "over"}

StagesFollow ==
  /\ stage # "alphadag" => phase \in {"failed", "succeeded"}
  /\ ~Planned /\ stage # "refused" => before = {} /\ analyzed = {}
  /\ stage \notin {"run", "over"} => \A f \in Files : status[f] = "waiting"
  /\ stage \in {"run", "over"} => analyzed = vertices

\* The order is that of the graph, and covers what the files say.
BeforeIsOfGraph ==
  Planned =>
    /\ written /\ before = Before
    /\ \A f, g \in vertices : MustPrecede(g, f) => <<g, f>> \in before

\* Files are checked, and queries run, in that order.
InOrder ==
  \A e \in before :
    /\ e[2] \in analyzed => e[1] \in analyzed
    /\ status[e[2]] # "waiting" => status[e[1]] = "done"

CatalogTellsCheck ==
  /\ catalog = (lake \cup Made(analyzed)) \ Dropped(analyzed)
  /\ \A f \in analyzed : NeededBy(f) \subseteq lake \cup Made(vertices)

WarehouseTellsRun == warehouse = (lake \cup Made(Done)) \ Gone(Done)

PipelineInv ==
  /\ PipelineTypeOK
  /\ WholeGraph
  /\ StagesFollow
  /\ BeforeIsOfGraph
  /\ InOrder
  /\ CatalogTellsCheck
  /\ WarehouseTellsRun
  /\ CheckedQueriesRun
===============================================================================
