------------------------------- MODULE AlphaDag -------------------------------
(***************************************************************************)
(* alphadag: main (alphadag.cc) with the maps of dag_lib.h.                *)
(*                                                                         *)
(* It reads the SQL files in the order of its arguments, gathers per table *)
(* and per function who creates, fills, changes and reads it, turns that   *)
(* into a list of dependencies (dependent, parent), builds the graph,      *)
(* writes it and the list of external tables, and looks for a cycle.       *)
(*                                                                         *)
(* What a file says (identifier_info) comes from IdentifierResolver and is *)
(* an input here.  Vectors of file names are sets: a repeated dependency   *)
(* is skipped when the graph is built.  The map operator[] makes an entry  *)
(* only where something is then stored, so an entry that holds nothing     *)
(* stands for one that is absent.                                          *)
(***************************************************************************)
EXTENDS DagOrder

CONSTANTS
  Files,      \* paths given to alphadag, or found under a directory it is given
  SqlFiles,   \* those that end with .sql or .bq and are not excluded
  Tables,     \* names of tables, joined with "."
  Functions,  \* names of functions and procedures, joined with "."
  Contents,   \* what the files may say, per path
  Arguments,  \* sequences of paths, as the two loops of main go through them
  Flags,      \* settings of the command line flags
  None        \* the empty string

FileInfo ==
  [created : SUBSET Tables, dropped : SUBSET Tables, referenced : SUBSET Tables,
   inserted : SUBSET Tables, updated : SUBSET Tables,
   defined : SUBSET Functions, undefined : SUBSET Functions, called : SUBSET Functions]

ASSUME InputAssumption ==
  /\ SqlFiles \subseteq Files
  /\ Contents \subseteq [Files -> FileInfo \cup {None}]   \* None: cannot be parsed
  /\ Arguments \subseteq Seq(Files)
  /\ Flags \subseteq [with_tables : BOOLEAN, with_functions : BOOLEAN,
                      side_effect_first : BOOLEAN, warning_as_error : BOOLEAN]

\* The empty string is no path and no name, and no path is a name.
ASSUME NamesAssumption ==
  /\ None \notin Files \cup Tables \cup Functions \cup FileInfo
  /\ Files \cap (Tables \cup Functions) = {}

Names == Files \cup Tables \cup Functions

VARIABLES
  flags, content, unread,      \* the command line, the files, the arguments left
  phase,                       \* where main is
  table_queries, function_queries, vertices,
  depends_on,                  \* pairs <<dependent, parent>>
  table_vertices, function_vertices,
  external_required_tables,
  graph                        \* g: its vertices and edges

maps    == <<table_queries, function_queries, vertices>>
lists   == <<depends_on, table_vertices, function_vertices, external_required_tables>>
input   == <<flags, content>>
vars    == <<input, unread, phase, maps, lists, graph>>

NoTableQueries    == [create |-> None, inserts |-> {}, updates |-> {}, others |-> {}]
NoFunctionQueries == [create |-> None, call |-> {}]
NoGraph           == [vertex |-> {}, edge |-> {}]

Init ==
  /\ flags \in Flags
  /\ content \in Contents
  /\ unread \in Arguments
  /\ phase = "read"
  /\ table_queries = [t \in Tables |-> NoTableQueries]
  /\ function_queries = [n \in Functions |-> NoFunctionQueries]
  /\ vertices = {}
  /\ depends_on = {}
  /\ table_vertices = {}
  /\ function_vertices = {}
  /\ external_required_tables = {}
  /\ graph = NoGraph

-----------------------------------------------------------------------------
(* UpdateIdentifierQueriesMapsAndVertices, for the next file.              *)

NextFile == Head(unread)

\* Some table or function of the file has a creator already: AlreadyExists.
Exists(info) ==
  \/ \E t \in info.created : table_queries[t].create # None
  \/ \E n \in info.defined : function_queries[n].create # None

\* A slip: a DROP is no reference.
TableQueriesAfterUndropped(f, info) ==
  [t \in Tables |->
    LET q == table_queries[t]
        creator == IF t \in info.created THEN f ELSE q.create
    IN  [create  |-> creator,
         inserts |-> q.inserts \cup {g \in {f} : t \in info.inserted},
         updates |-> q.updates \cup {g \in {f} : t \in info.updated},
         others  |-> q.others \cup {g \in {f} : t \in info.referenced /\ creator # f}]]

\* The entries of the tables after the file: a table that it creates itself
\* does not count as one that it uses or drops.
TableQueriesAfter(f, info) ==
  [t \in Tables |->
    LET q == table_queries[t]
        creator == IF t \in info.created THEN f ELSE q.create
    IN  [create  |-> creator,
         inserts |-> q.inserts \cup {g \in {f} : t \in info.inserted},
         updates |-> q.updates \cup {g \in {f} : t \in info.updated},
         others  |-> q.others \cup
           {g \in {f} : t \in info.dropped \cup info.referenced /\ creator # f}]]

FunctionQueriesAfter(f, info) ==
  [n \in Functions |->
    LET q == function_queries[n]
        creator == IF n \in info.defined THEN f ELSE q.create
    IN  [create |-> creator,
         call   |-> q.call \cup
           {g \in {f} : n \in info.undefined \cup info.called /\ creator # f}]]

ReadFile ==
  /\ phase = "read" /\ unread # << >> /\ NextFile \in SqlFiles
  /\ content[NextFile] # None /\ ~Exists(content[NextFile])
  /\ table_queries' = TableQueriesAfter(NextFile, content[NextFile])
  /\ function_queries' = FunctionQueriesAfter(NextFile, content[NextFile])
  /\ vertices' = vertices \cup {NextFile}
  /\ unread' = Tail(unread)
  /\ UNCHANGED <<input, phase, lists, graph>>

\* The path is excluded, or its extension is another.
SkipFile ==
  /\ phase = "read" /\ unread # << >> /\ NextFile \notin SqlFiles
  /\ unread' = Tail(unread)
  /\ UNCHANGED <<input, phase, maps, lists, graph>>

\* The file cannot be parsed: main returns 1.  Or there is no such path, and
\* nothing catches what the iterator over a directory throws.
RefuseFile ==
  /\ phase = "read" /\ unread # << >>
  /\ NextFile \in SqlFiles => content[NextFile] = None
  /\ phase' = "failed"
  /\ UNCHANGED <<input, unread, maps, lists, graph>>

FreeTables(info)    == {t \in info.created : table_queries[t].create = None}
FreeFunctions(info) == {n \in info.defined : function_queries[n].create = None}

\* The maps when the clash is met: the names are entered in their order, which
\* may put any of the free ones before the one that is taken; functions come
\* after all that the file says of tables.
HalfEntered(f, info) ==
  \/ /\ FreeTables(info) # info.created
     /\ \E entered \in SUBSET FreeTables(info) :
          table_queries' = [t \in Tables |->
            IF t \in entered THEN [table_queries[t] EXCEPT !.create = f] ELSE table_queries[t]]
     /\ UNCHANGED function_queries
  \/ /\ FreeTables(info) = info.created /\ FreeFunctions(info) # info.defined
     /\ table_queries' = TableQueriesAfter(f, info)
     /\ \E entered \in SUBSET FreeFunctions(info) :
          function_queries' = [n \in Functions |->
            IF n \in entered THEN [function_queries[n] EXCEPT !.create = f]
            ELSE function_queries[n]]

\* A slip: the status is not looked at, and main goes on with the next file.
RefuseClashUnseen ==
  /\ phase = "read" /\ unread # << >> /\ NextFile \in SqlFiles
  /\ content[NextFile] # None /\ HalfEntered(NextFile, content[NextFile])
  /\ unread' = Tail(unread)
  /\ UNCHANGED <<input, phase, vertices, lists, graph>>

\* "already exists!": main returns 1 and leaves the maps as they are.
RefuseClash ==
  /\ phase = "read" /\ unread # << >> /\ NextFile \in SqlFiles
  /\ content[NextFile] # None /\ HalfEntered(NextFile, content[NextFile])
  /\ phase' = "failed"
  /\ UNCHANGED <<input, unread, vertices, lists, graph>>

-----------------------------------------------------------------------------
(* The dependencies.                                                       *)

\* A slip: the empty parent is not looked for.
UpdateEdgesUnchecked(dependents, parent) == {<<d, parent>> : d \in dependents}

UpdateEdges(dependents, parent) ==
  {<<d, parent>> : d \in {e \in dependents : parent # None}}

AllEdgesTo(dependents, parents) ==
  UNION {UpdateEdges(dependents, p) : p \in parents}

\* A slip: the creator stays among those who fill the table.
WithSelfReference(q) ==
  [q EXCEPT !.others  = @ \ (q.inserts \cup q.updates),
            !.updates = @ \ {q.create}]

\* side_effect_first, "Prevent self reference": who fills or changes the table
\* is not among those who wait for that, nor its creator among those who
\* fill or change it.
WithoutSelfReference(q) ==
  [q EXCEPT !.others  = @ \ (q.inserts \cup q.updates),
            !.inserts = @ \ {q.create},
            !.updates = @ \ {q.create}]

\* A slip: with side_effect_first and tables, readers wait for the table only.
TableEdgesLoose(t, queries) ==
  LET q == IF flags.side_effect_first THEN WithoutSelfReference(queries) ELSE queries
  IN  IF flags.with_tables
      THEN UpdateEdges(q.others, t) \cup UpdateEdges({t}, q.create)
      ELSE UpdateEdges(q.others, q.create)

\* One turn of the loop over table_queries_map.
TableEdges(t, queries) ==
  LET q == IF flags.side_effect_first THEN WithoutSelfReference(queries) ELSE queries
      changes == q.inserts \cup q.updates
  IN  CASE flags.side_effect_first /\ flags.with_tables ->
             UpdateEdges(q.others, t) \cup UpdateEdges(changes, q.create)
               \cup AllEdgesTo({t}, changes) \cup UpdateEdges({t}, q.create)
        [] flags.side_effect_first /\ ~flags.with_tables ->
             AllEdgesTo(q.others, changes) \cup UpdateEdges(changes, q.create)
               \cup UpdateEdges(q.others, q.create)
        [] ~flags.side_effect_first /\ flags.with_tables ->
             UpdateEdges(q.others, t) \cup UpdateEdges({t}, q.create)
        [] OTHER -> UpdateEdges(q.others, q.create)

\* A slip: a table that nobody reads is not reported.
KnownTablesReadOnly == {t \in Tables : table_queries[t].others # {}}

KnownTables == {t \in Tables : table_queries[t] # NoTableQueries}

TableDependencies == UNION {TableEdges(t, table_queries[t]) : t \in KnownTables}

\* The loop over table_queries_map.
ResolveTables ==
  /\ phase = "read" /\ unread = << >>
  /\ phase' = "functions"
  /\ depends_on' = TableDependencies
  /\ table_vertices' = IF flags.with_tables THEN KnownTables ELSE {}
  /\ external_required_tables' = {t \in KnownTables : table_queries[t].create = None}
  /\ UNCHANGED <<input, unread, maps, function_vertices, graph>>

\* One turn of the loop over function_queries_map.  A function that no file
\* creates is a default one and gets no vertex.
FunctionEdges(n, q) ==
  IF flags.with_functions /\ q.create # None
  THEN UpdateEdges(q.call, n) \cup UpdateEdges({n}, q.create)
  ELSE UpdateEdges(q.call, q.create)

FunctionDependencies == UNION {FunctionEdges(n, function_queries[n]) : n \in Functions}

CreatedFunctions == {n \in Functions : function_queries[n].create # None}

ResolveFunctions ==
  /\ phase = "functions"
  /\ phase' = "graph"
  /\ depends_on' = depends_on \cup FunctionDependencies
  /\ function_vertices' = IF flags.with_functions THEN CreatedFunctions ELSE {}
  /\ UNCHANGED <<input, unread, maps, table_vertices, external_required_tables, graph>>

-----------------------------------------------------------------------------
(* The graph.  A vertex descriptor is a kind and a name.                   *)

GraphVertices ==
  {<<"query", f>> : f \in vertices} \cup {<<"table", t>> : t \in table_vertices}
    \cup {<<"function", n>> : n \in function_vertices}

\* What indexes[] yields for a name that is no vertex: descriptor 0.
DefaultDescriptor == <<"index", None>>

\* The map indexes: the loops over the three sets of vertices enter their
\* descriptors under their names, a later one over an earlier one.
IndexOf(name) ==
  CASE name \in function_vertices -> <<"function", name>>
    [] name \in table_vertices \ function_vertices -> <<"table", name>>
    [] name \in vertices \ (table_vertices \cup function_vertices) -> <<"query", name>>
    [] OTHER -> DefaultDescriptor

GraphEdges == {<<IndexOf(d[2]), IndexOf(d[1])>> : d \in depends_on}

BuildGraph ==
  /\ phase = "graph"
  /\ phase' = "write"
  /\ graph' = [vertex |-> GraphVertices, edge |-> GraphEdges]
  /\ UNCHANGED <<input, unread, maps, lists>>

\* The dot file, and then the list of external tables, are written.
WriteOutputs ==
  /\ phase = "write"
  /\ phase' = "check"
  /\ UNCHANGED <<input, unread, maps, lists, graph>>

\* output_path or external_required_tables_output_path is a directory.
CannotWrite ==
  /\ phase = "write"
  /\ phase' = "failed"
  /\ UNCHANGED <<input, unread, maps, lists, graph>>

HasCycle == Cyclic(graph.vertex, graph.edge)

\* The walk with cycle_detector, whose verdict is proved in ExecutionPlan:
\* the outputs are written by then, and a cycle fails the program only when
\* warnings are errors.
DetectCycle ==
  /\ phase = "check"
  /\ phase' = IF HasCycle /\ flags.warning_as_error THEN "failed" ELSE "succeeded"
  /\ UNCHANGED <<input, unread, maps, lists, graph>>

Terminated == phase \in {"failed", "succeeded"} /\ UNCHANGED vars

Next ==
  \/ ReadFile
  \/ SkipFile
  \/ RefuseFile
  \/ RefuseClash
  \/ ResolveTables
  \/ ResolveFunctions
  \/ BuildGraph
  \/ WriteOutputs
  \/ CannotWrite
  \/ DetectCycle
  \/ Terminated

Spec == Init /\ [][Next]_vars

-----------------------------------------------------------------------------
(* What the graph must be.                                                 *)

Phases == {"read", "functions", "graph", "write", "check", "failed", "succeeded"}

TypeOK ==
  /\ flags \in Flags
  /\ content \in Contents
  /\ unread \in Seq(Files)
  /\ phase \in Phases
  /\ table_queries \in
       [Tables -> [create : Files \cup {None}, inserts : SUBSET Files,
                   updates : SUBSET Files, others : SUBSET Files]]
  /\ function_queries \in [Functions -> [create : Files \cup {None}, call : SUBSET Files]]
  /\ vertices \subseteq Files
  /\ depends_on \subseteq Names \X Names
  /\ table_vertices \subseteq Tables
  /\ function_vertices \subseteq Functions
  /\ external_required_tables \subseteq Tables

Built == phase \in {"write", "check", "succeeded"}

Creates(f, t) == t \in content[f].created
Changes(f, t) == t \in content[f].inserted \cup content[f].updated
Uses(f, t)    == t \in content[f].dropped \cup content[f].referenced

\* What the files say about the order of g before f, without regard to the
\* order of the arguments: g creates what f uses, g defines what f calls, and
\* with side_effect_first also g creates what f changes and g changes what f
\* only reads.
MustPrecede(g, f) ==
  /\ f # g
  /\ \/ \E t \in Tables : Creates(g, t) /\ Uses(f, t)
     \/ \E n \in Functions :
          /\ n \in content[g].defined
          /\ n \in content[f].called \cup content[f].undefined
     \/ /\ flags.side_effect_first
        /\ \E t \in Tables :
             \/ Creates(g, t) /\ Changes(f, t)
             \/ Changes(g, t) /\ Uses(f, t) /\ ~Changes(f, t) /\ ~Creates(f, t)

\* The graph orders two queries exactly when the files do, whatever the order
\* of the arguments, and whether or not it shows tables and functions: these
\* flags only add vertices in between (alphadag.cc:25, 27).  In particular no
\* cycle appears that is not in the files.
QueriesOrderedAsFilesSay ==
  Built =>
    LET plain == {e \in vertices \X vertices : MustPrecede(e[1], e[2])}
    IN  \A f, g \in vertices :
          Reaches(graph.vertex, graph.edge, <<"query", g>>, <<"query", f>>)
            <=> Reaches(vertices, plain, g, f)

\* No vertex is made to wait for itself, whatever a file creates, fills and
\* reads at once (alphadag.cc:97): a self-loop would be a cycle to alphacheck.
NoSelfDependency == \A d \in depends_on : d[1] # d[2]

\* Every dependency is between vertices of the graph: indexes[] never makes
\* up the descriptor 0 for a name that is unknown or empty.
EndpointsAreVertices ==
  Built => graph.edge \subseteq graph.vertex \X graph.vertex

\* The list of external tables is what the files mention and none of them
\* creates, whatever the order in which they were read.
ExternalTablesAreExact ==
  Built =>
    external_required_tables =
      {t \in Tables :
         /\ \E f \in vertices : Uses(f, t) \/ Changes(f, t)
         /\ \A f \in vertices : ~Creates(f, t)}

-----------------------------------------------------------------------------
(* Why it is: the inductive invariant, by parts.                           *)

\* The maps hold what the files read so far say, each file counted once,
\* and nobody is a user of what he creates.
TablesTellFiles ==
  \A t \in Tables :
    LET q == table_queries[t]
    IN  /\ q.create = None => \A f \in vertices : ~Creates(f, t)
        /\ q.create # None => q.create \in vertices /\ Creates(q.create, t)
        /\ q.inserts = {f \in vertices : t \in content[f].inserted}
        /\ q.updates = {f \in vertices : t \in content[f].updated}
        /\ q.others  = {f \in vertices : Uses(f, t) /\ ~Creates(f, t)}

FunctionsTellFiles ==
  \A n \in Functions :
    LET q == function_queries[n]
    IN  /\ q.create = None => \A f \in vertices : n \notin content[f].defined
        /\ q.create # None => q.create \in vertices /\ n \in content[q.create].defined
        /\ q.call = {f \in vertices : /\ n \in content[f].undefined \cup content[f].called
                                      /\ n \notin content[f].defined}

\* No table and no function of two files: the second is refused.
OneCreator ==
  \A f, g \in vertices :
    /\ \A t \in Tables : Creates(f, t) /\ Creates(g, t) => f = g
    /\ \A n \in Functions :
         n \in content[f].defined /\ n \in content[g].defined => f = g

FilesParsed == \A f \in vertices : content[f] # None

Resolved == phase \in {"graph", "write", "check", "succeeded"}

\* The lists hold what the maps say.
ListsTellMaps ==
  /\ phase = "read" => depends_on = {}
  /\ phase = "functions" => depends_on = TableDependencies
  /\ Resolved => depends_on = TableDependencies \cup FunctionDependencies
  /\ depends_on \subseteq TableDependencies \cup FunctionDependencies
  /\ Resolved \/ phase = "functions" =>
       /\ table_vertices = IF flags.with_tables THEN KnownTables ELSE {}
       /\ external_required_tables = {t \in KnownTables : table_queries[t].create = None}
  /\ Resolved => function_vertices = IF flags.with_functions THEN CreatedFunctions ELSE {}
  /\ Built => graph = [vertex |-> GraphVertices, edge |-> GraphEdges]

\* The reading has stopped: the maps may be half filled, and nothing has been
\* made of them.
Refused == phase = "failed" /\ unread # << >>

Inv ==
  /\ TypeOK
  /\ FilesParsed
  /\ OneCreator
  /\ IF Refused THEN depends_on = {} /\ graph = NoGraph
     ELSE TablesTellFiles /\ FunctionsTellFiles
  /\ phase = "read" => graph = NoGraph
  /\ phase \notin {"read", "failed"} => unread = << >>
  /\ ListsTellMaps
===============================================================================
