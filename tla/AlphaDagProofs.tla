---------------------------- MODULE AlphaDagProofs ----------------------------
(***************************************************************************)
(* Proofs about AlphaDag, for all files, names, contents, argument orders  *)
(* and flags.                                                              *)
(***************************************************************************)
EXTENDS AlphaDag, SequenceTheorems, TLAPS

(* Types.                                                                  *)

\* What a file holds is a record of sets of names, or nothing.
LEMMA ContentType ==
  ASSUME TypeOK, NEW f \in Files
  PROVE  content[f] \in FileInfo \cup {None}
BY InputAssumption DEF TypeOK

\* The next argument is a path, and what is left after it are paths.
LEMMA NextFileType ==
  ASSUME TypeOK, unread # << >>
  PROVE  NextFile \in Files /\ Tail(unread) \in Seq(Files)
BY HeadTailProperties DEF TypeOK, NextFile

\* The initial state is well typed.
LEMMA InitType == Init => TypeOK
<1> SUFFICES ASSUME Init PROVE TypeOK
  OBVIOUS
<1> USE DEF Init
<1>1. flags \in Flags /\ content \in Contents
  OBVIOUS
<1>2. unread \in Seq(Files)
  BY InputAssumption
<1>3. phase \in Phases
  BY DEF Phases
<1>4. table_queries \in
       [Tables -> [create : Files \cup {None}, inserts : SUBSET Files,
                   updates : SUBSET Files, others : SUBSET Files]]
  BY DEF NoTableQueries
<1>5. function_queries \in [Functions -> [create : Files \cup {None}, call : SUBSET Files]]
  BY DEF NoFunctionQueries
<1>6. /\ vertices \subseteq Files
      /\ depends_on \subseteq Names \X Names
      /\ table_vertices \subseteq Tables
      /\ function_vertices \subseteq Functions
      /\ external_required_tables \subseteq Tables
  OBVIOUS
<1> QED BY <1>1, <1>2, <1>3, <1>4, <1>5, <1>6 DEF TypeOK

\* Dependencies are between names: the empty parent is left out.
LEMMA TableDependenciesType ==
  ASSUME TypeOK PROVE TableDependencies \subseteq Names \X Names
<1> SUFFICES ASSUME NEW t \in KnownTables, NEW d \in TableEdges(t, table_queries[t])
             PROVE  d \in Names \X Names
  BY DEF TableDependencies
<1>1. t \in Tables
  BY DEF KnownTables
<1>2. /\ table_queries[t].create \in Files \cup {None}
      /\ table_queries[t].inserts \subseteq Files
      /\ table_queries[t].updates \subseteq Files
      /\ table_queries[t].others \subseteq Files
  BY <1>1 DEF TypeOK
<1> DEFINE q == IF flags.side_effect_first THEN WithoutSelfReference(table_queries[t])
                ELSE table_queries[t]
<1>3. /\ q.create \in Files \cup {None}
      /\ q.inserts \subseteq Files
      /\ q.updates \subseteq Files
      /\ q.others \subseteq Files
  <2>1. table_queries[t] \in [create : Files \cup {None}, inserts : SUBSET Files,
                              updates : SUBSET Files, others : SUBSET Files]
    BY <1>1 DEF TypeOK
  <2> QED BY <2>1, <1>2 DEF WithoutSelfReference
<1>4. \/ d \in UpdateEdges(q.others, t)
      \/ d \in UpdateEdges({t}, q.create)
      \/ d \in UpdateEdges(q.others, q.create)
      \/ d \in UpdateEdges(q.inserts \cup q.updates, q.create)
      \/ d \in AllEdgesTo(q.others, q.inserts \cup q.updates)
      \/ d \in AllEdgesTo({t}, q.inserts \cup q.updates)
  <2> HIDE DEF UpdateEdges
  <2> QED BY DEF TableEdges
<1> HIDE DEF q
<1> QED BY <1>1, <1>3, <1>4 DEF UpdateEdges, AllEdgesTo, Names

\* So are those that come from functions.
LEMMA FunctionDependenciesType ==
  ASSUME TypeOK PROVE FunctionDependencies \subseteq Names \X Names
<1> SUFFICES ASSUME NEW n \in Functions, NEW d \in FunctionEdges(n, function_queries[n])
             PROVE  d \in Names \X Names
  BY DEF FunctionDependencies
<1>1. function_queries[n].create \in Files \cup {None}
      /\ function_queries[n].call \subseteq Files
  BY DEF TypeOK
<1> QED BY <1>1 DEF FunctionEdges, UpdateEdges, Names

\* What a file says keeps the types of the maps.
LEMMA QueriesAfterType ==
  ASSUME TypeOK, NEW f \in Files, NEW info
  PROVE  /\ TableQueriesAfter(f, info) \in
              [Tables -> [create : Files \cup {None}, inserts : SUBSET Files,
                          updates : SUBSET Files, others : SUBSET Files]]
         /\ FunctionQueriesAfter(f, info) \in
              [Functions -> [create : Files \cup {None}, call : SUBSET Files]]
<1>1. ASSUME NEW t \in Tables
      PROVE  /\ table_queries[t].create \in Files \cup {None}
             /\ table_queries[t].inserts \subseteq Files
             /\ table_queries[t].updates \subseteq Files
             /\ table_queries[t].others \subseteq Files
  BY DEF TypeOK
<1>2. ASSUME NEW n \in Functions
      PROVE  /\ function_queries[n].create \in Files \cup {None}
             /\ function_queries[n].call \subseteq Files
  BY DEF TypeOK
<1>3. TableQueriesAfter(f, info) \in
        [Tables -> [create : Files \cup {None}, inserts : SUBSET Files,
                    updates : SUBSET Files, others : SUBSET Files]]
  BY <1>1 DEF TableQueriesAfter
<1>4. FunctionQueriesAfter(f, info) \in
        [Functions -> [create : Files \cup {None}, call : SUBSET Files]]
  BY <1>2 DEF FunctionQueriesAfter
<1> QED BY <1>3, <1>4

\* So does reading it.
LEMMA ReadFileType ==
  ASSUME TypeOK, ReadFile PROVE TypeOK'
<1>1. /\ NextFile \in Files /\ Tail(unread) \in Seq(Files)
      /\ unread' = Tail(unread) /\ vertices' = vertices \cup {NextFile}
      /\ UNCHANGED <<flags, content, phase, depends_on, table_vertices,
                     function_vertices, external_required_tables>>
      /\ table_queries' = TableQueriesAfter(NextFile, content[NextFile])
      /\ function_queries' = FunctionQueriesAfter(NextFile, content[NextFile])
  BY NextFileType DEF ReadFile, input, lists
<1> QED BY <1>1, QueriesAfterType DEF TypeOK

\* So do half of its names.
LEMMA RefuseClashType ==
  ASSUME TypeOK, RefuseClash PROVE TypeOK'
<1> DEFINE info == content[NextFile]
<1>1. /\ NextFile \in Files /\ phase' = "failed"
      /\ UNCHANGED <<flags, content, unread, vertices, depends_on, table_vertices,
                     function_vertices, external_required_tables>>
      /\ HalfEntered(NextFile, info)
  BY NextFileType DEF RefuseClash, input, lists
<1> HIDE DEF info
<1>2. table_queries' \in
       [Tables -> [create : Files \cup {None}, inserts : SUBSET Files,
                   updates : SUBSET Files, others : SUBSET Files]]
  <2>1. CASE table_queries' = TableQueriesAfter(NextFile, info)
    BY <1>1, <2>1, QueriesAfterType
  <2>2. ASSUME NEW entered,
               table_queries' = [t \in Tables |-> IF t \in entered
                                                  THEN [table_queries[t] EXCEPT !.create = NextFile]
                                                  ELSE table_queries[t]]
        PROVE  table_queries' \in
                 [Tables -> [create : Files \cup {None}, inserts : SUBSET Files,
                             updates : SUBSET Files, others : SUBSET Files]]
    BY <1>1, <2>2 DEF TypeOK
  <2> QED BY <1>1, <2>1, <2>2 DEF HalfEntered
<1>3. function_queries' \in [Functions -> [create : Files \cup {None}, call : SUBSET Files]]
  <2>1. CASE UNCHANGED function_queries
    BY <2>1 DEF TypeOK
  <2>2. ASSUME NEW entered,
               function_queries' = [n \in Functions |-> IF n \in entered
                                                        THEN [function_queries[n] EXCEPT !.create = NextFile]
                                                        ELSE function_queries[n]]
        PROVE  function_queries' \in [Functions -> [create : Files \cup {None}, call : SUBSET Files]]
    BY <1>1, <2>2 DEF TypeOK
  <2> QED BY <1>1, <2>1, <2>2 DEF HalfEntered
<1> QED BY <1>1, <1>2, <1>3 DEF TypeOK, Phases

\* Every step keeps the types.
LEMMA NextType == TypeOK /\ [Next]_vars => TypeOK'
<1> SUFFICES ASSUME TypeOK, [Next]_vars PROVE TypeOK'
  OBVIOUS
<1> USE DEF input, maps, lists
<1>1. CASE ReadFile
  BY <1>1, ReadFileType
<1>2. CASE SkipFile
  BY <1>2, NextFileType DEF SkipFile, TypeOK
<1>3. CASE RefuseFile \/ RefuseClash
  <2>1. CASE RefuseFile
    BY <2>1 DEF RefuseFile, TypeOK, Phases
  <2>2. CASE RefuseClash
    BY <2>2, RefuseClashType
  <2> QED BY <1>3, <2>1, <2>2
<1>4. CASE ResolveTables
  <2>1. /\ UNCHANGED <<flags, content, unread, table_queries, function_queries,
                       vertices, function_vertices>>
        /\ phase' = "functions" /\ depends_on' = TableDependencies
    BY <1>4 DEF ResolveTables
  <2>2. table_vertices' \subseteq Tables /\ external_required_tables' \subseteq Tables
    BY <1>4 DEF ResolveTables, KnownTables
  <2> QED BY <2>1, <2>2, TableDependenciesType DEF TypeOK, Phases
<1>5. CASE ResolveFunctions
  <2>1. /\ UNCHANGED <<flags, content, unread, table_queries, function_queries,
                       vertices, table_vertices, external_required_tables>>
        /\ phase' = "graph" /\ depends_on' = depends_on \cup FunctionDependencies
    BY <1>5 DEF ResolveFunctions
  <2>2. function_vertices' \subseteq Functions
    BY <1>5 DEF ResolveFunctions, CreatedFunctions
  <2> QED BY <2>1, <2>2, FunctionDependenciesType DEF TypeOK, Phases
<1>6. CASE BuildGraph
  BY <1>6 DEF BuildGraph, TypeOK, Phases
<1>7. CASE WriteOutputs
  BY <1>7 DEF WriteOutputs, TypeOK, Phases
<1>8. CASE CannotWrite
  BY <1>8 DEF CannotWrite, TypeOK, Phases
<1>9. CASE DetectCycle
  BY <1>9 DEF DetectCycle, TypeOK, Phases
<1>10. CASE UNCHANGED vars
  BY <1>10 DEF vars, TypeOK
<1> QED BY <1>1, <1>2, <1>3, <1>4, <1>5, <1>6, <1>7, <1>8, <1>9, <1>10
        DEF Next, Terminated
\* The variables of alphadag's main keep their types.
THEOREM TypeCorrect == Spec => []TypeOK
BY InitType, NextType, PTL DEF Spec

-----------------------------------------------------------------------------
(* The inductive invariant.                                                *)

\* Before any file is read the maps tell of none.
LEMMA InitInv == Init => Inv
<1> SUFFICES ASSUME Init PROVE Inv
  OBVIOUS
<1>1. TypeOK
  BY InitType
<1>2. TablesTellFiles
  BY DEF Init, TablesTellFiles, NoTableQueries
<1>3. FunctionsTellFiles
  BY DEF Init, FunctionsTellFiles, NoFunctionQueries
<1>4. OneCreator /\ FilesParsed
  BY DEF Init, OneCreator, FilesParsed
<1>5. ListsTellMaps
  BY DEF Init, ListsTellMaps, Resolved, Built
<1>6. ~Refused /\ phase = "read" /\ graph = NoGraph
  BY DEF Init, Refused
<1> QED BY <1>1, <1>2, <1>3, <1>4, <1>5, <1>6 DEF Inv

\* Reading a file enters exactly what it says.
LEMMA ReadFileKeepsMaps ==
  ASSUME Inv, ReadFile
  PROVE  TablesTellFiles' /\ FunctionsTellFiles' /\ OneCreator' /\ FilesParsed'
<1> DEFINE f == NextFile
           info == content[f]
<1>0. /\ TypeOK /\ TablesTellFiles /\ FunctionsTellFiles /\ OneCreator /\ FilesParsed
      /\ f \in Files /\ info # None
      /\ vertices' = vertices \cup {f} /\ UNCHANGED content
  BY NextFileType DEF Inv, Refused, ReadFile, input
<1>1. info \in FileInfo
  BY <1>0, ContentType
<1>2. None \notin Files
  BY NamesAssumption
<1>3. /\ \A t \in info.created : table_queries[t].create = None
      /\ \A n \in info.defined : function_queries[n].create = None
  BY DEF ReadFile, Exists
<1>4. ASSUME NEW t \in Tables
      PROVE  table_queries'[t] =
               [create  |-> IF Creates(f, t) THEN f ELSE table_queries[t].create,
                inserts |-> table_queries[t].inserts \cup {g \in {f} : t \in info.inserted},
                updates |-> table_queries[t].updates \cup {g \in {f} : t \in info.updated},
                others  |-> table_queries[t].others \cup
                  {g \in {f} : /\ Uses(f, t)
                               /\ (IF Creates(f, t) THEN f ELSE table_queries[t].create) # f}]
  BY DEF ReadFile, TableQueriesAfter, Creates, Uses
<1>5. ASSUME NEW n \in Functions
      PROVE  function_queries'[n] =
               [create |-> IF n \in info.defined THEN f ELSE function_queries[n].create,
                call   |-> function_queries[n].call \cup
                  {g \in {f} : /\ n \in info.undefined \cup info.called
                               /\ (IF n \in info.defined THEN f
                                   ELSE function_queries[n].create) # f}]
  BY DEF ReadFile, FunctionQueriesAfter
<1>6. TablesTellFiles'
  <2> SUFFICES ASSUME NEW t \in Tables
               PROVE  LET q == table_queries'[t]
                      IN  /\ q.create = None => \A g \in vertices' : ~Creates(g, t)
                          /\ q.create # None => q.create \in vertices' /\ Creates(q.create, t)
                          /\ q.inserts = {g \in vertices' : t \in content[g].inserted}
                          /\ q.updates = {g \in vertices' : t \in content[g].updated}
                          /\ q.others = {g \in vertices' : Uses(g, t) /\ ~Creates(g, t)}
    BY <1>0 DEF TablesTellFiles, Creates, Uses
  <2> DEFINE q == table_queries[t]
             r == table_queries'[t]
  <2>1. /\ q.create = None => \A g \in vertices : ~Creates(g, t)
        /\ q.create # None => q.create \in vertices /\ Creates(q.create, t)
        /\ q.inserts = {g \in vertices : t \in content[g].inserted}
        /\ q.updates = {g \in vertices : t \in content[g].updated}
        /\ q.others = {g \in vertices : Uses(g, t) /\ ~Creates(g, t)}
    BY <1>0 DEF TablesTellFiles
  <2>2. /\ r.create = IF Creates(f, t) THEN f ELSE q.create
        /\ r.inserts = q.inserts \cup {g \in {f} : t \in info.inserted}
        /\ r.updates = q.updates \cup {g \in {f} : t \in info.updated}
        /\ r.others = q.others \cup {g \in {f} : Uses(f, t) /\ r.create # f}
    <3> DEFINE c == IF Creates(f, t) THEN f ELSE q.create
               i == q.inserts \cup {g \in {f} : t \in info.inserted}
               u == q.updates \cup {g \in {f} : t \in info.updated}
               o == q.others \cup {g \in {f} : Uses(f, t) /\ c # f}
    <3>1. r = [create |-> c, inserts |-> i, updates |-> u, others |-> o]
      BY <1>4
    <3> HIDE DEF r, i, u, o, c
    <3>2. r.create = c /\ r.inserts = i /\ r.updates = u /\ r.others = o
      BY <3>1
    <3> QED BY <3>2 DEF i, u, o, c
  <2>3. r.create # f <=> ~Creates(f, t)
    BY <1>0, <1>2, <2>1, <2>2
  <2>4. r.create = None => \A g \in vertices' : ~Creates(g, t)
    BY <1>0, <1>2, <2>1, <2>2
  <2>5. r.create # None => r.create \in vertices' /\ Creates(r.create, t)
    BY <1>0, <2>1, <2>2
  <2>6. r.inserts = {g \in vertices' : t \in content[g].inserted}
    BY <1>0, <2>1, <2>2
  <2>7. r.updates = {g \in vertices' : t \in content[g].updated}
    BY <1>0, <2>1, <2>2
  <2>8. r.others = {g \in vertices' : Uses(g, t) /\ ~Creates(g, t)}
    BY <1>0, <2>1, <2>2, <2>3
  <2> QED BY <2>4, <2>5, <2>6, <2>7, <2>8
<1>7. FunctionsTellFiles'
  <2> SUFFICES ASSUME NEW n \in Functions
               PROVE  LET q == function_queries'[n]
                      IN  /\ q.create = None => \A g \in vertices' : n \notin content[g].defined
                          /\ q.create # None =>
                               q.create \in vertices' /\ n \in content[q.create].defined
                          /\ q.call = {g \in vertices' :
                               /\ n \in content[g].undefined \cup content[g].called
                               /\ n \notin content[g].defined}
    BY <1>0 DEF FunctionsTellFiles
  <2> DEFINE q == function_queries[n]
             r == function_queries'[n]
  <2>1. /\ q.create = None => \A g \in vertices : n \notin content[g].defined
        /\ q.create # None => q.create \in vertices /\ n \in content[q.create].defined
        /\ q.call = {g \in vertices : /\ n \in content[g].undefined \cup content[g].called
                                      /\ n \notin content[g].defined}
    BY <1>0 DEF FunctionsTellFiles
  <2>2. /\ r.create = IF n \in info.defined THEN f ELSE q.create
        /\ r.call = q.call \cup
             {g \in {f} : n \in info.undefined \cup info.called /\ r.create # f}
    <3> DEFINE c == IF n \in info.defined THEN f ELSE q.create
               l == q.call \cup
                 {g \in {f} : n \in info.undefined \cup info.called /\ c # f}
    <3>1. r = [create |-> c, call |-> l]
      BY <1>5
    <3> HIDE DEF r, l, c
    <3>2. r.create = c /\ r.call = l
      BY <3>1
    <3> QED BY <3>2 DEF l, c
  <2>3. r.create # f <=> n \notin info.defined
    BY <1>0, <1>2, <2>1, <2>2
  <2>4. r.create = None => \A g \in vertices' : n \notin content[g].defined
    BY <1>0, <1>2, <2>1, <2>2
  <2>5. r.create # None => r.create \in vertices' /\ n \in content[r.create].defined
    BY <1>0, <2>1, <2>2
  <2>6. r.call = {g \in vertices' : /\ n \in content[g].undefined \cup content[g].called
                                    /\ n \notin content[g].defined}
    BY <1>0, <2>1, <2>2, <2>3
  <2> QED BY <2>4, <2>5, <2>6
<1>8. OneCreator'
  <2>1. \A t \in Tables : Creates(f, t) => \A g \in vertices : ~Creates(g, t)
    BY <1>0, <1>3 DEF TablesTellFiles, Creates
  <2>2. \A n \in Functions :
          n \in info.defined => \A g \in vertices : n \notin content[g].defined
    BY <1>0, <1>3 DEF FunctionsTellFiles
  <2>3. ASSUME NEW g \in vertices', NEW h \in vertices'
        PROVE  /\ \A t \in Tables : Creates(g, t) /\ Creates(h, t) => g = h
               /\ \A n \in Functions :
                    n \in content[g].defined /\ n \in content[h].defined => g = h
    BY <1>0, <2>1, <2>2 DEF OneCreator
  <2> QED BY <1>0, <2>3 DEF OneCreator, Creates
<1>9. FilesParsed'
  BY <1>0 DEF FilesParsed
<1> QED BY <1>6, <1>7, <1>8, <1>9

\* Steps that leave the maps alone leave alone what the lists are made from.
LEMMA MapsUnchanged ==
  ASSUME Inv, UNCHANGED <<flags, content, table_queries, function_queries, vertices>>
  PROVE  /\ ~Refused => TablesTellFiles' /\ FunctionsTellFiles'
         /\ OneCreator' /\ FilesParsed'
         /\ TableDependencies' = TableDependencies
         /\ FunctionDependencies' = FunctionDependencies
         /\ KnownTables' = KnownTables
         /\ CreatedFunctions' = CreatedFunctions
<1>1. OneCreator' /\ FilesParsed'
  BY DEF Inv, OneCreator, FilesParsed, Creates
<1>2. KnownTables' = KnownTables /\ CreatedFunctions' = CreatedFunctions
  BY DEF KnownTables, CreatedFunctions
<1>3. \A t \in Tables : TableEdges(t, table_queries[t])' = TableEdges(t, table_queries[t])
  BY DEF TableEdges, WithoutSelfReference
<1>4. \A n \in Functions :
        FunctionEdges(n, function_queries[n])' = FunctionEdges(n, function_queries[n])
  BY DEF FunctionEdges
<1>5. TableDependencies' = TableDependencies
  BY <1>2, <1>3 DEF TableDependencies, KnownTables
<1>6. FunctionDependencies' = FunctionDependencies
  BY <1>4 DEF FunctionDependencies
<1>7. ~Refused => TablesTellFiles' /\ FunctionsTellFiles'
  BY DEF Inv, TablesTellFiles, FunctionsTellFiles, Creates, Uses
<1> QED BY <1>1, <1>2, <1>5, <1>6, <1>7

\* Every step keeps the invariant: one case for each action.
LEMMA NextInv == Inv /\ [Next]_vars => Inv'
<1> SUFFICES ASSUME Inv, [Next]_vars PROVE Inv'
  OBVIOUS
<1>0. /\ TypeOK' /\ ListsTellMaps
      /\ phase = "read" => graph = NoGraph /\ depends_on = {}
      /\ phase \notin {"read", "failed"} => unread = << >>
  BY NextType DEF Inv, ListsTellMaps
<1> USE DEF input, maps, lists
<1>1. CASE ReadFile
  <2>1. phase' = "read" /\ depends_on' = {} /\ graph' = NoGraph /\ ~Refused'
    BY <1>0, <1>1 DEF ReadFile, Refused
  <2>2. ListsTellMaps'
    BY <2>1 DEF ListsTellMaps, Resolved, Built
  <2> QED BY <1>0, <1>1, <2>1, <2>2, ReadFileKeepsMaps DEF Inv
<1>2. CASE SkipFile \/ RefuseFile
  <2>1. /\ UNCHANGED <<flags, content, maps, lists, graph>> /\ ~Refused
        /\ phase = "read" /\ phase' \in {"read", "failed"}
    BY <1>2 DEF SkipFile, RefuseFile, Refused
  <2>2. ListsTellMaps'
    BY <1>0, <2>1 DEF ListsTellMaps, Resolved, Built
  <2> QED BY <1>0, <2>1, <2>2, MapsUnchanged DEF Inv
<1>3. CASE RefuseClash
  <2>1. /\ UNCHANGED <<flags, content, unread, vertices, lists, graph>>
        /\ phase = "read" /\ phase' = "failed" /\ unread # << >>
    BY <1>3 DEF RefuseClash
  <2>2. ListsTellMaps'
    BY <1>0, <2>1 DEF ListsTellMaps, Resolved, Built
  <2>3. OneCreator' /\ FilesParsed'
    BY <2>1 DEF Inv, OneCreator, FilesParsed, Creates
  <2>4. Refused'
    BY <2>1 DEF Refused
  <2> QED BY <1>0, <2>1, <2>2, <2>3, <2>4 DEF Inv
<1>4. CASE ResolveTables
  <2>1. /\ UNCHANGED <<flags, content, unread, maps, graph>> /\ unread = << >> /\ ~Refused
        /\ phase' = "functions" /\ depends_on' = TableDependencies
        /\ table_vertices' = IF flags.with_tables THEN KnownTables ELSE {}
        /\ external_required_tables' = {t \in KnownTables : table_queries[t].create = None}
    BY <1>4 DEF ResolveTables, Refused
  <2>2. ListsTellMaps'
    BY <2>1, MapsUnchanged DEF ListsTellMaps, Resolved, Built
  <2>3. ~Refused'
    BY <2>1 DEF Refused
  <2> QED BY <1>0, <2>1, <2>2, <2>3, MapsUnchanged DEF Inv
<1>5. CASE ResolveFunctions
  <2>1. /\ UNCHANGED <<flags, content, unread, maps, table_vertices, external_required_tables>>
        /\ phase = "functions" /\ phase' = "graph" /\ ~Refused
        /\ depends_on' = depends_on \cup FunctionDependencies
        /\ function_vertices' = IF flags.with_functions THEN CreatedFunctions ELSE {}
    BY <1>5 DEF ResolveFunctions, Refused
  <2>2. ListsTellMaps'
    BY <1>0, <2>1, MapsUnchanged DEF ListsTellMaps, Resolved, Built
  <2>3. ~Refused'
    BY <2>1 DEF Refused
  <2> QED BY <1>0, <2>1, <2>2, <2>3, MapsUnchanged DEF Inv
<1>6. CASE BuildGraph
  <2>1. /\ UNCHANGED <<flags, content, unread, maps, lists>>
        /\ phase = "graph" /\ phase' = "write" /\ ~Refused
        /\ graph' = [vertex |-> GraphVertices, edge |-> GraphEdges]
    BY <1>6 DEF BuildGraph, Refused
  <2>2. GraphVertices' = GraphVertices /\ GraphEdges' = GraphEdges
    BY <2>1 DEF GraphVertices, GraphEdges, IndexOf
  <2>3. ListsTellMaps'
    BY <1>0, <2>1, <2>2, MapsUnchanged DEF ListsTellMaps, Resolved, Built
  <2>4. ~Refused'
    BY <2>1 DEF Refused
  <2> QED BY <1>0, <2>1, <2>3, <2>4, MapsUnchanged DEF Inv
<1>7. CASE WriteOutputs \/ CannotWrite \/ DetectCycle \/ UNCHANGED vars
  <2>1. /\ UNCHANGED <<flags, content, unread, maps, lists, graph>>
        /\ \/ phase' = phase
           \/ phase \in {"write", "check"} /\ phase' \in {"check", "failed", "succeeded"}
    BY <1>7 DEF WriteOutputs, CannotWrite, DetectCycle, vars
  <2>2. GraphVertices' = GraphVertices /\ GraphEdges' = GraphEdges
    BY <2>1 DEF GraphVertices, GraphEdges, IndexOf
  <2>3. ListsTellMaps'
    BY <1>0, <2>1, <2>2, MapsUnchanged DEF ListsTellMaps, Resolved, Built
  <2>4. Refused' <=> Refused
    BY <1>0, <2>1 DEF Refused
  <2>5. /\ Refused => depends_on = {} /\ graph = NoGraph
        /\ ~Refused => TablesTellFiles /\ FunctionsTellFiles
    BY DEF Inv
  <2>6. /\ phase' = "read" => graph' = NoGraph
        /\ phase' \notin {"read", "failed"} => unread' = << >>
    BY <1>0, <2>1
  <2> QED BY <1>0, <2>1, <2>3, <2>4, <2>5, <2>6, MapsUnchanged DEF Inv
<1> QED BY <1>1, <1>2, <1>3, <1>4, <1>5, <1>6, <1>7 DEF Next, Terminated

\* The maps and lists of alphadag tell what the files say, in every state.
THEOREM Invariance == Spec => []Inv
BY InitInv, NextInv, PTL DEF Spec

-----------------------------------------------------------------------------
(* What follows from it.                                                   *)

\* The names that become vertices.
VertexNames ==
  vertices \cup (IF flags.with_tables THEN KnownTables ELSE {})
    \cup (IF flags.with_functions THEN CreatedFunctions ELSE {})

\* A dependency that comes from a table is between two different names that
\* become vertices.
LEMMA TableDependenciesAre ==
  ASSUME Inv, ~Refused, NEW d \in TableDependencies
  PROVE  d[1] \in VertexNames /\ d[2] \in VertexNames /\ d[1] # d[2]
<1>1. PICK t \in KnownTables : d \in TableEdges(t, table_queries[t])
  BY DEF TableDependencies
<1>2. t \in Tables /\ None \notin Files /\ t \notin Files /\ vertices \subseteq Files
  BY NamesAssumption DEF KnownTables, Inv, TypeOK
<1> DEFINE p == table_queries[t]
           q == IF flags.side_effect_first THEN WithoutSelfReference(p) ELSE p
           c == p.create
           changes == q.inserts \cup q.updates
<1>3. /\ c = None \/ c \in vertices
      /\ p.inserts \subseteq vertices /\ p.updates \subseteq vertices
      /\ p.others \subseteq vertices /\ c \notin p.others
  BY <1>2 DEF Inv, TablesTellFiles
<1>4. p \in [create : Files \cup {None}, inserts : SUBSET Files,
             updates : SUBSET Files, others : SUBSET Files]
  BY <1>2 DEF Inv, TypeOK
<1>5. /\ q.create = c /\ q.others \subseteq vertices /\ c \notin q.others
      /\ changes \subseteq vertices
      /\ flags.side_effect_first =>
           q.others \cap changes = {} /\ c \notin changes
  BY <1>3, <1>4 DEF WithoutSelfReference
<1> HIDE DEF p, q, c
<1>6. \/ flags.with_tables /\ d \in UpdateEdges(q.others, t)
      \/ flags.with_tables /\ d \in UpdateEdges({t}, q.create)
      \/ d \in UpdateEdges(q.others, q.create)
      \/ flags.side_effect_first /\ d \in UpdateEdges(changes, q.create)
      \/ flags.side_effect_first /\ d \in AllEdgesTo(q.others, changes)
      \/ flags.with_tables /\ d \in AllEdgesTo({t}, changes)
  <2> HIDE DEF UpdateEdges
  <2> QED BY <1>1 DEF TableEdges, p, q
<1>7. flags.with_tables => t \in VertexNames
  BY <1>1 DEF VertexNames
<1>8. vertices \subseteq VertexNames
  BY DEF VertexNames
<1>9. c = None \/ c \in VertexNames
  BY <1>3, <1>8
<1> HIDE DEF changes
<1> QED BY <1>2, <1>3, <1>5, <1>6, <1>7, <1>8, <1>9 DEF UpdateEdges, AllEdgesTo

\* So is one that comes from a function.
LEMMA FunctionDependenciesAre ==
  ASSUME Inv, ~Refused, NEW d \in FunctionDependencies
  PROVE  d[1] \in VertexNames /\ d[2] \in VertexNames /\ d[1] # d[2]
<1>1. PICK n \in Functions : d \in FunctionEdges(n, function_queries[n])
  BY DEF FunctionDependencies
<1>2. None \notin Files /\ n \notin Files /\ vertices \subseteq Files
  BY NamesAssumption DEF Inv, TypeOK
<1> DEFINE q == function_queries[n]
<1>3. /\ q.create = None \/ q.create \in vertices
      /\ q.call \subseteq vertices /\ q.create \notin q.call
  BY <1>2 DEF Inv, FunctionsTellFiles
<1>4. flags.with_functions /\ q.create # None => n \in VertexNames
  BY DEF VertexNames, CreatedFunctions
<1>5. vertices \subseteq VertexNames
  BY DEF VertexNames
<1> HIDE DEF q
<1>6. d \in IF flags.with_functions /\ q.create # None
            THEN UpdateEdges(q.call, n) \cup UpdateEdges({n}, q.create)
            ELSE UpdateEdges(q.call, q.create)
  BY <1>1 DEF FunctionEdges, q
<1> QED BY <1>2, <1>3, <1>4, <1>5, <1>6 DEF UpdateEdges

\* No query, table or function depends on itself, in no setting of the flags.
THEOREM NoSelfReference == Spec => []NoSelfDependency
<1>1. Inv => NoSelfDependency
  <2> SUFFICES ASSUME Inv, NEW d \in depends_on PROVE d[1] # d[2]
    BY DEF NoSelfDependency
  <2>1. ~Refused /\ (d \in TableDependencies \/ d \in FunctionDependencies)
    BY DEF Inv, ListsTellMaps
  <2> QED BY <2>1, TableDependenciesAre, FunctionDependenciesAre
<1> QED BY <1>1, Invariance, PTL

\* The graph is that of the maps, which it is from BuildGraph on.
Whole ==
  /\ ~Refused
  /\ depends_on = TableDependencies \cup FunctionDependencies
  /\ table_vertices = IF flags.with_tables THEN KnownTables ELSE {}
  /\ function_vertices = IF flags.with_functions THEN CreatedFunctions ELSE {}
  /\ graph = [vertex |-> GraphVertices, edge |-> GraphEdges]

\* Once built, the graph stays whole to the end of main.
LEMMA BuiltIsWhole ==
  ASSUME Inv, Built PROVE Whole
BY DEF Inv, ListsTellMaps, Built, Resolved, Refused, Whole

\* Every end of an edge is a vertex.
LEMMA EdgesOfVertices ==
  ASSUME Inv, Whole PROVE graph.edge \subseteq graph.vertex \X graph.vertex
<1>1. /\ ~Refused /\ depends_on = TableDependencies \cup FunctionDependencies
      /\ VertexNames = vertices \cup table_vertices \cup function_vertices
      /\ graph.vertex = GraphVertices /\ graph.edge = GraphEdges
  BY DEF Whole, VertexNames
<1>2. \A name \in VertexNames : IndexOf(name) \in GraphVertices
  BY <1>1 DEF IndexOf, GraphVertices
<1>3. \A d \in depends_on : d[1] \in VertexNames /\ d[2] \in VertexNames
  BY <1>1, TableDependenciesAre, FunctionDependenciesAre
<1> QED BY <1>1, <1>2, <1>3 DEF GraphEdges

\* The descriptor 0 that indexes[] would make up is in no edge.
THEOREM EdgesJoinVertices == Spec => []EndpointsAreVertices
<1>1. Inv => EndpointsAreVertices
  BY EdgesOfVertices, BuiltIsWhole DEF EndpointsAreVertices
<1> QED BY <1>1, Invariance, PTL

\* The list of external tables is exact, in whatever order the files are read.
THEOREM ExternalTables == Spec => []ExternalTablesAreExact
<1>1. Inv => ExternalTablesAreExact
  <2> SUFFICES ASSUME Inv, Built, NEW t \in Tables
               PROVE  t \in external_required_tables <=>
                        /\ \E f \in vertices : Uses(f, t) \/ Changes(f, t)
                        /\ \A f \in vertices : ~Creates(f, t)
    BY DEF ExternalTablesAreExact, Inv, TypeOK
  <2>0. ~Refused
    BY DEF Built, Refused
  <2>1. external_required_tables = {s \in KnownTables : table_queries[s].create = None}
    BY DEF Inv, ListsTellMaps, Built, Resolved
  <2> DEFINE q == table_queries[t]
  <2>2. /\ q.create = None => \A f \in vertices : ~Creates(f, t)
        /\ q.create # None => q.create \in vertices /\ Creates(q.create, t)
        /\ q.inserts = {f \in vertices : t \in content[f].inserted}
        /\ q.updates = {f \in vertices : t \in content[f].updated}
        /\ q.others  = {f \in vertices : Uses(f, t) /\ ~Creates(f, t)}
    BY <2>0 DEF Inv, TablesTellFiles
  <2>3. q \in [create : Files \cup {None}, inserts : SUBSET Files,
               updates : SUBSET Files, others : SUBSET Files]
    BY DEF Inv, TypeOK
  <2>4. q = NoTableQueries <=>
          q.create = None /\ q.inserts = {} /\ q.updates = {} /\ q.others = {}
    <3> HIDE DEF q
    <3> QED BY <2>3 DEF NoTableQueries
  <2>5. t \in KnownTables <=> q # NoTableQueries
    BY DEF KnownTables
  <2>6. t \in external_required_tables <=> q # NoTableQueries /\ q.create = None
    BY <2>1, <2>5
  <2> HIDE DEF q
  <2> QED BY <2>2, <2>4, <2>6 DEF Changes
<1> QED BY <1>1, Invariance, PTL

-----------------------------------------------------------------------------
(* The order of the queries, in all four ways to build the edges.          *)

\* Whom the readers of a table wait for, and who its readers are.
Feeds(h, t) == Creates(h, t) \/ (flags.side_effect_first /\ Changes(h, t))
Reads(k, t) ==
  Uses(k, t) /\ ~Creates(k, t) /\ (flags.side_effect_first => ~Changes(k, t))

Defines(h, n) == n \in content[h].defined
Calls(k, n)   == n \in content[k].undefined \cup content[k].called /\ ~Defines(k, n)

\* What an edge of a table says, by the flags.
TableEdgeSays(t, d) ==
  \/ flags.with_tables /\ \E k \in vertices : Reads(k, t) /\ d = <<k, t>>
  \/ flags.with_tables /\ \E h \in vertices : Feeds(h, t) /\ d = <<t, h>>
  \/ ~flags.with_tables /\ \E h, k \in vertices : Feeds(h, t) /\ Reads(k, t) /\ d = <<k, h>>
  \/ /\ flags.side_effect_first
     /\ \E h, k \in vertices : Creates(h, t) /\ Changes(k, t) /\ h # k /\ d = <<k, h>>

\* The four ways to build the edges of a table say the same of the files.
LEMMA TableEdgesAre ==
  ASSUME Inv, ~Refused, NEW t \in Tables, NEW d
  PROVE  d \in TableEdges(t, table_queries[t]) <=> TableEdgeSays(t, d)
<1> DEFINE p == table_queries[t]
           s == WithoutSelfReference(p)
           c == p.create
<1>1. None \notin Files /\ vertices \subseteq Files /\ t # None
  BY NamesAssumption DEF Inv, TypeOK
<1>2. /\ c = None => \A f \in vertices : ~Creates(f, t)
      /\ c # None => c \in vertices /\ Creates(c, t)
      /\ p.inserts = {f \in vertices : t \in content[f].inserted}
      /\ p.updates = {f \in vertices : t \in content[f].updated}
      /\ p.others  = {f \in vertices : Uses(f, t) /\ ~Creates(f, t)}
  BY DEF Inv, TablesTellFiles
<1>3. \A f \in vertices : Creates(f, t) <=> f = c
  BY <1>1, <1>2 DEF Inv, OneCreator
<1>4. p \in [create : Files \cup {None}, inserts : SUBSET Files,
             updates : SUBSET Files, others : SUBSET Files]
  BY DEF Inv, TypeOK
<1>5. /\ s.create = c
      /\ s.inserts = p.inserts \ {c}
      /\ s.updates = p.updates \ {c}
      /\ s.others = p.others \ (p.inserts \cup p.updates)
  <2> HIDE DEF p
  <2> QED BY <1>4 DEF WithoutSelfReference
<1> DEFINE changes == {f \in vertices : Changes(f, t) /\ f # c}
<1>6. /\ s.inserts \cup s.updates = changes
      /\ s.others = {f \in p.others : ~Changes(f, t)}
  BY <1>2, <1>5 DEF Changes
<1> HIDE DEF s, p, changes
<1>7. CASE ~flags.side_effect_first
  <2>1. d \in TableEdges(t, p) <=>
          \/ flags.with_tables /\ \E k \in p.others : d = <<k, t>>
          \/ flags.with_tables /\ c # None /\ d = <<t, c>>
          \/ ~flags.with_tables /\ c # None /\ \E k \in p.others : d = <<k, c>>
    BY <1>1, <1>7 DEF TableEdges, UpdateEdges
  <2>2. \A f \in vertices : Feeds(f, t) <=> c # None /\ f = c
    BY <1>1, <1>3, <1>7 DEF Feeds
  <2>3. \A f : f \in p.others <=> f \in vertices /\ Reads(f, t)
    BY <1>2, <1>7 DEF Reads
  <2>4. c # None => c \in vertices
    BY <1>2
  <2> QED BY <1>7, <2>1, <2>2, <2>3, <2>4 DEF TableEdgeSays, p
<1>8. CASE flags.side_effect_first
  <2>1. d \in TableEdges(t, p) <=>
          \/ flags.with_tables /\ \E k \in s.others : d = <<k, t>>
          \/ flags.with_tables /\ c # None /\ d = <<t, c>>
          \/ flags.with_tables /\ \E h \in changes : d = <<t, h>>
          \/ ~flags.with_tables /\ c # None /\ \E k \in s.others : d = <<k, c>>
          \/ ~flags.with_tables /\ \E h \in changes, k \in s.others : d = <<k, h>>
          \/ c # None /\ \E k \in changes : d = <<k, c>>
    <3>1. \A h \in changes : h # None
      BY <1>1 DEF changes
    <3>2. CASE flags.with_tables
      <4>1. TableEdges(t, p) =
              UpdateEdges(s.others, t) \cup UpdateEdges(changes, c)
                \cup AllEdgesTo({t}, changes) \cup UpdateEdges({t}, c)
        BY <1>8, <1>5, <1>6, <3>2 DEF TableEdges, s
      <4> QED BY <1>1, <3>1, <3>2, <4>1 DEF UpdateEdges, AllEdgesTo
    <3>3. CASE ~flags.with_tables
      <4>1. TableEdges(t, p) =
              AllEdgesTo(s.others, changes) \cup UpdateEdges(changes, c)
                \cup UpdateEdges(s.others, c)
        BY <1>8, <1>5, <1>6, <3>3 DEF TableEdges, s
      <4> QED BY <1>1, <3>1, <3>3, <4>1 DEF UpdateEdges, AllEdgesTo
    <3> QED BY <3>2, <3>3
  <2>2. \A f \in vertices : Feeds(f, t) <=> ((c # None /\ f = c) \/ f \in changes)
    BY <1>1, <1>3, <1>8 DEF Feeds, changes
  <2>3. \A f : f \in s.others <=> f \in vertices /\ Reads(f, t)
    BY <1>2, <1>6, <1>8 DEF Reads
  <2>4. /\ c # None => c \in vertices
        /\ changes \subseteq vertices
    BY <1>2 DEF changes
  <2>5. (c # None /\ \E k \in changes : d = <<k, c>>) <=>
          \E h, k \in vertices : Creates(h, t) /\ Changes(k, t) /\ h # k /\ d = <<k, h>>
    BY <1>1, <1>3, <2>4 DEF changes
  <2>6. (\/ flags.with_tables /\ c # None /\ d = <<t, c>>
         \/ flags.with_tables /\ \E h \in changes : d = <<t, h>>) <=>
          flags.with_tables /\ \E h \in vertices : Feeds(h, t) /\ d = <<t, h>>
    BY <2>2, <2>4
  <2>7. (\/ ~flags.with_tables /\ c # None /\ \E k \in s.others : d = <<k, c>>
         \/ ~flags.with_tables /\ \E h \in changes, k \in s.others : d = <<k, h>>) <=>
          /\ ~flags.with_tables
          /\ \E h, k \in vertices : Feeds(h, t) /\ Reads(k, t) /\ d = <<k, h>>
    BY <2>2, <2>3, <2>4
  <2>8. (\E k \in s.others : d = <<k, t>>) <=> \E k \in vertices : Reads(k, t) /\ d = <<k, t>>
    BY <2>3
  <2> QED BY <1>8, <2>1, <2>5, <2>6, <2>7, <2>8 DEF TableEdgeSays, p
<1> QED BY <1>7, <1>8

\* A table without an entry has no edge.
LEMMA EdgesAreOfKnownTables ==
  ASSUME Inv, ~Refused, NEW t \in Tables, NEW d, TableEdgeSays(t, d)
  PROVE  t \in KnownTables
<1>1. \E f \in vertices : Uses(f, t) \/ Creates(f, t) \/ Changes(f, t)
  BY DEF TableEdgeSays, Feeds, Reads
<1>2. LET q == table_queries[t]
      IN  /\ q.create = None => \A f \in vertices : ~Creates(f, t)
          /\ q.inserts = {f \in vertices : t \in content[f].inserted}
          /\ q.updates = {f \in vertices : t \in content[f].updated}
          /\ q.others  = {f \in vertices : Uses(f, t) /\ ~Creates(f, t)}
  BY DEF Inv, TablesTellFiles
<1>3. table_queries[t] # NoTableQueries
  <2> SUFFICES ASSUME table_queries[t] = NoTableQueries PROVE FALSE
    OBVIOUS
  <2>1. LET q == table_queries[t]
        IN  q.create = None /\ q.inserts = {} /\ q.updates = {} /\ q.others = {}
    BY DEF NoTableQueries
  <2> QED BY <1>1, <1>2, <2>1 DEF Changes
<1> QED BY <1>3 DEF KnownTables

\* The edges of all tables.
LEMMA TableDependenciesSay ==
  ASSUME Inv, ~Refused, NEW d
  PROVE  d \in TableDependencies <=> \E t \in Tables : TableEdgeSays(t, d)
<1>1. d \in TableDependencies <=> \E t \in KnownTables : d \in TableEdges(t, table_queries[t])
  BY DEF TableDependencies
<1>2. \A t \in Tables : d \in TableEdges(t, table_queries[t]) <=> TableEdgeSays(t, d)
  BY TableEdgesAre
<1>3. KnownTables \subseteq Tables
  BY DEF KnownTables
<1> QED BY <1>1, <1>2, <1>3, EdgesAreOfKnownTables

\* What an edge of a function says.
FunctionEdgeSays(n, d) ==
  \/ /\ flags.with_functions
     /\ \E h, k \in vertices : Defines(h, n) /\ Calls(k, n) /\ d = <<k, n>>
  \/ flags.with_functions /\ \E h \in vertices : Defines(h, n) /\ d = <<n, h>>
  \/ /\ ~flags.with_functions
     /\ \E h, k \in vertices : Defines(h, n) /\ Calls(k, n) /\ d = <<k, h>>

\* The two ways to build the edges of a function say the same.
LEMMA FunctionDependenciesSay ==
  ASSUME Inv, ~Refused, NEW d
  PROVE  d \in FunctionDependencies <=> \E n \in Functions : FunctionEdgeSays(n, d)
<1>1. ASSUME NEW n \in Functions
      PROVE  d \in FunctionEdges(n, function_queries[n]) <=> FunctionEdgeSays(n, d)
  <2> DEFINE q == function_queries[n]
             c == q.create
  <2>1. None \notin Files /\ vertices \subseteq Files /\ n # None
    BY NamesAssumption DEF Inv, TypeOK
  <2>2. /\ c = None => \A f \in vertices : ~Defines(f, n)
        /\ c # None => c \in vertices /\ Defines(c, n)
        /\ q.call = {f \in vertices : Calls(f, n)}
    BY DEF Inv, FunctionsTellFiles, Defines, Calls
  <2>3. \A f \in vertices : Defines(f, n) <=> c # None /\ f = c
    BY <2>1, <2>2 DEF Inv, OneCreator, Defines
  <2> HIDE DEF q
  <2>4. d \in FunctionEdges(n, q) <=>
          \/ flags.with_functions /\ c # None /\ \E k \in q.call : d = <<k, n>>
          \/ flags.with_functions /\ c # None /\ d = <<n, c>>
          \/ ~flags.with_functions /\ c # None /\ \E k \in q.call : d = <<k, c>>
    BY <2>1 DEF FunctionEdges, UpdateEdges
  <2> QED BY <2>2, <2>3, <2>4 DEF FunctionEdgeSays, q
<1> QED BY <1>1 DEF FunctionDependencies


\* Vertices of the graph.
Query(f)    == <<"query", f>>
Table(t)    == <<"table", t>>
Function(n) == <<"function", n>>

\* A query is found under its path: no table and no function has that name.
LEMMA QueryIndex ==
  ASSUME Inv, NEW f \in vertices PROVE IndexOf(f) = Query(f)
<1>1. f \notin table_vertices /\ f \notin function_vertices
  BY NamesAssumption DEF Inv, TypeOK
<1> QED BY <1>1 DEF IndexOf, Query

\* A path of one edge, and one of two.
LEMMA ReachesDirectly ==
  ASSUME NEW V, NEW E, NEW u, NEW v, <<u, v>> \in E
  PROVE  Reaches(V, E, u, v)
BY DEF Reaches, Successors

\* Two edges make a path.
LEMMA ReachesThrough ==
  ASSUME NEW V, NEW E, NEW u, NEW v, NEW w, <<u, w>> \in E, <<w, v>> \in E
  PROVE  Reaches(V, E, u, v)
<1> SUFFICES ASSUME NEW S \in SUBSET V, Closed(E, S), Successors(E, u) \subseteq S
             PROVE  v \in S
  BY DEF Reaches
<1>1. w \in S
  BY DEF Successors
<1> QED BY <1>1 DEF Closed

\* What one file must wait for, the graph puts before it: one edge away, or two
\* where the graph shows the table or the function in between.
LEMMA FilesAreOrdered ==
  ASSUME Inv, Whole, NEW f \in vertices, NEW g \in vertices, MustPrecede(g, f)
  PROVE  Reaches(graph.vertex, graph.edge, Query(g), Query(f))
<1>1. \A d \in depends_on : <<IndexOf(d[2]), IndexOf(d[1])>> \in graph.edge
  BY DEF Whole, GraphEdges
<1>2. \A x, y : <<x, y>> \in depends_on => <<IndexOf(y), IndexOf(x)>> \in graph.edge
  BY <1>1
<1>3. IndexOf(f) = Query(f) /\ IndexOf(g) = Query(g)
  BY QueryIndex
<1>4. \A d : (\E t \in Tables : TableEdgeSays(t, d)) => d \in depends_on
  BY TableDependenciesSay DEF Whole
<1>5. \A d : (\E n \in Functions : FunctionEdgeSays(n, d)) => d \in depends_on
  BY FunctionDependenciesSay DEF Whole
<1> DEFINE Direct == <<f, g>> \in depends_on
           Through(x) == <<f, x>> \in depends_on /\ <<x, g>> \in depends_on
<1>6. ASSUME NEW t \in Tables, Feeds(g, t), Reads(f, t) PROVE Direct \/ Through(t)
  <2>1. CASE flags.with_tables
    <3>1. TableEdgeSays(t, <<f, t>>) /\ TableEdgeSays(t, <<t, g>>)
      BY <1>6, <2>1 DEF TableEdgeSays
    <3> QED BY <3>1, <1>4
  <2>2. CASE ~flags.with_tables
    <3>1. TableEdgeSays(t, <<f, g>>)
      BY <1>6, <2>2 DEF TableEdgeSays
    <3> QED BY <3>1, <1>4
  <2> QED BY <2>1, <2>2
<1>7. ASSUME NEW t \in Tables, flags.side_effect_first, Creates(g, t), Changes(f, t) PROVE Direct
  <2>1. TableEdgeSays(t, <<f, g>>)
    BY <1>7 DEF TableEdgeSays, MustPrecede
  <2> QED BY <2>1, <1>4
<1>8. ASSUME NEW n \in Functions, Defines(g, n), Calls(f, n) PROVE Direct \/ Through(n)
  <2>1. CASE flags.with_functions
    <3>1. FunctionEdgeSays(n, <<f, n>>) /\ FunctionEdgeSays(n, <<n, g>>)
      BY <1>8, <2>1 DEF FunctionEdgeSays
    <3> QED BY <3>1, <1>5
  <2>2. CASE ~flags.with_functions
    <3>1. FunctionEdgeSays(n, <<f, g>>)
      BY <1>8, <2>2 DEF FunctionEdgeSays
    <3> QED BY <3>1, <1>5
  <2> QED BY <2>1, <2>2
<1>9. /\ \A t \in Tables : Creates(g, t) => ~Creates(f, t)
      /\ \A n \in Functions : Defines(g, n) => ~Defines(f, n)
  BY DEF Inv, OneCreator, MustPrecede, Defines
<1>10. \/ \E t \in Tables : Feeds(g, t) /\ Reads(f, t)
       \/ \E t \in Tables : flags.side_effect_first /\ Creates(g, t) /\ Changes(f, t)
       \/ \E n \in Functions : Defines(g, n) /\ Calls(f, n)
  BY <1>9 DEF MustPrecede, Feeds, Reads, Defines, Calls
<1>11. Direct \/ \E x : Through(x)
  BY <1>6, <1>7, <1>8, <1>10
<1>12. CASE Direct
  <2>1. <<Query(g), Query(f)>> \in graph.edge
    BY <1>2, <1>3, <1>12
  <2> QED BY <2>1, ReachesDirectly
<1>13. ASSUME NEW x, Through(x)
       PROVE  Reaches(graph.vertex, graph.edge, Query(g), Query(f))
  <2>1. <<Query(g), IndexOf(x)>> \in graph.edge /\ <<IndexOf(x), Query(f)>> \in graph.edge
    BY <1>2, <1>3, <1>13
  <2> QED BY <2>1, ReachesThrough
<1> QED BY <1>11, <1>12, <1>13

\* If no table has the name of a function, each edge of the graph is one of
\* these, and says what the files say.
EdgeSays(e) ==
  \/ \E h, k \in vertices : MustPrecede(h, k) /\ e = <<Query(h), Query(k)>>
  \/ \E h \in vertices, t \in Tables : Feeds(h, t) /\ e = <<Query(h), Table(t)>>
  \/ \E k \in vertices, t \in Tables : Reads(k, t) /\ e = <<Table(t), Query(k)>>
  \/ \E h \in vertices, n \in Functions : Defines(h, n) /\ e = <<Query(h), Function(n)>>
  \/ \E k \in vertices, n \in Functions : Calls(k, n) /\ e = <<Function(n), Query(k)>>

\* Those between whom a table or a function stands are ordered by the files.
LEMMA FeedersPrecedeReaders ==
  ASSUME NEW h, NEW k
  PROVE  /\ \A t \in Tables : Feeds(h, t) /\ Reads(k, t) => MustPrecede(h, k)
         /\ \A n \in Functions : Defines(h, n) /\ Calls(k, n) => MustPrecede(h, k)
BY DEF Feeds, Reads, Defines, Calls, MustPrecede

\* Each edge of the whole graph has one of the meanings above.
LEMMA EdgesSay ==
  ASSUME Tables \cap Functions = {}, Inv, Whole, NEW e \in graph.edge
  PROVE  EdgeSays(e)
<1>0. ~Refused
  BY DEF Whole
<1>1. PICK d \in depends_on : e = <<IndexOf(d[2]), IndexOf(d[1])>>
  BY DEF Whole, GraphEdges
<1>2. \A f \in vertices : IndexOf(f) = Query(f)
  BY QueryIndex
<1>3. CASE d \in TableDependencies
  <2>1. PICK t \in Tables : TableEdgeSays(t, d)
    BY <1>0, <1>3, TableDependenciesSay
  <2>2. flags.with_tables => IndexOf(t) = Table(t)
    <3>1. t \in KnownTables
      BY <1>0, <2>1, EdgesAreOfKnownTables
    <3>2. t \notin function_vertices
      BY DEF Inv, TypeOK
    <3> QED BY <3>1, <3>2 DEF Whole, IndexOf, Table
  <2>3. CASE flags.with_tables /\ \E k \in vertices : Reads(k, t) /\ d = <<k, t>>
    BY <1>1, <1>2, <2>2, <2>3 DEF EdgeSays
  <2>4. CASE flags.with_tables /\ \E h \in vertices : Feeds(h, t) /\ d = <<t, h>>
    BY <1>1, <1>2, <2>2, <2>4 DEF EdgeSays
  <2>5. CASE \E h, k \in vertices : Feeds(h, t) /\ Reads(k, t) /\ d = <<k, h>>
    <3>1. PICK h \in vertices, k \in vertices : Feeds(h, t) /\ Reads(k, t) /\ d = <<k, h>>
      BY <2>5
    <3>2. MustPrecede(h, k) /\ e = <<Query(h), Query(k)>>
      BY <1>1, <1>2, <3>1, FeedersPrecedeReaders
    <3> QED BY <3>2 DEF EdgeSays
  <2>6. CASE /\ flags.side_effect_first
             /\ \E h, k \in vertices : Creates(h, t) /\ Changes(k, t) /\ h # k /\ d = <<k, h>>
    <3>1. PICK h \in vertices, k \in vertices :
                 Creates(h, t) /\ Changes(k, t) /\ h # k /\ d = <<k, h>>
      BY <2>6
    <3>2. MustPrecede(h, k) /\ e = <<Query(h), Query(k)>>
      BY <1>1, <1>2, <2>6, <3>1 DEF MustPrecede
    <3> QED BY <3>2 DEF EdgeSays
  <2> QED BY <2>1, <2>3, <2>4, <2>5, <2>6 DEF TableEdgeSays
<1>4. CASE d \in FunctionDependencies
  <2>1. PICK n \in Functions : FunctionEdgeSays(n, d)
    BY <1>0, <1>4, FunctionDependenciesSay
  <2>2. ASSUME flags.with_functions, NEW h \in vertices, Defines(h, n)
        PROVE  IndexOf(n) = Function(n)
    <3>1. n \in function_vertices
      BY <2>2 DEF Inv, FunctionsTellFiles, Whole, CreatedFunctions, Defines
    <3> QED BY <3>1 DEF IndexOf, Function
  <2>3. CASE flags.with_functions /\ \E h, k \in vertices : Defines(h, n) /\ Calls(k, n) /\ d = <<k, n>>
    BY <1>1, <1>2, <2>2, <2>3 DEF EdgeSays
  <2>4. CASE flags.with_functions /\ \E h \in vertices : Defines(h, n) /\ d = <<n, h>>
    BY <1>1, <1>2, <2>2, <2>4 DEF EdgeSays
  <2>5. CASE \E h, k \in vertices : Defines(h, n) /\ Calls(k, n) /\ d = <<k, h>>
    <3>1. PICK h \in vertices, k \in vertices : Defines(h, n) /\ Calls(k, n) /\ d = <<k, h>>
      BY <2>5
    <3>2. MustPrecede(h, k) /\ e = <<Query(h), Query(k)>>
      BY <1>1, <1>2, <3>1, FeedersPrecedeReaders
    <3> QED BY <3>2 DEF EdgeSays
  <2> QED BY <2>1, <2>3, <2>4, <2>5 DEF FunctionEdgeSays
<1> QED BY <1>1, <1>3, <1>4 DEF Whole

\* The order that the files say, edge by edge.
Plain == {e \in vertices \X vertices : MustPrecede(e[1], e[2])}

\* Every path between files is one in the graph.
LEMMA FilesOrderGraph ==
  ASSUME Inv, Whole, NEW f \in vertices, NEW g \in vertices, Reaches(vertices, Plain, g, f)
  PROVE  Reaches(graph.vertex, graph.edge, Query(g), Query(f))
<1> SUFFICES ASSUME NEW S \in SUBSET graph.vertex, Closed(graph.edge, S),
                    Successors(graph.edge, Query(g)) \subseteq S
             PROVE  Query(f) \in S
  BY DEF Reaches
<1> DEFINE P == {h \in vertices : Query(h) \in S}
<1>1. ASSUME NEW h \in vertices, NEW k \in vertices, MustPrecede(h, k),
             Successors(graph.edge, Query(h)) \subseteq S
      PROVE  k \in P
  BY <1>1, FilesAreOrdered DEF Reaches
<1>2. \A h \in P : Successors(graph.edge, Query(h)) \subseteq S
  BY DEF Closed, Successors
<1>3. Closed(Plain, P)
  BY <1>1, <1>2 DEF Closed, Plain
<1>4. Successors(Plain, g) \subseteq P
  BY <1>1 DEF Successors, Plain
<1> QED BY <1>3, <1>4 DEF Reaches

\* Every path between queries in the graph is one between files.
LEMMA GraphOrdersFiles ==
  ASSUME Tables \cap Functions = {}, Inv, Whole, NEW f \in vertices, NEW g \in vertices,
         Reaches(graph.vertex, graph.edge, Query(g), Query(f))
  PROVE  Reaches(vertices, Plain, g, f)
<1> SUFFICES ASSUME NEW S \in SUBSET vertices, Closed(Plain, S), Successors(Plain, g) \subseteq S
             PROVE  f \in S
  BY DEF Reaches
<1> DEFINE P == {v \in graph.vertex :
                   \/ \E h \in S : v = Query(h)
                   \/ \E h \in S \cup {g}, t \in Tables : Feeds(h, t) /\ v = Table(t)
                   \/ \E h \in S \cup {g}, n \in Functions : Defines(h, n) /\ v = Function(n)}
<1>1. ASSUME NEW h \in S \cup {g}, NEW k \in vertices, MustPrecede(h, k) PROVE k \in S
  <2>1. <<h, k>> \in Plain
    BY <1>1 DEF Plain
  <2> QED BY <2>1 DEF Closed, Successors
<1>2. ASSUME NEW e \in graph.edge, NEW h \in S \cup {g}, e[1] = Query(h) PROVE e[2] \in P
  <2>1. e[2] \in graph.vertex
    BY EdgesOfVertices
  <2>2. EdgeSays(e)
    BY EdgesSay
  <2>3. CASE \E k \in vertices : MustPrecede(h, k) /\ e[2] = Query(k)
    BY <1>1, <2>1, <2>3
  <2>4. CASE \E t \in Tables : Feeds(h, t) /\ e[2] = Table(t)
    BY <2>1, <2>4
  <2>5. CASE \E n \in Functions : Defines(h, n) /\ e[2] = Function(n)
    BY <2>1, <2>5
  <2> QED BY <1>2, <2>2, <2>3, <2>4, <2>5 DEF EdgeSays, Query, Table, Function
<1>3. ASSUME NEW e \in graph.edge, NEW h \in S \cup {g}, NEW t \in Tables, Feeds(h, t),
             e[1] = Table(t)
      PROVE  e[2] \in P
  <2>1. e[2] \in graph.vertex /\ EdgeSays(e)
    BY EdgesOfVertices, EdgesSay
  <2>2. PICK k \in vertices : Reads(k, t) /\ e[2] = Query(k)
    BY <1>3, <2>1 DEF EdgeSays, Query, Table, Function
  <2>3. k \in S
    BY <1>1, <1>3, <2>2, FeedersPrecedeReaders
  <2> QED BY <2>1, <2>2, <2>3
<1>4. ASSUME NEW e \in graph.edge, NEW h \in S \cup {g}, NEW n \in Functions, Defines(h, n),
             e[1] = Function(n)
      PROVE  e[2] \in P
  <2>1. e[2] \in graph.vertex /\ EdgeSays(e)
    BY EdgesOfVertices, EdgesSay
  <2>2. PICK k \in vertices : Calls(k, n) /\ e[2] = Query(k)
    BY <1>4, <2>1 DEF EdgeSays, Query, Table, Function
  <2>3. k \in S
    BY <1>1, <1>4, <2>2, FeedersPrecedeReaders
  <2> QED BY <2>1, <2>2, <2>3
<1>5. Closed(graph.edge, P)
  BY <1>2, <1>3, <1>4 DEF Closed
<1>6. Successors(graph.edge, Query(g)) \subseteq P
  BY <1>2 DEF Successors
<1>7. Query(f) \in P
  <2> HIDE DEF P
  <2>1. P \in SUBSET graph.vertex
    BY DEF P
  <2> QED BY <1>5, <1>6, <2>1 DEF Reaches
<1> QED BY <1>7 DEF Query, Table, Function

\* The paths between queries are those that the files ask for, no more and no
\* less.
LEMMA OrderIsExact ==
  ASSUME Tables \cap Functions = {}, Inv, Whole, NEW f \in vertices, NEW g \in vertices
  PROVE  Reaches(graph.vertex, graph.edge, Query(g), Query(f)) <=> Reaches(vertices, Plain, g, f)
BY FilesOrderGraph, GraphOrdersFiles

\* If no table has the name of a function, the graph orders the queries exactly
\* as the files say, under all flags: in particular showing tables and functions
\* makes no order and no cycle.
THEOREM OrderOfQueries ==
  ASSUME Tables \cap Functions = {} PROVE Spec => []QueriesOrderedAsFilesSay
<1>1. Inv => QueriesOrderedAsFilesSay
  BY OrderIsExact, BuiltIsWhole DEF QueriesOrderedAsFilesSay, Query, Plain
<1> QED BY <1>1, Invariance, PTL

===============================================================================
