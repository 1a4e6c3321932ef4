---------------------------- MODULE PipelineProofs ----------------------------
(***************************************************************************)
(* Proofs about Pipeline, for all files, names, contents, argument orders, *)
(* flags, lakes and interleavings of the run.                              *)
(***************************************************************************)
EXTENDS Pipeline, AlphaDagProofs

(* Names.                                                                  *)

\* What is referenced, dropped or created is a table, what is called, removed or
\* defined a function, and no name is both.
LEMMA NamesOfFile ==
  ASSUME Inv, NEW f \in vertices
  PROVE  /\ content[f].created \subseteq Tables /\ content[f].dropped \subseteq Tables
         /\ content[f].referenced \subseteq Tables
         /\ content[f].defined \subseteq Functions /\ content[f].undefined \subseteq Functions
         /\ content[f].called \subseteq Functions
<1>1. content[f] \in FileInfo
  BY ContentType DEF Inv, TypeOK, FilesParsed
<1> QED BY <1>1 DEF FileInfo

\* Who creates what another one drops or removes must be done before.
LEMMA MakerPrecedesDropper ==
  ASSUME Inv, NEW f \in vertices, NEW g \in vertices, f # g,
         MadeBy(f) \cap (DroppedBy(g) \cup UndefinedBy(g)) # {}
  PROVE  MustPrecede(f, g)
<1>1. PICK x : x \in MadeBy(f) /\ x \in DroppedBy(g) \cup UndefinedBy(g)
  OBVIOUS
<1>2. CASE x \in Tables
  <2>1. x \notin Functions
    BY <1>2, LakesAssumption
  <2>2. x \in content[f].created /\ x \in content[g].dropped
    BY <1>1, <2>1, NamesOfFile DEF MadeBy, DroppedBy, UndefinedBy
  <2> QED BY <1>2, <2>2 DEF MustPrecede, Creates, Uses
<1>3. CASE x \notin Tables
  <2>1. x \in content[f].defined /\ x \in content[g].undefined /\ x \in Functions
    BY <1>1, <1>3, NamesOfFile DEF MadeBy, DroppedBy, UndefinedBy
  <2> QED BY <2>1 DEF MustPrecede
<1> QED BY <1>2, <1>3

\* Who creates what another one needs must be done before.
LEMMA MakerPrecedesUser ==
  ASSUME Inv, NEW f \in vertices, NEW g \in vertices, MadeBy(f) \cap NeededBy(g) # {}
  PROVE  MustPrecede(f, g)
<1>1. PICK x : x \in MadeBy(f) /\ x \in NeededBy(g)
  OBVIOUS
<1>2. CASE x \in Tables
  <2>1. x \notin Functions
    BY <1>2, LakesAssumption
  <2>2. x \in content[f].created /\ x \in content[g].referenced /\ x \notin content[g].created
    BY <1>1, <2>1, NamesOfFile DEF MadeBy, NeededBy
  <2> QED BY <1>2, <2>2 DEF MustPrecede, Creates, Uses
<1>3. CASE x \notin Tables
  <2>1. /\ x \in content[f].defined /\ x \in content[g].called /\ x \notin content[g].defined
        /\ x \in Functions
    BY <1>1, <1>3, NamesOfFile DEF MadeBy, NeededBy
  <2> QED BY <2>1 DEF MustPrecede
<1> QED BY <1>2, <1>3

\* One more file in what a set of files makes and drops.
LEMMA OneMore ==
  ASSUME NEW S, NEW f
  PROVE  /\ Made(S \cup {f}) = Made(S) \cup MadeBy(f)
         /\ Dropped(S \cup {f}) = Dropped(S) \cup DroppedBy(f)
         /\ Gone(S \cup {f}) = Gone(S) \cup DroppedBy(f) \cup UndefinedBy(f)
BY DEF Made, Dropped, Gone

-----------------------------------------------------------------------------
(* The inductive invariant.                                                *)

\* Before alphadag has read a file, nothing is made and nothing is known.
LEMMA PipelineInit_Inv == PipelineInit => Inv /\ PipelineInv
<1> SUFFICES ASSUME PipelineInit PROVE Inv /\ PipelineInv
  OBVIOUS
<1>1. Inv
  BY InitInv DEF PipelineInit
<1>2. vertices = {} /\ analyzed = {} /\ before = {} /\ Done = {}
  BY DEF PipelineInit, Init, Done
<1>3. Made({}) = {} /\ Dropped({}) = {} /\ Gone({}) = {}
  BY DEF Made, Dropped, Gone
<1>4. PipelineTypeOK
  BY <1>2 DEF PipelineInit, PipelineTypeOK
<1>5. WholeGraph /\ StagesFollow /\ BeforeIsOfGraph /\ InOrder
  BY <1>2 DEF PipelineInit, WholeGraph, StagesFollow, BeforeIsOfGraph, Planned, InOrder
<1>6. CatalogTellsCheck /\ WarehouseTellsRun
  BY <1>2, <1>3 DEF PipelineInit, CatalogTellsCheck, WarehouseTellsRun
<1>7. CheckedQueriesRun
  BY <1>2 DEF CheckedQueriesRun
<1> QED BY <1>1, <1>4, <1>5, <1>6, <1>7 DEF PipelineInv

\* What is said of the files stays while alphadag does nothing.
LEMMA FilesUnchanged ==
  ASSUME UNCHANGED vars
  PROVE  /\ \A f, g : MustPrecede(f, g)' = MustPrecede(f, g)
         /\ \A f : /\ NeededBy(f)' = NeededBy(f) /\ MadeBy(f)' = MadeBy(f)
                   /\ DroppedBy(f)' = DroppedBy(f) /\ UndefinedBy(f)' = UndefinedBy(f)
         /\ NothingDropped' = NothingDropped
         /\ Before' = Before
         /\ (WholeGraph /\ UNCHANGED written => WholeGraph')
<1> USE DEF vars, input, maps, lists
<1>1. \A f, g : MustPrecede(f, g)' = MustPrecede(f, g)
  BY DEF MustPrecede, Creates, Changes, Uses
<1>2. \A f : /\ NeededBy(f)' = NeededBy(f) /\ MadeBy(f)' = MadeBy(f)
             /\ DroppedBy(f)' = DroppedBy(f) /\ UndefinedBy(f)' = UndefinedBy(f)
  BY DEF NeededBy, MadeBy, DroppedBy, UndefinedBy
<1>3. NothingDropped' = NothingDropped
  BY DEF NothingDropped, Gone, Dropped, DroppedBy, UndefinedBy
<1>4. Before' = Before
  BY DEF Before
<1>5. /\ TableDependencies' = TableDependencies /\ FunctionDependencies' = FunctionDependencies
      /\ KnownTables' = KnownTables /\ CreatedFunctions' = CreatedFunctions
      /\ GraphVertices' = GraphVertices /\ GraphEdges' = GraphEdges
  BY DEF TableDependencies, TableEdges, WithoutSelfReference, FunctionDependencies, FunctionEdges,
         KnownTables, CreatedFunctions, GraphVertices, GraphEdges, IndexOf
<1>6. WholeGraph /\ UNCHANGED written => WholeGraph'
  BY <1>5 DEF WholeGraph
<1> QED BY <1>1, <1>2, <1>3, <1>4, <1>6

\* When alphadag is about to write, the graph is whole, and it stays so.
LEMMA RunAlphaDagKeepsGraph ==
  ASSUME Inv, PipelineInv, RunAlphaDag PROVE WholeGraph'
<1> USE DEF input, maps, lists
<1> SUFFICES ASSUME written'
             PROVE  /\ Whole' /\ phase' \in {"check", "failed", "succeeded"}
                    /\ unread' = << >>
  BY DEF WholeGraph, Whole
<1>1. /\ Whole /\ UNCHANGED <<flags, content, unread, maps, lists, graph>> /\ unread = << >>
      /\ phase' \in {"check", "failed", "succeeded"}
  <2>1. CASE phase = "write"
    <3>1. WriteOutputs \/ CannotWrite
      BY <2>1 DEF RunAlphaDag, Next, ReadFile, SkipFile, RefuseFile, RefuseClash, ResolveTables,
                  ResolveFunctions, BuildGraph, DetectCycle, Terminated
    <3>2. Whole
      BY <2>1, BuiltIsWhole DEF Built
    <3>3. unread = << >>
      BY <2>1 DEF Inv
    <3> QED BY <3>1, <3>2, <3>3 DEF WriteOutputs, CannotWrite
  <2>2. CASE phase # "write"
    <3>1. written
      BY <2>2 DEF RunAlphaDag
    <3>2. Whole /\ phase = "check" /\ unread = << >>
      BY <3>1 DEF RunAlphaDag, PipelineInv, WholeGraph, Whole, Refused
    <3>3. DetectCycle
      BY <3>2 DEF RunAlphaDag, Next, ReadFile, SkipFile, RefuseFile, RefuseClash, ResolveTables,
                  ResolveFunctions, BuildGraph, WriteOutputs, CannotWrite, Terminated
    <3> QED BY <3>2, <3>3 DEF DetectCycle
  <2> QED BY <2>1, <2>2
<1>2. /\ TableDependencies' = TableDependencies /\ FunctionDependencies' = FunctionDependencies
      /\ KnownTables' = KnownTables /\ CreatedFunctions' = CreatedFunctions
  BY <1>1, MapsUnchanged
<1>3. GraphVertices' = GraphVertices /\ GraphEdges' = GraphEdges
  BY <1>1 DEF GraphVertices, GraphEdges, IndexOf
<1> QED BY <1>1, <1>2, <1>3 DEF Whole, Refused

\* While alphadag runs, nothing is planned, checked or done.
LEMMA RunAlphaDagKeepsInv ==
  ASSUME Inv, PipelineInv, RunAlphaDag, Inv' PROVE PipelineInv'
<1>1. /\ stage = "alphadag" /\ before = {} /\ analyzed = {}
      /\ \A f \in Files : status[f] = "waiting"
      /\ UNCHANGED <<lake, stage, before, analyzed, catalog, warehouse, status>>
  BY DEF RunAlphaDag, PipelineInv, StagesFollow, Planned
<1>2. Done = {} /\ Done' = {}
  BY <1>1 DEF Done, Inv, TypeOK
<1>3. /\ Made({}) = {} /\ Dropped({}) = {} /\ Gone({}) = {}
      /\ Made({})' = {} /\ Dropped({})' = {} /\ Gone({})' = {}
  BY DEF Made, Dropped, Gone
<1>4. PipelineTypeOK'
  <2>1. written' \in BOOLEAN
    BY DEF RunAlphaDag, PipelineInv, PipelineTypeOK
  <2> QED BY <1>1, <2>1 DEF PipelineInv, PipelineTypeOK
<1>5. StagesFollow' /\ BeforeIsOfGraph' /\ InOrder'
  BY <1>1 DEF StagesFollow, BeforeIsOfGraph, InOrder, Planned
<1>6. CatalogTellsCheck'
  <2>1. catalog = lake
    BY <1>1, <1>3 DEF PipelineInv, CatalogTellsCheck
  <2> QED BY <1>1, <1>3, <2>1 DEF CatalogTellsCheck
<1>7. WarehouseTellsRun'
  <2>1. warehouse = lake
    BY <1>2, <1>3 DEF PipelineInv, WarehouseTellsRun
  <2> QED BY <1>1, <1>2, <1>3, <2>1 DEF WarehouseTellsRun
<1>8. CheckedQueriesRun'
  BY <1>1 DEF CheckedQueriesRun, Inv, TypeOK
<1> QED BY RunAlphaDagKeepsGraph, <1>4, <1>5, <1>6, <1>7, <1>8 DEF PipelineInv

\* Parts that a step does not touch, once alphadag is done.
LEMMA OrderKept ==
  ASSUME PipelineInv, UNCHANGED <<vars, written, before>>, Planned' => Planned
  PROVE  WholeGraph' /\ BeforeIsOfGraph'
<1>1. WholeGraph' /\ Before' = Before /\ \A f, g : MustPrecede(f, g)' = MustPrecede(f, g)
  BY FilesUnchanged DEF PipelineInv
<1>2. vertices' = vertices
  BY DEF vars, maps
<1> QED BY <1>1, <1>2 DEF PipelineInv, BeforeIsOfGraph

\* What alphacheck knows is told by what it has checked, which did not change.
LEMMA CatalogKept ==
  ASSUME PipelineInv, UNCHANGED <<vars, lake, analyzed, catalog>>
  PROVE  CatalogTellsCheck'
<1>1. \A f : /\ NeededBy(f)' = NeededBy(f) /\ MadeBy(f)' = MadeBy(f)
             /\ DroppedBy(f)' = DroppedBy(f)
  BY FilesUnchanged
<1>2. vertices' = vertices
  BY DEF vars, maps
<1>3. /\ Made(analyzed)' = Made(analyzed) /\ Dropped(analyzed)' = Dropped(analyzed)
      /\ Made(vertices)' = Made(vertices)
  BY <1>1, <1>2 DEF Made, Dropped
<1> QED BY <1>1, <1>3 DEF PipelineInv, CatalogTellsCheck

\* The same of the warehouse and the queries that are done.
LEMMA WarehouseKept ==
  ASSUME PipelineInv, UNCHANGED <<vars, lake, warehouse, status>>
  PROVE  WarehouseTellsRun' /\ CheckedQueriesRun'
<1>1. \A f : /\ MadeBy(f)' = MadeBy(f)
             /\ DroppedBy(f)' = DroppedBy(f) /\ UndefinedBy(f)' = UndefinedBy(f)
  BY FilesUnchanged
<1>2. vertices' = vertices /\ Done' = Done
  BY DEF vars, maps, Done
<1>3. Made(Done)' = Made(Done) /\ Gone(Done)' = Gone(Done)
  BY <1>1, <1>2 DEF Made, Gone, Dropped
<1>4. WarehouseTellsRun'
  BY <1>3 DEF PipelineInv, WarehouseTellsRun
<1>5. CheckedQueriesRun'
  BY <1>2, FilesUnchanged DEF PipelineInv, CheckedQueriesRun
<1> QED BY <1>4, <1>5

\* The plan is read from a graph that covers what the files say.
LEMMA ReadPlanKeepsInv ==
  ASSUME Inv, PipelineInv, ReadPlan PROVE PipelineInv'
<1>1. /\ UNCHANGED <<vars, lake, written, analyzed, catalog, warehouse, status>>
      /\ stage = "alphadag" /\ stage' = "check" /\ before' = Before /\ written
      /\ phase \in {"failed", "succeeded"}
  BY DEF ReadPlan, DagIsOver
<1>2. vertices' = vertices /\ phase' = phase
  BY <1>1 DEF vars, maps
<1>3. analyzed = {} /\ \A f \in Files : status[f] = "waiting"
  BY <1>1 DEF PipelineInv, StagesFollow, Planned
<1>4. vertices \subseteq Files
  BY DEF Inv, TypeOK
<1>5. PipelineTypeOK'
  BY <1>1, <1>2 DEF PipelineInv, PipelineTypeOK, Before
<1>6. WholeGraph' /\ Before' = Before /\ \A f, g : MustPrecede(f, g)' = MustPrecede(f, g)
  BY <1>1, FilesUnchanged DEF PipelineInv
<1>7. StagesFollow'
  BY <1>1, <1>2, <1>3 DEF StagesFollow, Planned
<1>8. BeforeIsOfGraph'
  <2>1. Whole
    BY <1>1 DEF PipelineInv, WholeGraph, Whole, Refused
  <2>2. \A f, g \in vertices : MustPrecede(g, f) => <<g, f>> \in Before
    BY <2>1, FilesAreOrdered DEF Before, Query
  <2> QED BY <1>1, <1>2, <1>6, <2>2 DEF BeforeIsOfGraph
<1>9. InOrder'
  BY <1>1, <1>3, <1>4 DEF InOrder, Before
<1> QED BY <1>1, <1>5, <1>6, <1>7, <1>8, <1>9, CatalogKept, WarehouseKept DEF PipelineInv

\* A file is checked after those that it must wait for: nobody before it has
\* dropped what it creates.
LEMMA CheckFileKeepsInv ==
  ASSUME Inv, PipelineInv, NEW f \in Files, CheckFile(f) PROVE PipelineInv'
<1>1. /\ UNCHANGED <<vars, lake, written, stage, before, warehouse, status>>
      /\ stage = "check" /\ f \in vertices \ analyzed
      /\ \A e \in before : e[2] = f => e[1] \in analyzed
      /\ NeededBy(f) \subseteq catalog
      /\ analyzed' = analyzed \cup {f}
      /\ catalog' = (catalog \cup MadeBy(f)) \ DroppedBy(f)
  BY DEF CheckFile, IsNext
<1>2. vertices' = vertices /\ phase' = phase /\ analyzed \subseteq vertices
  BY <1>1 DEF vars, maps, PipelineInv, PipelineTypeOK
<1>3. /\ catalog = (lake \cup Made(analyzed)) \ Dropped(analyzed)
      /\ \A g \in analyzed : NeededBy(g) \subseteq lake \cup Made(vertices)
  BY DEF PipelineInv, CatalogTellsCheck
<1>4. MadeBy(f) \cap Dropped(analyzed) = {}
  <2> SUFFICES ASSUME NEW g \in analyzed, MadeBy(f) \cap DroppedBy(g) # {} PROVE FALSE
    BY DEF Dropped
  <2>1. MustPrecede(f, g)
    BY <1>1, <1>2, MakerPrecedesDropper
  <2>2. <<f, g>> \in before
    BY <1>1, <1>2, <2>1 DEF PipelineInv, BeforeIsOfGraph, Planned
  <2>3. f \in analyzed
    BY <2>2 DEF PipelineInv, InOrder
  <2> QED BY <1>1, <2>3
<1>5. CatalogTellsCheck'
  <2>1. \A g : /\ NeededBy(g)' = NeededBy(g) /\ MadeBy(g)' = MadeBy(g)
               /\ DroppedBy(g)' = DroppedBy(g)
    BY <1>1, FilesUnchanged
  <2>2. /\ Made(analyzed)' = Made(analyzed) \cup MadeBy(f)
        /\ Dropped(analyzed)' = Dropped(analyzed) \cup DroppedBy(f)
        /\ Made(vertices)' = Made(vertices)
    BY <1>1, <1>2, <2>1 DEF Made, Dropped
  <2>3. Made(analyzed) \subseteq Made(vertices)
    BY <1>2 DEF Made
  <2>4. NeededBy(f) \subseteq lake \cup Made(vertices)
    BY <1>1, <1>3, <2>3
  <2>5. catalog' = (lake \cup Made(analyzed) \cup MadeBy(f)) \ (Dropped(analyzed) \cup DroppedBy(f))
    BY <1>1, <1>3, <1>4
  <2> QED BY <1>1, <1>3, <2>1, <2>2, <2>4, <2>5 DEF CatalogTellsCheck
<1>6. PipelineTypeOK'
  BY <1>1, <1>2 DEF PipelineInv, PipelineTypeOK
<1>7. StagesFollow'
  BY <1>1, <1>2 DEF PipelineInv, StagesFollow, Planned
<1>8. WholeGraph' /\ BeforeIsOfGraph'
  BY <1>1, OrderKept DEF Planned
<1>9. InOrder'
  BY <1>1 DEF PipelineInv, InOrder
<1> QED BY <1>1, <1>5, <1>6, <1>7, <1>8, <1>9, WarehouseKept DEF PipelineInv

\* A query starts after those that it must wait for: what they create is there,
\* unless something is dropped.
LEMMA StartQueryKeepsInv ==
  ASSUME Inv, PipelineInv, NEW f \in Files, StartQuery(f) PROVE PipelineInv'
<1> DEFINE st == IF NeededBy(f) \subseteq warehouse THEN "running" ELSE "failed"
<1>1. /\ UNCHANGED <<vars, lake, written, stage, before, analyzed, catalog, warehouse>>
      /\ stage = "run" /\ f \in vertices /\ status[f] = "waiting"
      /\ \A e \in before : e[2] = f => status[e[1]] = "done"
      /\ status' = [status EXCEPT ![f] = st]
  BY DEF StartQuery, Ready
<1>2. vertices' = vertices /\ phase' = phase
  BY <1>1 DEF vars, maps
<1>3. status \in [Files -> {"waiting", "running", "done", "failed"}] /\ before \subseteq vertices \X vertices
  BY DEF PipelineInv, PipelineTypeOK
<1>4. /\ status'[f] = st /\ st \in {"running", "failed"}
      /\ \A g \in Files \ {f} : status'[g] = status[g]
  BY <1>1, <1>3
<1>5. vertices \subseteq Files /\ Done' = Done
  BY <1>1, <1>2, <1>4 DEF Done, Inv, TypeOK
<1>6. PipelineTypeOK'
  <2>1. status' \in [Files -> {"waiting", "running", "done", "failed"}]
    BY <1>1, <1>3, <1>4
  <2> QED BY <1>1, <1>2, <1>4, <2>1 DEF PipelineInv, PipelineTypeOK
<1>7. StagesFollow'
  BY <1>1, <1>2 DEF PipelineInv, StagesFollow, Planned
<1>8. WholeGraph' /\ BeforeIsOfGraph'
  BY <1>1, OrderKept DEF Planned
<1>9. InOrder'
  <2> SUFFICES ASSUME NEW e \in before
               PROVE  /\ e[2] \in analyzed => e[1] \in analyzed
                      /\ status'[e[2]] # "waiting" => status'[e[1]] = "done"
    BY <1>1 DEF InOrder
  <2>1. /\ e[1] \in Files /\ e[2] \in Files
        /\ e[2] \in analyzed => e[1] \in analyzed
        /\ status[e[2]] # "waiting" => status[e[1]] = "done"
    BY <1>3, <1>5 DEF PipelineInv, InOrder
  <2> QED BY <1>1, <1>4, <2>1
<1>10. WarehouseTellsRun'
  <2>1. Made(Done)' = Made(Done) /\ Gone(Done)' = Gone(Done)
    BY <1>1, <1>5, FilesUnchanged DEF Made, Gone, Dropped
  <2> QED BY <1>1, <2>1 DEF PipelineInv, WarehouseTellsRun
<1>11. NothingDropped => NeededBy(f) \subseteq warehouse
  <2> SUFFICES ASSUME NothingDropped, NEW x \in NeededBy(f) PROVE x \in warehouse
    OBVIOUS
  <2>1. warehouse = lake \cup Made(Done)
    <3>1. Gone(Done) \subseteq Gone(vertices)
      BY DEF Gone, Dropped, Done
    <3> QED BY <3>1 DEF PipelineInv, WarehouseTellsRun, NothingDropped
  <2>2. x \in lake \cup Made(vertices)
    BY <1>1 DEF PipelineInv, CatalogTellsCheck, StagesFollow
  <2>3. ASSUME NEW g \in vertices, x \in MadeBy(g) PROVE x \in Made(Done)
    <3>1. MustPrecede(g, f)
      BY <1>1, <2>3, MakerPrecedesUser
    <3>2. <<g, f>> \in before
      BY <1>1, <3>1 DEF PipelineInv, BeforeIsOfGraph, Planned
    <3>3. g \in Done
      BY <1>1, <3>2 DEF Done
    <3> QED BY <2>3, <3>3 DEF Made
  <2> QED BY <2>1, <2>2, <2>3 DEF Made
<1>12. CheckedQueriesRun'
  <2>1. NothingDropped' = NothingDropped
    BY <1>1, FilesUnchanged
  <2>2. NothingDropped => st = "running"
    BY <1>11
  <2> QED BY <1>2, <1>4, <1>5, <2>1, <2>2 DEF PipelineInv, CheckedQueriesRun
<1> QED BY <1>1, <1>6, <1>7, <1>8, <1>9, <1>10, <1>12, CatalogKept DEF PipelineInv

\* A query that is done adds what it creates: no query that is done before it
\* has dropped that.
LEMMA FinishQueryKeepsInv ==
  ASSUME Inv, PipelineInv, NEW f \in Files, FinishQuery(f) PROVE PipelineInv'
<1>1. /\ UNCHANGED <<vars, lake, written, stage, before, analyzed, catalog>>
      /\ stage = "run" /\ status[f] = "running"
      /\ status' = [status EXCEPT ![f] = "done"]
      /\ warehouse' = (warehouse \cup MadeBy(f)) \ (DroppedBy(f) \cup UndefinedBy(f))
  BY DEF FinishQuery
<1>2. vertices' = vertices /\ phase' = phase /\ vertices \subseteq Files
  BY <1>1 DEF vars, maps, Inv, TypeOK
<1>3. /\ status \in [Files -> {"waiting", "running", "done", "failed"}]
      /\ before \subseteq vertices \X vertices /\ f \in vertices
  BY <1>1 DEF PipelineInv, PipelineTypeOK
<1>4. status'[f] = "done" /\ \A g \in Files \ {f} : status'[g] = status[g]
  BY <1>1, <1>3
<1>5. Done' = Done \cup {f}
  BY <1>2, <1>3, <1>4 DEF Done
<1>6. PipelineTypeOK'
  <2>1. status' \in [Files -> {"waiting", "running", "done", "failed"}]
    BY <1>1, <1>3, <1>4
  <2> QED BY <1>1, <1>2, <1>3, <1>4, <2>1 DEF PipelineInv, PipelineTypeOK
<1>7. StagesFollow'
  BY <1>1, <1>2 DEF PipelineInv, StagesFollow, Planned
<1>8. WholeGraph' /\ BeforeIsOfGraph'
  BY <1>1, OrderKept DEF Planned
<1>9. InOrder'
  <2> SUFFICES ASSUME NEW e \in before
               PROVE  /\ e[2] \in analyzed => e[1] \in analyzed
                      /\ status'[e[2]] # "waiting" => status'[e[1]] = "done"
    BY <1>1 DEF InOrder
  <2>1. /\ e[1] \in Files /\ e[2] \in Files
        /\ e[2] \in analyzed => e[1] \in analyzed
        /\ status[e[2]] # "waiting" => status[e[1]] = "done"
    BY <1>2, <1>3 DEF PipelineInv, InOrder
  <2> QED BY <1>1, <1>4, <2>1
<1>10. MadeBy(f) \cap Gone(Done) = {}
  <2> SUFFICES ASSUME NEW g \in Done, MadeBy(f) \cap (DroppedBy(g) \cup UndefinedBy(g)) # {}
               PROVE  FALSE
    BY DEF Gone, Dropped
  <2>1. g \in vertices /\ status[g] = "done" /\ f # g
    BY <1>1 DEF Done
  <2>2. MustPrecede(f, g)
    BY <1>3, <2>1, MakerPrecedesDropper
  <2>3. <<f, g>> \in before
    BY <1>1, <1>3, <2>1, <2>2 DEF PipelineInv, BeforeIsOfGraph, Planned
  <2>4. status[f] = "done"
    BY <2>1, <2>3 DEF PipelineInv, InOrder
  <2> QED BY <1>1, <2>4
<1>11. WarehouseTellsRun'
  <2>1. \A g : /\ MadeBy(g)' = MadeBy(g)
               /\ DroppedBy(g)' = DroppedBy(g) /\ UndefinedBy(g)' = UndefinedBy(g)
    BY <1>1, FilesUnchanged
  <2>2. /\ Made(Done)' = Made(Done) \cup MadeBy(f)
        /\ Gone(Done)' = Gone(Done) \cup DroppedBy(f) \cup UndefinedBy(f)
    BY <1>5, <2>1 DEF Made, Gone, Dropped
  <2>3. warehouse = (lake \cup Made(Done)) \ Gone(Done)
    BY DEF PipelineInv, WarehouseTellsRun
  <2>4. warehouse' = (lake \cup Made(Done) \cup MadeBy(f))
                       \ (Gone(Done) \cup DroppedBy(f) \cup UndefinedBy(f))
    BY <1>1, <1>10, <2>3
  <2> QED BY <1>1, <2>2, <2>4 DEF WarehouseTellsRun
<1>12. CheckedQueriesRun'
  <2>1. NothingDropped' = NothingDropped
    BY <1>1, FilesUnchanged
  <2> QED BY <1>2, <1>4, <2>1 DEF PipelineInv, CheckedQueriesRun
<1> QED BY <1>1, <1>6, <1>7, <1>8, <1>9, <1>11, <1>12, CatalogKept DEF PipelineInv

\* The steps that change the stage only.
LEMMA StageKeepsInv ==
  ASSUME Inv, PipelineInv,
         NoDotFile \/ RefuseCycle \/ (\E f \in Files : CheckFails(f)) \/ CheckSucceeds \/ RunEnds
           \/ UNCHANGED pipelineVars
  PROVE  PipelineInv'
<1>1. /\ UNCHANGED <<vars, lake, written, before, analyzed, catalog, warehouse, status>>
      /\ stage' \in {"alphadag", "refused", "check", "run", "over"}
      /\ \/ stage' = stage
         \/ stage' = "refused" /\ (phase \in {"failed", "succeeded"} \/ stage = "check")
              /\ stage \in {"alphadag", "check"}
         \/ stage = "check" /\ analyzed = vertices /\ stage' = "run"
         \/ stage = "run" /\ stage' = "over"
  BY DEF NoDotFile, RefuseCycle, DagIsOver, CheckFails, IsNext, CheckSucceeds, RunEnds,
         pipelineVars, PipelineInv, PipelineTypeOK
<1>2. vertices' = vertices /\ phase' = phase
  BY <1>1 DEF vars, maps
<1>3. PipelineTypeOK'
  BY <1>1, <1>2 DEF PipelineInv, PipelineTypeOK
<1>4. StagesFollow'
  BY <1>1, <1>2 DEF PipelineInv, StagesFollow, Planned
<1>5. WholeGraph' /\ BeforeIsOfGraph'
  BY <1>1, OrderKept DEF Planned
<1>6. InOrder'
  BY <1>1 DEF PipelineInv, InOrder
<1> QED BY <1>1, <1>3, <1>4, <1>5, <1>6, CatalogKept, WarehouseKept DEF PipelineInv

\* Every step keeps the invariants of alphadag and of the whole.
LEMMA PipelineNextInv ==
  Inv /\ PipelineInv /\ [PipelineNext]_pipelineVars => Inv' /\ PipelineInv'
<1> SUFFICES ASSUME Inv, PipelineInv, [PipelineNext]_pipelineVars PROVE Inv' /\ PipelineInv'
  OBVIOUS
<1>1. Inv'
  <2>1. [Next]_vars
    BY DEF PipelineNext, RunAlphaDag, NoDotFile, RefuseCycle, ReadPlan, DagIsOver, CheckFile,
           CheckFails, CheckSucceeds, StartQuery, FinishQuery, RunEnds, Over, pipelineVars
  <2> QED BY <2>1, NextInv
<1>2. CASE RunAlphaDag
  BY <1>1, <1>2, RunAlphaDagKeepsInv
<1>3. CASE ReadPlan
  BY <1>1, <1>3, ReadPlanKeepsInv
<1>4. CASE \E f \in Files : CheckFile(f)
  BY <1>1, <1>4, CheckFileKeepsInv
<1>5. CASE \E f \in Files : StartQuery(f)
  BY <1>1, <1>5, StartQueryKeepsInv
<1>6. CASE \E f \in Files : FinishQuery(f)
  BY <1>1, <1>6, FinishQueryKeepsInv
<1>7. CASE NoDotFile \/ RefuseCycle \/ (\E f \in Files : CheckFails(f)) \/ CheckSucceeds
             \/ RunEnds \/ UNCHANGED pipelineVars
  BY <1>1, <1>7, StageKeepsInv
<1> QED BY <1>1, <1>2, <1>3, <1>4, <1>5, <1>6, <1>7 DEF PipelineNext, Over

\* From alphadag to the run, the programs pass on what the files say.
THEOREM PipelineInvariance == PipelineSpec => [](Inv /\ PipelineInv)
BY PipelineInit_Inv, PipelineNextInv, PTL DEF PipelineSpec

-----------------------------------------------------------------------------
(* What follows from it.                                                   *)

\* If nothing is dropped, no query of a checked plan misses a table or a
\* function, however the queries interleave.
THEOREM CheckedIsRunnable == PipelineSpec => []CheckedQueriesRun
<1>1. PipelineInv => CheckedQueriesRun
  BY DEF PipelineInv
<1> QED BY <1>1, PipelineInvariance, PTL

\* What a complete run leaves behind does not depend on the interleaving, DROPs
\* included.
THEOREM RunIsUnique == PipelineSpec => []RunIsDeterminate
<1>1. PipelineInv => RunIsDeterminate
  BY DEF PipelineInv, WarehouseTellsRun, RunIsDeterminate
<1> QED BY <1>1, PipelineInvariance, PTL

\* No query starts before all that the files put before it are done.
THEOREM NoneRunsEarly == PipelineSpec => []NoQueryRunsEarly
<1>1. Inv /\ PipelineInv => NoQueryRunsEarly
  <2> SUFFICES ASSUME Inv, PipelineInv, NEW f \in vertices, status[f] \in {"running", "done"},
                      NEW g \in vertices, MustPrecede(g, f)
               PROVE  status[g] = "done"
    BY DEF NoQueryRunsEarly
  <2>1. Planned
    BY DEF PipelineInv, StagesFollow, Planned, Inv, TypeOK
  <2>2. <<g, f>> \in before
    BY <2>1 DEF PipelineInv, BeforeIsOfGraph
  <2> QED BY <2>2 DEF PipelineInv, InOrder
<1> QED BY <1>1, PipelineInvariance, PTL

\* The order in which queries are checked and run is exactly that of the files.
THEOREM OrderIsThatOfFiles == PipelineSpec => []OrderIsOfFiles
<1>1. Inv /\ PipelineInv => OrderIsOfFiles
  <2> SUFFICES ASSUME Inv, PipelineInv, stage = "check"
               PROVE  before = {e \in vertices \X vertices : Reaches(vertices, Plain, e[1], e[2])}
    BY DEF OrderIsOfFiles, Plain
  <2>1. before = Before /\ Whole
    BY DEF PipelineInv, BeforeIsOfGraph, Planned, WholeGraph, Whole, Refused
  <2>2. \A e \in vertices \X vertices :
          Reaches(graph.vertex, graph.edge, Query(e[1]), Query(e[2]))
            <=> Reaches(vertices, Plain, e[1], e[2])
    BY <2>1, OrderIsExact, LakesAssumption
  <2> QED BY <2>1, <2>2 DEF Before, Query
<1> QED BY <1>1, PipelineInvariance, PTL
===============================================================================
