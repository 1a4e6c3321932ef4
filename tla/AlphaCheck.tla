------------------------------ MODULE AlphaCheck ------------------------------
(***************************************************************************)
(* alphacheck (alphacheck.cc): the files of the execution plan are checked *)
(* one after the other against one catalog, which every CREATE and DROP    *)
(* changes.  The catalog, a SimpleCatalog of ZetaSQL, finds a table by the *)
(* lower-case form of its name (tables_) and frees the tables that it owns *)
(* (owned_tables_); the tables of the JSON schema it does not own.         *)
(*                                                                         *)
(* A script is the sequence of statements that check meets in it: those of *)
(* a BEGIN block, then those of its exception handlers, stand in its place.*)
(***************************************************************************)
EXTENDS JsonSchema

CONSTANTS
  Files, Names, Keys,  \* Names: of tables, as they are spelled
  Lower,               \* the lower-case form of a name, in Keys
  Routines, NoName,
  Bodies,              \* the bodies of procedures, by the name of the procedure
  Inputs,              \* what the files and the JSON schema may hold
  Plan,                \* what GetExecutionPlan has delivered
  MaxDepth             \* nested calls of check that the stack has room for

Ops == {"create", "drop", "drop_if_exists", "create_function", "create_tvf",
        "create_procedure", "call", "other", "unsupported"}

\* What a statement of this kind may have for its name: a DROP, that of a table
\* or of a procedure.
Targets(op) ==
  CASE op = "create" -> Names
    [] op \in {"drop", "drop_if_exists"} -> Names \cup Routines
    [] op \in {"other", "unsupported"} -> {NoName}
    [] OTHER -> Routines

\* A statement as check meets it, with the names that it mentions.
Statement ==
  {stmt \in [op : Ops, name : Names \cup Routines \cup {NoName}, temp : BOOLEAN,
             reads : SUBSET Names, calls : SUBSET Routines] :
     stmt.name \in Targets(stmt.op)}

\* clash: two of its columns have one name.
Declaration == [name : Names, columns : Seq(Columns), clash : BOOLEAN]

ASSUME CheckAssumption ==
  /\ Lower \in [Names -> Keys]
  /\ Bodies \in [Routines -> Seq(Statement)]
  /\ Inputs \subseteq [script : [Files -> Seq(Statement)],
                     schema : Seq(Declaration)]
  /\ Plan \in Seq(Files)
  /\ \A i, j \in DOMAIN Plan : Plan[i] = Plan[j] => i = j
  /\ NoName \notin Names \cup Routines
  /\ MaxDepth \in Nat \ {0}

VARIABLES
  script, schema,           \* the files and the JSON schema
  unloaded,                 \* the entries of the schema left
  unread,                   \* the files of the plan left, the current one first
  frames,                   \* the statements left in each nested call of check
  tables_, owned_tables_,   \* the tables of the catalog
  functions_, tvfs_,        \* its functions and table-valued functions
  procedure_bodies,         \* the procedures it knows, with their bodies
  temp_table_names, temp_function_names,
  checked,                  \* auxiliary: the statements checked, with their files
  outcome

input    == <<script, schema>>
tables   == <<tables_, owned_tables_>>
routines == <<functions_, tvfs_, procedure_bodies>>
temps    == <<temp_table_names, temp_function_names>>
vars     == <<input, unloaded, unread, frames, tables, routines, temps, checked, outcome>>

Init ==
  /\ \E given \in Inputs : script = given.script /\ schema = given.schema
  /\ unloaded = schema
  /\ unread = Plan
  /\ frames = << >>
  /\ tables_ = << >> /\ owned_tables_ = << >>
  /\ functions_ = {} /\ tvfs_ = {}
  /\ procedure_bodies = << >>
  /\ temp_table_names = << >> /\ temp_function_names = << >>
  /\ checked = << >>
  /\ outcome = "starting"

-----------------------------------------------------------------------------
(* The catalog.                                                            *)

\* A SimpleTable; made tells apart two of one name (0: it is of the schema), and
\* columns are the types that the schema gives (those of others do not matter).
Table(name, temp, made) ==
  [name |-> name, temp |-> temp, made |-> made, columns |-> << >>]

\* The lower-case form of whatever a DROP names: it may be a procedure too.
Key(name) == IF name \in Names THEN Lower[name] ELSE name

\* A map without a key.
Without(f, key) == [k \in DOMAIN f \ {key} |-> f[k]]

\* A map with a key set.
With(f, key, value) == [k \in DOMAIN f \cup {key} |-> IF k = key THEN value ELSE f[k]]

Owns(owned, name) == \E i \in DOMAIN owned : owned[i].name = name

\* The first table that is owned under this very spelling is freed.
Freed(owned, name) ==
  IF ~Owns(owned, name) THEN owned
  ELSE LET i == CHOOSE i \in DOMAIN owned :
                  owned[i].name = name /\ \A j \in 1..(i - 1) : owned[j].name # name
       IN  SubSeq(owned, 1, i - 1) \o SubSeq(owned, i + 1, Len(owned))

\* A slip: the map is asked for the name as it is spelled.
DropOwnedTableIfExistsAsSpelled(name) ==
  /\ tables_' = Without(tables_, name)
  /\ owned_tables_' = Freed(owned_tables_, name)

\* The entry goes, whoever owns the table.
DropOwnedTableIfExists(name) ==
  /\ tables_' = Without(tables_, Key(name))
  /\ owned_tables_' = Freed(owned_tables_, name)

\* The same, and then CHECK(false) << "No table named " unless one was freed.
DropOwnedTable(name) ==
  /\ DropOwnedTableIfExists(name)
  /\ outcome' = IF Owns(owned_tables_, name) THEN outcome ELSE "no_table"

DropOwnedFunction(name) ==
  /\ functions_' = functions_ \ {name}
  /\ outcome' = IF name \in functions_ THEN outcome ELSE "no_function"

-----------------------------------------------------------------------------
(* ConstructCatalog, with UpdateCatalogFromJSON, and the loop of main.     *)

Entry == Head(unloaded)

Loading == outcome = "starting" /\ unloaded # << >>

SchemaTable(entry) ==
  [Table(entry.name, FALSE, 0) EXCEPT
     !.columns = [i \in DOMAIN entry.columns |->
                    ConvertSupportedTypeToZetaSQLType[entry.columns[i]]]]

\* The next entry of the file becomes a table; AddTable ends the program for a
\* name that differs from an earlier one in case only.
AddTable ==
  /\ Loading /\ ~Entry.clash /\ \A i \in DOMAIN Entry.columns : Readable[Entry.columns[i]]
  /\ IF Lower[Entry.name] \in DOMAIN tables_
     THEN outcome' = "duplicate" /\ UNCHANGED tables_
     ELSE /\ tables_' = With(tables_, Lower[Entry.name], SchemaTable(Entry))
          /\ UNCHANGED outcome
  /\ unloaded' = Tail(unloaded)
  /\ UNCHANGED <<input, unread, frames, owned_tables_, routines, temps, checked>>

\* "Failed to generate catalog from JSON file", for the first column that cannot
\* be read or has the name of an earlier one.
LoadFails ==
  /\ Loading /\ (Entry.clash \/ \E i \in DOMAIN Entry.columns : ~Readable[Entry.columns[i]])
  /\ outcome' = "error"
  /\ UNCHANGED <<input, unloaded, unread, frames, tables, routines, temps, checked>>

\* The schema is loaded, or its path is no file.
ConstructCatalog ==
  /\ outcome = "starting"
  /\ \/ unloaded = << >> /\ outcome' = "running"
     \/ unloaded = schema /\ outcome' = "error"
  /\ UNCHANGED <<input, unloaded, unread, frames, tables, routines, temps, checked>>

\* Run: the script is parsed and check is called for its statements.
OpenFile ==
  /\ outcome = "running" /\ frames = << >> /\ unread # << >>
  /\ frames' = <<script[Head(unread)]>>
  /\ UNCHANGED <<input, unloaded, unread, tables, routines, temps, checked, outcome>>

\* The path is no file, or the script does not parse.
NoScript ==
  /\ outcome = "running" /\ frames = << >> /\ unread # << >>
  /\ outcome' = "error"
  /\ UNCHANGED <<input, unloaded, unread, frames, tables, routines, temps, checked>>

\* "Successfully finished type check!"
Succeed ==
  /\ outcome = "running" /\ frames = << >> /\ unread = << >>
  /\ outcome' = "success"
  /\ UNCHANGED <<input, unloaded, unread, frames, tables, routines, temps, checked>>

-----------------------------------------------------------------------------
(* check, one statement at a time.                                         *)

Here == frames[1][1]

AtStatement == outcome = "running" /\ frames # << >> /\ frames[1] # << >>

\* The frames once the current statement is done.
Consumed == <<Tail(frames[1])>> \o Tail(frames)

Resolves ==
  /\ \A n \in Here.reads : Lower[n] \in DOMAIN tables_
  /\ Here.calls \subseteq functions_ \cup tvfs_
  /\ Here.op = "call" => Here.name \in DOMAIN procedure_bodies

Note == checked' = Append(checked, [file |-> Head(unread), stmt |-> Here])

\* The analyzer accepts a statement of this kind.
Analyzed(op) ==
  /\ AtStatement /\ Here.op = op /\ Resolves
  /\ Note
  /\ UNCHANGED <<input, unloaded, unread>>

\* Any other error of the analyzer is told as an unknown name is.
AnalysisFails ==
  /\ AtStatement /\ Here.op # "unsupported" /\ ~Resolves
  /\ outcome' = "error"
  /\ UNCHANGED <<input, unloaded, unread, frames, tables, routines, temps, checked>>

\* "check skipped with the error": Statement not supported.
SkipStatement ==
  /\ AtStatement /\ Here.op = "unsupported"
  /\ frames' = Consumed
  /\ Note
  /\ UNCHANGED <<input, unloaded, unread, tables, routines, temps, outcome>>

\* A slip: a table that the catalog has stays, as with AddOwnedTableIfNotPresent.
CreateTableKept ==
  /\ Analyzed("create")
  /\ LET table == Table(Here.name, Here.temp, Len(checked) + 1) IN
       /\ tables_' = IF Lower[Here.name] \in DOMAIN tables_ THEN tables_
                     ELSE With(tables_, Lower[Here.name], table)
       /\ owned_tables_' = IF Lower[Here.name] \in DOMAIN tables_ THEN owned_tables_
                           ELSE Append(owned_tables_, table)
  /\ temp_table_names' = IF Here.temp THEN Append(temp_table_names, Here.name)
                         ELSE temp_table_names
  /\ frames' = Consumed
  /\ UNCHANGED <<routines, temp_function_names, outcome>>

CreateTable ==
  /\ Analyzed("create")
  /\ LET table == Table(Here.name, Here.temp, Len(checked) + 1) IN
       /\ tables_' = With(tables_, Lower[Here.name], table)
       /\ owned_tables_' = Append(Freed(owned_tables_, Here.name), table)
  /\ temp_table_names' = IF Here.temp THEN Append(temp_table_names, Here.name)
                         ELSE temp_table_names
  /\ frames' = Consumed
  /\ UNCHANGED <<routines, temp_function_names, outcome>>

\* A slip: temporary functions are not remembered.
CreateFunctionForgotten ==
  /\ Analyzed("create_function")
  /\ functions_' = functions_ \cup {Here.name}
  /\ outcome' = IF Here.name \in functions_ THEN "duplicate" ELSE outcome
  /\ frames' = Consumed
  /\ UNCHANGED <<tables, tvfs_, procedure_bodies, temps>>

\* A slip: temporary functions are remembered as tables.
CreateFunctionMixed ==
  /\ Analyzed("create_function")
  /\ functions_' = functions_ \cup {Here.name}
  /\ outcome' = IF Here.name \in functions_ THEN "duplicate" ELSE outcome
  /\ temp_table_names' =
       IF Here.temp THEN Append(temp_table_names, Here.name) ELSE temp_table_names
  /\ frames' = Consumed
  /\ UNCHANGED <<tables, tvfs_, procedure_bodies, temp_function_names>>

\* AddOwnedFunction ends the program for a name that the catalog has.
CreateFunction ==
  /\ Analyzed("create_function")
  /\ functions_' = functions_ \cup {Here.name}
  /\ outcome' = IF Here.name \in functions_ THEN "duplicate" ELSE outcome
  /\ temp_function_names' =
       IF Here.temp /\ Here.name \notin functions_
       THEN Append(temp_function_names, Here.name) ELSE temp_function_names
  /\ frames' = Consumed
  /\ UNCHANGED <<tables, tvfs_, procedure_bodies, temp_table_names>>

CreateTableFunction ==
  /\ Analyzed("create_tvf")
  /\ tvfs_' = tvfs_ \cup {Here.name}
  /\ outcome' = IF Here.name \in tvfs_ THEN "duplicate" ELSE outcome
  /\ frames' = Consumed
  /\ UNCHANGED <<tables, functions_, procedure_bodies, temps>>

\* A slip: the later body is ignored, as with IF NOT EXISTS.
CreateProcedureOnce ==
  /\ Analyzed("create_procedure")
  /\ procedure_bodies' = With(procedure_bodies, Here.name, Bodies[Here.name])
  /\ frames' = Consumed
  /\ UNCHANGED <<tables, functions_, tvfs_, temps, outcome>>

CreateProcedure ==
  /\ Analyzed("create_procedure")
  /\ procedure_bodies' = With(procedure_bodies, Here.name, Bodies[Here.name])
  /\ outcome' = IF Here.name \in DOMAIN procedure_bodies THEN "duplicate" ELSE outcome
  /\ frames' = Consumed
  /\ UNCHANGED <<tables, functions_, tvfs_, temps>>

\* A slip: the temporary tables of the caller are forgotten in the callee.
CallForgetting ==
  /\ Analyzed("call")
  /\ IF Len(frames) < MaxDepth
     THEN frames' = <<procedure_bodies[Here.name]>> \o Consumed /\ UNCHANGED outcome
     ELSE outcome' = "overflow" /\ UNCHANGED frames
  /\ temp_table_names' = << >>
  /\ UNCHANGED <<tables, routines, temp_function_names>>

\* The body is checked in place, with the caller's temporary names.
Call ==
  /\ Analyzed("call")
  /\ IF Len(frames) < MaxDepth
     THEN frames' = <<procedure_bodies[Here.name]>> \o Consumed /\ UNCHANGED outcome
     ELSE outcome' = "overflow" /\ UNCHANGED frames
  /\ UNCHANGED <<tables, routines, temps>>

\* DROP of anything but a function, a procedure included.
DropTable ==
  /\ \/ Analyzed("drop_if_exists") /\ DropOwnedTableIfExists(Here.name) /\ UNCHANGED outcome
     \/ Analyzed("drop") /\ DropOwnedTable(Here.name)
  /\ frames' = Consumed
  /\ UNCHANGED <<routines, temps>>

\* Statements that the switch has no case for, DROP FUNCTION among them.
OtherStatement ==
  /\ Analyzed("other")
  /\ frames' = Consumed
  /\ UNCHANGED <<tables, routines, temps, outcome>>

\* A call of check for a body is over.
Return ==
  /\ outcome = "running" /\ Len(frames) > 1 /\ frames[1] = << >>
  /\ frames' = Tail(frames)
  /\ UNCHANGED <<input, unloaded, unread, tables, routines, temps, checked, outcome>>

-----------------------------------------------------------------------------
(* Run, after the statements: temporary names are taken out again.         *)

ScriptIsOver == outcome = "running" /\ frames = << << >> >>

\* A slip: the loop over the names does not move on.
RemoveTempTableAgain ==
  /\ ScriptIsOver /\ temp_table_names # << >>
  /\ DropOwnedTableIfExists(Head(temp_table_names))
  /\ UNCHANGED <<input, unloaded, unread, frames, routines, temps, checked, outcome>>

RemoveTempTable ==
  /\ ScriptIsOver /\ temp_table_names # << >>
  /\ DropOwnedTableIfExists(Head(temp_table_names))
  /\ temp_table_names' = Tail(temp_table_names)
  /\ UNCHANGED <<input, unloaded, unread, frames, routines, temp_function_names, checked, outcome>>

\* A slip: as above.
RemoveTempFunctionAgain ==
  /\ ScriptIsOver /\ temp_table_names = << >> /\ temp_function_names # << >>
  /\ DropOwnedFunction(Head(temp_function_names))
  /\ UNCHANGED <<input, unloaded, unread, frames, tables, tvfs_, procedure_bodies, temps, checked>>

RemoveTempFunction ==
  /\ ScriptIsOver /\ temp_table_names = << >> /\ temp_function_names # << >>
  /\ DropOwnedFunction(Head(temp_function_names))
  /\ temp_function_names' = Tail(temp_function_names)
  /\ UNCHANGED <<input, unloaded, unread, frames, tables, tvfs_, procedure_bodies,
                 temp_table_names, checked>>

\* "SUCCESS: analysis finished!", and the loop of main goes on.
CloseFile ==
  /\ ScriptIsOver /\ temp_table_names = << >> /\ temp_function_names = << >>
  /\ frames' = << >>
  /\ unread' = Tail(unread)
  /\ UNCHANGED <<input, unloaded, tables, routines, temps, checked, outcome>>

Terminated == outcome \notin {"starting", "running"} /\ UNCHANGED vars

Next ==
  \/ AddTable
  \/ LoadFails
  \/ ConstructCatalog
  \/ OpenFile
  \/ NoScript
  \/ Succeed
  \/ AnalysisFails
  \/ SkipStatement
  \/ CreateTable
  \/ CreateFunction
  \/ CreateTableFunction
  \/ CreateProcedure
  \/ Call
  \/ DropTable
  \/ OtherStatement
  \/ Return
  \/ RemoveTempTable
  \/ RemoveTempFunction
  \/ CloseFile
  \/ Terminated

Spec == Init /\ [][Next]_vars

\* One thread, no step of which waits for anything.
FairSpec == Spec /\ WF_vars(Next)

-----------------------------------------------------------------------------
(* What the catalog must be.                                               *)

Outcomes == {"starting", "running", "success", "error",
             "duplicate", "no_table", "no_function", "overflow"}

OwnedTable == [name : Names, temp : BOOLEAN, made : Nat, columns : {<< >>}]

TypeOK ==
  /\ script \in [Files -> Seq(Statement)]
  /\ schema \in Seq(Declaration) /\ unloaded \in Seq(Declaration)
  /\ Len(unloaded) <= Len(schema)
  /\ \A i \in DOMAIN unloaded : unloaded[i] = schema[Len(schema) - Len(unloaded) + i]
  /\ unread \in Seq(Files)
  /\ frames \in Seq(Seq(Statement))
  /\ DOMAIN tables_ \subseteq Keys
  /\ owned_tables_ \in Seq(OwnedTable)
  /\ functions_ \subseteq Routines /\ tvfs_ \subseteq Routines
  /\ DOMAIN procedure_bodies \subseteq Routines
  /\ \A p \in DOMAIN procedure_bodies : procedure_bodies[p] = Bodies[p]
  /\ temp_table_names \in Seq(Names) /\ temp_function_names \in Seq(Routines)
  /\ checked \in Seq([file : Files, stmt : Statement])
  /\ outcome \in Outcomes

InSchema(k) == \E i \in DOMAIN schema : Lower[schema[i].name] = k

\* A table that the catalog finds is of the schema or is still owned: DROP and
\* the replacement in CREATE never free a table and leave its entry behind.
NoEntryDangles ==
  \A k \in DOMAIN tables_ :
    /\ Lower[tables_[k].name] = k
    /\ \/ tables_[k].made = 0 /\ \E i \in DOMAIN schema : schema[i].name = tables_[k].name
       \/ \E i \in DOMAIN owned_tables_ : owned_tables_[i] = tables_[k]

\* No file is checked against a part of the schema, and no type is lost: every
\* entry is a table by then, and two columns have one type if and only if they
\* mean the same.
SchemaIsWhole ==
  (outcome = "running" /\ checked = << >>) =>
    LET TypesOf(i) == tables_[Lower[schema[i].name]].columns
        Same(i, a, j, b) == Meaning[schema[i].columns[a]] = Meaning[schema[j].columns[b]]
    IN  \A i, j \in DOMAIN schema :
          /\ Lower[schema[i].name] \in DOMAIN tables_
          /\ DOMAIN TypesOf(i) = DOMAIN schema[i].columns
          /\ \A a \in DOMAIN TypesOf(i), b \in DOMAIN TypesOf(j) :
               TypesOf(i)[a] = TypesOf(j)[b] <=> Same(i, a, j, b)

\* No temporary table outlives the script that made it, be it made by the
\* script or by a procedure that it called.
TempTablesAreLocal ==
  (outcome = "running" /\ frames = << >>) =>
    \A i \in DOMAIN owned_tables_ : ~owned_tables_[i].temp

\* The last of the statements checked that creates or drops a table under k.
Touching(k) ==
  {i \in DOMAIN checked :
     /\ checked[i].stmt.op \in {"create", "drop", "drop_if_exists"}
     /\ Key(checked[i].stmt.name) = k}

\* No table of the schema or of a script is shadowed by a temporary one.
Unshadowed(k) ==
  \/ \A i \in Touching(k) : ~checked[i].stmt.temp
  \/ /\ \A i \in Touching(k) : checked[i].stmt.op = "create" => checked[i].stmt.temp
     /\ ~InSchema(k)

\* k is of the schema and untouched, or the last statement about it has created
\* it; a temporary table, in the current file.
ToldByHistory(k) ==
  \/ Touching(k) = {} /\ InSchema(k)
  \/ \E i \in Touching(k) :
       /\ \A j \in Touching(k) : j <= i
       /\ checked[i].stmt.op = "create"
       /\ checked[i].stmt.temp => frames # << >> /\ checked[i].file = Head(unread)

\* What a file may read is what the history says: a table of the schema, or
\* one that the last statement about it, in this file or one before it in the
\* plan, has created; a temporary one only in the file that created it.
CatalogTellsHistory ==
  (outcome = "running" /\ ~ScriptIsOver) =>
    \A k \in Keys : Unshadowed(k) => (k \in DOMAIN tables_ <=> ToldByHistory(k))

\* What a file reads is the last definition: an entry of the catalog is that of
\* the last statement checked that creates or drops a table under its key, or
\* that of the schema if there is none (CREATE TABLE replaces, whatever its mode
\* and its spelling).
LastDefinitionCounts ==
  \A k \in DOMAIN tables_ :
    \/ tables_[k].made = 0 /\ Touching(k) = {}
    \/ tables_[k].made \in Touching(k) /\ \A i \in Touching(k) : i <= tables_[k].made

SchemaClashes ==
  \E i, j \in DOMAIN schema : i # j /\ Lower[schema[i].name] = Lower[schema[j].name]

\* Both statements define the same routine, and the first is still in force: a
\* temporary function ends with its file, nothing else does.
DefinedTwice(i, j) ==
  LET first  == checked[i].stmt
      second == checked[j].stmt
  IN  /\ i < j
      /\ first.op \in {"create_function", "create_tvf", "create_procedure"}
      /\ second.op = first.op /\ second.name = first.name
      /\ first.op = "create_function" /\ first.temp => checked[i].file = checked[j].file

RoutineDefinedTwice == \E i, j \in DOMAIN checked : DefinedTwice(i, j)

\* The catalog ends the program over a second definition if and only if there is
\* one: the removal of temporary functions neither leaves one behind that a later
\* file stumbles over nor takes a permanent one away, and no routine of the plan
\* and no table of the schema takes the place of another unnoticed.
DuplicatesEndTheCheck ==
  /\ outcome = "duplicate" => SchemaClashes \/ RoutineDefinedTwice
  /\ RoutineDefinedTwice => outcome = "duplicate"
  /\ SchemaClashes => outcome \in {"starting", "duplicate", "error"}

\* The same of functions: permanent ones for ever, temporary ones in their file.
FunctionsTellHistory ==
  (outcome = "running" /\ ~ScriptIsOver) =>
    functions_ =
      {f \in Routines :
         \E i \in DOMAIN checked :
           /\ checked[i].stmt.op = "create_function" /\ checked[i].stmt.name = f
           /\ checked[i].stmt.temp => frames # << >> /\ checked[i].file = Head(unread)}

\* The CHECK "No function named" never fails: the temporary functions to be
\* removed are in the catalog, each of them once.
TempFunctionsAreFound == outcome # "no_function"

\* The check of a finite plan ends, in a success, an error or a failed CHECK.
CheckEnds == <>(outcome \notin {"starting", "running"})

-----------------------------------------------------------------------------
(* Why it is: the inductive invariant.                                     *)

\* Every file of the plan is checked once, and leaves no names to be removed.
FilesInTurn ==
  /\ \A i, j \in DOMAIN unread : unread[i] = unread[j] => i = j
  /\ \A i \in DOMAIN checked : \A j \in DOMAIN unread :
       checked[i].file = unread[j] => j = 1 /\ frames # << >>
  /\ frames # << >> => unread # << >>
  /\ frames = << >> => temp_table_names = << >> /\ temp_function_names = << >>

CreatesTemp(i, name) ==
  checked[i].stmt.op = "create" /\ checked[i].stmt.temp /\ checked[i].stmt.name = name

\* The catalog owns one table of each name, which a statement made; the names
\* of temporary ones wait to be removed.
OwnedTellsHistory ==
  /\ \A i \in DOMAIN owned_tables_ :
       LET table == owned_tables_[i] IN
         /\ table.made \in DOMAIN checked
         /\ checked[table.made].stmt.op = "create"
         /\ checked[table.made].stmt.name = table.name
         /\ checked[table.made].stmt.temp = table.temp
         /\ \A j \in DOMAIN owned_tables_ : owned_tables_[j].name = table.name => j = i
         /\ table.temp => \E j \in DOMAIN temp_table_names : temp_table_names[j] = table.name
  /\ \A j \in DOMAIN temp_table_names : \E i \in DOMAIN checked :
       CreatesTemp(i, temp_table_names[j])

PermanentFunctions ==
  {f \in Routines :
     \E i \in DOMAIN checked :
       checked[i].stmt.op = "create_function" /\ ~checked[i].stmt.temp /\ checked[i].stmt.name = f}

TempFunctionsHere ==
  {f \in Routines :
     \E i \in DOMAIN checked :
       /\ checked[i].stmt.op = "create_function" /\ checked[i].stmt.temp
       /\ checked[i].stmt.name = f /\ checked[i].file = Head(unread)}

\* The functions are the permanent ones and, each once, those to be removed.
FunctionsTellNames ==
  LET temporary == {temp_function_names[i] : i \in DOMAIN temp_function_names}
  IN  outcome \in {"starting", "running"} =>
        /\ functions_ = PermanentFunctions \cup temporary
        /\ PermanentFunctions \cap temporary = {}
        /\ \A i, j \in DOMAIN temp_function_names :
             temp_function_names[i] = temp_function_names[j] => i = j
        /\ (frames # << >> /\ ~ScriptIsOver) => temporary = TempFunctionsHere

\* What CatalogTellsHistory says, while the schema is loaded and while temporary
\* tables are removed.
TablesTellHistory ==
  /\ outcome = "starting" =>
       /\ checked = << >>
       /\ DOMAIN tables_ = {Lower[schema[i].name] : i \in 1..(Len(schema) - Len(unloaded))}
  /\ outcome = "running" =>
       \A k \in Keys : Unshadowed(k) =>
         /\ k \in DOMAIN tables_ => ToldByHistory(k)
         /\ (ToldByHistory(k) /\ (ScriptIsOver => \A i \in Touching(k) : ~checked[i].stmt.temp))
              => k \in DOMAIN tables_

\* The entries of the schema that are loaded, all of them before a file is checked,
\* are in the catalog with their types, until the first statement may change it.
SchemaIsLoaded ==
  /\ outcome = "running" => unloaded = << >>
  /\ (outcome = "starting" \/ (outcome = "running" /\ checked = << >>)) =>
       \A i \in 1..(Len(schema) - Len(unloaded)) :
         /\ \A a \in DOMAIN schema[i].columns : Readable[schema[i].columns[a]]
         /\ Lower[schema[i].name] \in DOMAIN tables_
         /\ tables_[Lower[schema[i].name]] = SchemaTable(schema[i])

CatalogInv ==
  /\ TypeOK /\ FilesInTurn
  /\ NoEntryDangles /\ OwnedTellsHistory
  /\ FunctionsTellNames /\ TablesTellHistory

\* The routines that statements of this kind have defined so far.
Defined(op) ==
  {r \in Routines :
     \E i \in DOMAIN checked : checked[i].stmt.op = op /\ checked[i].stmt.name = r}

\* The table functions and procedures are those defined so far, and the entries of
\* the schema that are loaded have different keys.
RoutinesTellHistory ==
  /\ outcome \in {"starting", "running"} =>
       /\ tvfs_ = Defined("create_tvf")
       /\ DOMAIN procedure_bodies = Defined("create_procedure")
  /\ outcome = "starting" =>
       \A i, j \in 1..(Len(schema) - Len(unloaded)) :
         Lower[schema[i].name] = Lower[schema[j].name] => i = j

HistoryInv == LastDefinitionCounts /\ DuplicatesEndTheCheck /\ RoutinesTellHistory

Inv == CatalogInv /\ SchemaIsLoaded /\ HistoryInv

-----------------------------------------------------------------------------
(* Where the words differ.                                                 *)

\* CHECK(false) << "No table named " (alphacheck.cc:75): the program ends there
\* only over a name that the catalog did not have.
NoTableMeansNoTable ==
  (AtStatement /\ Here.op = "drop" /\ Key(Here.name) \in DOMAIN tables_)
    => Owns(owned_tables_, Here.name)

\* "Removing temporary table" (alphacheck.cc:388): what is removed from the
\* catalog under a temporary name is a temporary table.
RemovedTablesAreTemporary ==
  (ScriptIsOver /\ temp_table_names # << >>) =>
    LET k == Lower[Head(temp_table_names)]
    IN  k \in DOMAIN tables_ => tables_[k].temp
===============================================================================
