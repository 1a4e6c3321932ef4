-------------------------- MODULE IdentifierResolver --------------------------
(***************************************************************************)
(* GetIdentifierInformation (identifier_resolver.cc), which alphadag calls *)
(* for one file after the other: a visitor walks the whole syntax tree and *)
(* notes what the script creates, drops, fills, changes, defines and       *)
(* calls; GetTables walks the statements it understands and notes what     *)
(* they mention; names of temporary tables are then taken out again.       *)
(*                                                                         *)
(* The visitor is new for every file, except for one static map: which     *)
(* tables the body of a procedure creates.                                 *)
(*                                                                         *)
(* A script is the sequence of its nodes in the order of the walk.  A      *)
(* CREATE PROCEDURE is a node "enter", the nodes of its body and a node    *)
(* "leave"; a node under IF, WHILE or LOOP has where = "branch".           *)
(***************************************************************************)
EXTENDS Integers, Sequences

CONSTANTS
  Files, Tables, Functions,  \* Functions: names of functions and procedures
  Scripts,                   \* what the files may hold, per path
  Orders,                    \* orders in which alphadag may read the files
  NoName

Ops == {"create", "insert", "update", "drop", "query",
        "create_function", "drop_function", "call", "enter", "leave"}

\* What a node of this kind may have for its target.
Targets(op) ==
  CASE op \in {"create", "drop"} -> Tables
    [] op \in {"insert", "update"} -> Tables \cup {NoName}
    [] op = "query" -> {NoName}
    [] OTHER -> Functions

Node ==
  {node \in [op    : Ops,
             name  : Tables \cup Functions \cup {NoName},
             temp  : BOOLEAN,               \* CREATE TEMP ...
             reads : SUBSET Tables,         \* tables that its queries mention
             calls : SUBSET Functions,      \* functions its expressions call
             where : {"top", "branch", "body"}] :
     node.name \in Targets(node.op)}

\* Every body that begins ends, and none begins within another.
BodiesAreFlat(s) ==
  /\ \A i \in DOMAIN s : s[i].op = "leave" =>
       \E j \in 1..(i - 1) :
         /\ s[j].op = "enter" /\ s[j].temp = s[i].temp
         /\ \A k \in (j + 1)..(i - 1) : s[k].op \notin {"enter", "leave"}
  /\ \A i, j \in DOMAIN s : (j < i /\ s[j].op = "enter" /\ s[i].op = "enter") =>
       \E k \in j..i : s[k].op = "leave"

ASSUME ScriptsAssumption ==
  /\ Scripts \subseteq [Files -> {s \in Seq(Node) : BodiesAreFlat(s)}]
  /\ Orders \subseteq Seq(Files)
  /\ NoName \notin Tables \cup Functions

VARIABLES
  script, warning_as_error,        \* the files and the flag
  unread,                          \* the files left, the current one first
  at,                              \* the next node of the walk; 0 between files
  procedure_artifacts_map,         \* the static map
  information,                     \* identifier_information of the current file
  temporary_tables, is_inside_procedure, procedure_name,
  resolved,                        \* the files read so far, with what was returned
  ended                            \* "no", or why alphadag gave up

input   == <<script, warning_as_error>>
visitor == <<information, temporary_tables, is_inside_procedure, procedure_name>>
vars    == <<input, unread, at, procedure_artifacts_map, visitor, resolved, ended>>

Information ==
  [created : SUBSET Tables, dropped : SUBSET Tables, inserted : SUBSET Tables,
   updated : SUBSET Tables, referenced : SUBSET Tables,
   defined : SUBSET Functions, undefined : SUBSET Functions, called : SUBSET Functions]

NoInformation ==
  [created |-> {}, dropped |-> {}, inserted |-> {}, updated |-> {}, referenced |-> {},
   defined |-> {}, undefined |-> {}, called |-> {}]

FreshVisitor ==
  /\ information' = NoInformation
  /\ temporary_tables' = {}
  /\ is_inside_procedure' = FALSE
  /\ procedure_name' = NoName

Init ==
  /\ script \in Scripts
  /\ warning_as_error \in BOOLEAN
  /\ unread \in Orders
  /\ at = 0
  /\ procedure_artifacts_map = [p \in Functions |-> {}]
  /\ information = NoInformation
  /\ temporary_tables = {}
  /\ is_inside_procedure = FALSE
  /\ procedure_name = NoName
  /\ resolved = << >>
  /\ ended = "no"

-----------------------------------------------------------------------------
File == Head(unread)
Here == script[File][at]

\* A slip: the temporary tables of the last file are still there.
OpenFileStale ==
  /\ ended = "no" /\ at = 0 /\ unread # << >>
  /\ at' = 1
  /\ information' = NoInformation
  /\ is_inside_procedure' = FALSE
  /\ procedure_name' = NoName
  /\ UNCHANGED <<input, unread, temporary_tables, procedure_artifacts_map, resolved, ended>>

\* The file is parsed and the walk begins with a new visitor.
OpenFile ==
  /\ ended = "no" /\ at = 0 /\ unread # << >>
  /\ at' = 1
  /\ FreshVisitor
  /\ UNCHANGED <<input, unread, procedure_artifacts_map, resolved, ended>>

\* The walk reaches a node of the given kind.
Visit(op) ==
  /\ ended = "no"
  /\ at > 0 /\ at <= Len(script[File])
  /\ Here.op = op
  /\ at' = at + 1
  /\ UNCHANGED <<input, unread, resolved>>

\* visitASTFunctionCall and visitASTTVF under the node.
Calling(info) == [info EXCEPT !.called = @ \cup Here.calls]

\* visitASTCreateTableStatement.
CreateTable ==
  /\ Visit("create")
  /\ IF Here.temp
     THEN /\ temporary_tables' = temporary_tables \cup {Here.name}
          /\ information' = Calling(information)
          /\ UNCHANGED procedure_artifacts_map
     ELSE IF is_inside_procedure
     THEN /\ procedure_artifacts_map' =
               [procedure_artifacts_map EXCEPT ![procedure_name] = @ \cup {Here.name}]
          /\ information' = Calling(information)
          /\ UNCHANGED temporary_tables
     ELSE /\ information' = Calling([information EXCEPT !.created = @ \cup {Here.name}])
          /\ UNCHANGED <<temporary_tables, procedure_artifacts_map>>
  /\ UNCHANGED <<is_inside_procedure, procedure_name, ended>>

\* A slip: the tables that the script has created are not searched.
SideEffectUnsearched(op, field) ==
  /\ Visit(op)
  /\ IF Here.name \in temporary_tables \cup {NoName}
     THEN information' = Calling(information) /\ UNCHANGED ended
     ELSE /\ information' = Calling([information EXCEPT ![field] = @ \cup {Here.name}])
          /\ ended' = IF warning_as_error THEN "warning" ELSE "no"
  /\ UNCHANGED <<procedure_artifacts_map, temporary_tables, is_inside_procedure,
                 procedure_name>>

\* visitASTInsertStatement and visitASTUpdateStatement, which differ in the
\* set they fill: a target that is neither temporary nor nested (NoName) is
\* noted, and is a warning unless the script has created it.
SideEffect(op, field) ==
  /\ Visit(op)
  /\ IF Here.name \in temporary_tables \cup {NoName}
     THEN information' = Calling(information) /\ UNCHANGED ended
     ELSE /\ information' = Calling([information EXCEPT ![field] = @ \cup {Here.name}])
          /\ ended' = IF warning_as_error /\ Here.name \notin information.created
                       THEN "warning" ELSE "no"
  /\ UNCHANGED <<procedure_artifacts_map, temporary_tables, is_inside_procedure,
                 procedure_name>>

InsertIntoTable == SideEffect("insert", "inserted")
UpdateTable     == SideEffect("update", "updated")

\* visitASTDropStatement, of a table.
DropTable ==
  /\ Visit("drop")
  /\ information' = IF Here.name \in temporary_tables THEN information
                    ELSE [information EXCEPT !.dropped = @ \cup {Here.name}]
  /\ UNCHANGED <<procedure_artifacts_map, temporary_tables, is_inside_procedure,
                 procedure_name, ended>>

\* Any other statement: only the calls in it count.  A DROP of anything that
\* is neither a table nor a function is one that mentions its name.
OtherStatement ==
  /\ Visit("query")
  /\ information' = Calling(information)
  /\ UNCHANGED <<procedure_artifacts_map, temporary_tables, is_inside_procedure,
                 procedure_name, ended>>

\* visitASTCreateFunctionStatement and visitASTCreateTableFunctionStatement:
\* nothing of a temporary function is looked at, its body included.
CreateFunction ==
  /\ Visit("create_function")
  /\ information' = IF Here.temp THEN information
                    ELSE Calling([information EXCEPT !.defined = @ \cup {Here.name}])
  /\ UNCHANGED <<procedure_artifacts_map, temporary_tables, is_inside_procedure,
                 procedure_name, ended>>

\* A slip: the kind of the object is not looked at.
DropFunctionAsTable ==
  /\ Visit("drop_function")
  /\ information' = [information EXCEPT !.undefined = @ \cup {Here.name},
                                        !.dropped = @ \cup {Here.name}]
  /\ UNCHANGED <<procedure_artifacts_map, temporary_tables, is_inside_procedure,
                 procedure_name, ended>>

\* visitASTDropFunctionStatement.
DropFunction ==
  /\ Visit("drop_function")
  /\ information' = [information EXCEPT !.undefined = @ \cup {Here.name}]
  /\ UNCHANGED <<procedure_artifacts_map, temporary_tables, is_inside_procedure,
                 procedure_name, ended>>

\* visitASTCallStatement: the script creates what the map says, so far, that
\* the procedure creates.
Call ==
  /\ Visit("call")
  /\ information' =
       Calling([information EXCEPT !.created = @ \cup procedure_artifacts_map[Here.name],
                                   !.called = @ \cup {Here.name}])
  /\ UNCHANGED <<procedure_artifacts_map, temporary_tables, is_inside_procedure,
                 procedure_name, ended>>

\* visitASTCreateProcedureStatement, before it goes into the body.
EnterProcedure ==
  /\ Visit("enter")
  /\ IF Here.temp
     THEN UNCHANGED <<information, is_inside_procedure, procedure_name>>
     ELSE /\ is_inside_procedure' = TRUE
          /\ procedure_name' = Here.name
          /\ information' = [information EXCEPT !.defined = @ \cup {Here.name}]
  /\ UNCHANGED <<procedure_artifacts_map, temporary_tables, ended>>

\* A slip: the visitor stays inside.
LeaveProcedureInside ==
  /\ Visit("leave")
  /\ UNCHANGED <<procedure_artifacts_map, information, temporary_tables,
                 is_inside_procedure, procedure_name, ended>>

\* The same, after the body.
LeaveProcedure ==
  /\ Visit("leave")
  /\ is_inside_procedure' = IF Here.temp THEN is_inside_procedure ELSE FALSE
  /\ UNCHANGED <<procedure_artifacts_map, information, temporary_tables,
                 procedure_name, ended>>

\* FindInStatement for one node: the bodies of procedures and the branches of
\* IF, WHILE and LOOP are not looked at; the target of INSERT, UPDATE and DROP
\* is a table name like any other.
TablesIn(node) ==
  IF node.where # "top" THEN {}
  ELSE node.reads \cup {t \in Tables : t = node.name /\ node.op \in {"insert", "update", "drop"}}

\* GetTables.
TablesOf(s) == UNION {TablesIn(s[i]) : i \in DOMAIN s}

\* A slip: a new file starts with the procedures of no other.
CloseFileForgetting ==
  /\ ended = "no"
  /\ at > 0 /\ at > Len(script[File])
  /\ resolved' = Append(resolved,
       [file |-> File,
        info |-> [information EXCEPT !.referenced = TablesOf(script[File]) \ temporary_tables]])
  /\ at' = 0
  /\ unread' = Tail(unread)
  /\ procedure_artifacts_map' = [p \in Functions |-> {}]
  /\ UNCHANGED <<input, visitor, ended>>

\* The walk is over: GetTables, the filter, and the return.
CloseFile ==
  /\ ended = "no"
  /\ at > 0 /\ at > Len(script[File])
  /\ resolved' = Append(resolved,
       [file |-> File,
        info |-> [information EXCEPT !.referenced = TablesOf(script[File]) \ temporary_tables]])
  /\ at' = 0
  /\ unread' = Tail(unread)
  /\ UNCHANGED <<input, procedure_artifacts_map, visitor, ended>>

\* The script does not parse, or GetTables reports an error: alphadag gives up.
ScriptError ==
  /\ ended = "no" /\ unread # << >>
  /\ at = 0 \/ at > Len(script[File])
  /\ ended' = "error"
  /\ UNCHANGED <<input, unread, at, procedure_artifacts_map, visitor, resolved>>

Terminated == (ended # "no" \/ (at = 0 /\ unread = << >>)) /\ UNCHANGED vars

Next ==
  \/ OpenFile
  \/ CreateTable
  \/ InsertIntoTable
  \/ UpdateTable
  \/ DropTable
  \/ OtherStatement
  \/ CreateFunction
  \/ DropFunction
  \/ Call
  \/ EnterProcedure
  \/ LeaveProcedure
  \/ CloseFile
  \/ ScriptError
  \/ Terminated

Spec == Init /\ [][Next]_vars

-----------------------------------------------------------------------------
(* What the information of a file must be.                                 *)

TypeOK ==
  /\ script \in Scripts
  /\ warning_as_error \in BOOLEAN
  /\ unread \in Seq(Files)
  /\ at \in Nat
  /\ procedure_artifacts_map \in [Functions -> SUBSET Tables]
  /\ resolved \in Seq([file : Files, info : Information])
  /\ information \in Information
  /\ temporary_tables \subseteq Tables
  /\ is_inside_procedure \in BOOLEAN
  /\ procedure_name \in Functions \cup {NoName}
  /\ is_inside_procedure => procedure_name \in Functions
  /\ ended \in {"no", "warning", "error"}

\* Node i of s stands in the body of the procedure p, which is no temporary one.
InBodyOf(s, i, p) ==
  \E j \in 1..(i - 1) :
    /\ s[j].op = "enter" /\ s[j].name = p /\ ~s[j].temp
    /\ \A k \in j..i : s[k].op # "leave"

CreatesAt(s, i, t) == s[i].op = "create" /\ ~s[i].temp /\ s[i].name = t

\* The body of p in the k-th file read creates t, at a node before the i-th of
\* the m-th.
ArtifactBefore(p, t, m, i) ==
  \E k \in 1..m :
    LET s == script[resolved[k].file]
    IN  \E j \in DOMAIN s :
          (k < m \/ j < i) /\ CreatesAt(s, j, t) /\ InBodyOf(s, j, p)

\* A file creates what its statements outside procedures create and what the
\* procedures it calls are known to create by then, in whatever file they
\* stand; and nothing else: in particular not what it only defines.
CreatedIsExact ==
  \A m \in DOMAIN resolved :
    LET s == script[resolved[m].file]
    IN  \A t \in Tables :
          t \in resolved[m].info.created <=>
            \E i \in DOMAIN s :
              \/ CreatesAt(s, i, t) /\ \A p \in Functions : ~InBodyOf(s, i, p)
              \/ s[i].op = "call" /\ ArtifactBefore(s[i].name, t, m, i)

\* A file fills, changes and drops the tables that it names as targets before
\* it makes them temporary, and no visitor carries over what another has seen.
SideEffectsAreOwn ==
  \A m \in DOMAIN resolved :
    LET s == script[resolved[m].file]
        Permanent(op) ==
          {t \in Tables :
            \E i \in DOMAIN s :
              /\ s[i].op = op /\ s[i].name = t
              /\ \A j \in 1..(i - 1) : ~(s[j].op = "create" /\ s[j].temp /\ s[j].name = t)}
    IN  /\ resolved[m].info.inserted = Permanent("insert")
        /\ resolved[m].info.updated = Permanent("update")
        /\ resolved[m].info.dropped = Permanent("drop")

\* When warnings are errors, no script that fills or changes a table which it
\* has not created gets through; and alphadag gives up over a warning only
\* because the current script does so at a node where it has not yet created
\* the table itself, outside procedures.
WarningsAreErrors ==
  /\ warning_as_error =>
       \A m \in DOMAIN resolved :
         LET info == resolved[m].info
         IN  info.inserted \cup info.updated \subseteq info.created
  /\ ended = "warning" =>
       /\ warning_as_error
       /\ LET s == script[File] IN
            \E i \in DOMAIN s :
              /\ s[i].op \in {"insert", "update"}
              /\ \A j \in 1..(i - 1) :
                   CreatesAt(s, j, s[i].name) => \E p \in Functions : InBodyOf(s, j, p)

-----------------------------------------------------------------------------
(* Why it is: the inductive invariant, for a walk that has come to node n. *)

TemporaryBefore(s, n) ==
  {t \in Tables : \E j \in 1..(n - 1) : s[j].op = "create" /\ s[j].temp /\ s[j].name = t}

TargetsBefore(s, n, op) ==
  {t \in Tables :
     \E i \in 1..(n - 1) : s[i].op = op /\ s[i].name = t /\ t \notin TemporaryBefore(s, i)}

\* The body of p has begun and has not ended.
Inside(s, n, p) ==
  \E j \in 1..(n - 1) :
    /\ s[j].op = "enter" /\ s[j].name = p /\ ~s[j].temp
    /\ \A k \in j..(n - 1) : s[k].op # "leave"

\* The body of p creates t, as far as the walk has seen it, ...
BodyCreates(s, n, p, t) == \E j \in 1..(n - 1) : CreatesAt(s, j, t) /\ InBodyOf(s, j, p)

\* ... or in a script read before.
CreatedEarlier(past, p, t) == \E s \in past : BodyCreates(s, Len(s) + 1, p, t)

CreatedBefore(past, s, n) ==
  {t \in Tables :
     \E i \in 1..(n - 1) :
       \/ CreatesAt(s, i, t) /\ \A p \in Functions : ~InBodyOf(s, i, p)
       \/ /\ s[i].op = "call"
          /\ CreatedEarlier(past, s[i].name, t) \/ BodyCreates(s, i, s[i].name, t)}

Past == {script[resolved[k].file] : k \in DOMAIN resolved}

\* What the visitor knows of the current file ...
VisitorTellsWalk ==
  at > 0 =>
    LET s == script[File]
    IN  /\ unread # << >> /\ at <= Len(s) + 1
        /\ temporary_tables = TemporaryBefore(s, at)
        /\ information.inserted = TargetsBefore(s, at, "insert")
        /\ information.updated = TargetsBefore(s, at, "update")
        /\ information.dropped = TargetsBefore(s, at, "drop")
        /\ information.created = CreatedBefore(Past, s, at)
        /\ \A p \in Functions : Inside(s, at, p) <=> (is_inside_procedure /\ procedure_name = p)
        /\ (warning_as_error /\ ended = "no") =>
             information.inserted \cup information.updated \subseteq information.created

\* ... and of procedures.
MapTellsBodies ==
  \A p \in Functions : \A t \in Tables :
    t \in procedure_artifacts_map[p] <=>
      CreatedEarlier(Past, p, t) \/ (at > 0 /\ BodyCreates(script[File], at, p, t))

Inv == TypeOK /\ VisitorTellsWalk /\ MapTellsBodies

-----------------------------------------------------------------------------
(* Where the words differ.                                                 *)

\* "alphadag finds dependencies between table references and create table
\* statements" (README.md:66): once all files are read, who calls a procedure
\* that creates a table counts as a creator of the table.
CallersCreate ==
  unread = << >> =>
    \A m, k \in DOMAIN resolved :
      LET s == script[resolved[m].file]
          r == script[resolved[k].file]
      IN  \A i \in DOMAIN s, j \in DOMAIN r, t \in Tables :
            s[i].op = "call" /\ CreatesAt(r, j, t) /\ InBodyOf(r, j, s[i].name)
              => t \in resolved[m].info.created

\* "... function calls and create function statements" (README.md:66): every
\* function that an expression of the file calls is known as called.
CallsAreFound ==
  \A m \in DOMAIN resolved :
    LET s == script[resolved[m].file]
    IN  \A i \in DOMAIN s : s[i].calls \subseteq resolved[m].info.called

\* Names are filtered "because they are local" (identifier_resolver.cc:89): a
\* table that a statement mentions before the script makes a temporary one of
\* that name is not local, and stays a reference.
ReferencesAreKept ==
  \A m \in DOMAIN resolved :
    LET s == script[resolved[m].file]
    IN  \A i \in DOMAIN s : \A t \in TablesIn(s[i]) :
          \/ t \in resolved[m].info.referenced
          \/ \E j \in 1..(i - 1) : s[j].op = "create" /\ s[j].temp /\ s[j].name = t

\* What a file depends on is known when it is read, its calls and its tables.
DependenciesAreFound == CallsAreFound /\ ReferencesAreKept
===============================================================================
