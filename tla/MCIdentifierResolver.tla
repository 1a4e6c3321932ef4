------------------------ MODULE MCIdentifierResolver ------------------------
(***************************************************************************)
(* Bounds for IdentifierResolver: two files, each of up to MaxBlocks       *)
(* blocks, over two tables, a procedure and a function.                    *)
(***************************************************************************)
EXTENDS IdentifierResolver

CONSTANTS t, u, p, q, MaxBlocks, Blocks

Plain == [op |-> "query", name |-> NoName, temp |-> FALSE,
          reads |-> {}, calls |-> {}, where |-> "top"]

On(op, name) == [Plain EXCEPT !.op = op, !.name = name]

Temp(node)   == [node EXCEPT !.temp = TRUE]
Branch(node) == <<[node EXCEPT !.where = "branch"]>>

\* CREATE PROCEDURE name with a body of one node.
Procedure(name, node) ==
  <<On("enter", name), [node EXCEPT !.where = "body"], On("leave", name)>>

TempProcedure(name, node) ==
  <<Temp(On("enter", name)), [node EXCEPT !.where = "body"], Temp(On("leave", name))>>

Reading(table) == [Plain EXCEPT !.reads = {table}]

ProcedureBlocks ==
  {<<On("create", t)>>, <<On("insert", t)>>, <<On("call", p)>>, Branch(On("call", p)),
   Procedure(p, On("create", t)), Procedure(p, On("create", u)),
   Procedure(q, On("call", p)), TempProcedure(p, On("create", t)),
   <<On("call", q)>>, <<On("create", u)>>}

\* Statements about a table, a target in a nested INSERT, procedures in this
\* file or another, called from a body too, and functions beside them.
MixedBlocks ==
  {<<On("create", t)>>, <<Temp(On("create", t))>>, <<On("insert", t)>>, <<On("update", t)>>,
   <<On("drop", t)>>, <<On("insert", NoName)>>, Branch(On("create", t)),
   Procedure(p, On("insert", t)), Procedure(p, Temp(On("create", t))),
   Procedure(p, On("create", t)), Procedure(q, On("call", p)),
   TempProcedure(p, On("create", t)), <<On("call", p)>>, <<On("call", q)>>,
   <<On("create_function", p)>>, <<On("drop_function", q)>>, <<Reading(t)>>}

\* A temporary table of a name read before, and a temporary function that calls
\* another.
TempBlocks ==
  {<<Reading(t), Temp(On("create", t)),
     [Temp(On("create_function", p)) EXCEPT !.calls = {q}]>>}

\* Up to MaxBlocks blocks, one after the other.
Script ==
  {<< >>} \cup Blocks
    \cup (IF MaxBlocks > 1 THEN {a \o b : a \in Blocks, b \in Blocks} ELSE {})

TwoFiles == [Files -> Script]

\* One order stands for both, since the files may hold anything.
OneOrder == {CHOOSE s \in [1..2 -> Files] : {s[i] : i \in 1..2} = Files}
===============================================================================
