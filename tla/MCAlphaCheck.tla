---------------------------- MODULE MCAlphaCheck ----------------------------
(***************************************************************************)
(* Bounds for AlphaCheck: a plan of two files with few statements each;    *)
(* two tables, one of them under two spellings; two procedures, the second *)
(* of which calls the first and then itself; and a function.  A schema has *)
(* no table, a table, two that differ in case, one with a column of every  *)
(* kind, one with a column that cannot be read, or one with two columns of *)
(* one name.                                                               *)
(***************************************************************************)
EXTENDS AlphaCheck

CONSTANTS f1, f2, t, T, u, p, q, f

LowerCase == [n \in Names |-> IF n = T THEN t ELSE n]

Plain == [op |-> "other", name |-> NoName, temp |-> FALSE, reads |-> {}, calls |-> {}]

On(op, name) == [Plain EXCEPT !.op = op, !.name = name]

Temp(stmt) == [stmt EXCEPT !.temp = TRUE]

Reading(name) == [Plain EXCEPT !.reads = {name}]

BodyOf ==
  [r \in Routines |->
     CASE r = p -> <<Temp(On("create", t)), Temp(On("create_function", f)), Reading(t)>>
       [] r = q -> <<On("call", p), On("call", q)>>
       [] OTHER -> << >>]

TableStatements ==
  {On("create", t), On("create", T), Temp(On("create", t)), Temp(On("create", T)),
   On("drop", t), On("drop", T), On("drop_if_exists", T), Reading(T),
   [On("create", u) EXCEPT !.reads = {t}], On("drop", u)}

RoutineStatements ==
  {On("create_procedure", p), On("create_procedure", q), On("call", p), On("call", q),
   Temp(On("create_function", f)), On("create_function", f), On("create_tvf", f),
   [Plain EXCEPT !.calls = {f}], On("unsupported", NoName), Temp(On("create", u)),
   On("drop", p)}

UpTo(statements, n) == UNION {[1..k -> statements] : k \in 0..n}

\* The first file holds up to m of the statements, the second up to n.
TwoFiles(statements, m, n) ==
  {<<a, b>> : a \in UpTo(statements, m), b \in UpTo(statements, n)}

Scripted(pairs) == {[file \in Files |-> IF file = f1 THEN s[1] ELSE s[2]] : s \in pairs}

NoStatements == [file \in Files |-> << >>]

FirstThenSecond == <<f1, f2>>

\* Columns: of every simple type, of every mode, and records within records.
Column(type, mode, fields) == [type |-> type, mode |-> mode, fields |-> fields]

Nullable(type) == Column(type, "NULLABLE", << >>)

SimpleColumns ==
  LET types == <<"STRING", "INTEGER", "INT64", "BOOLEAN", "BOOL", "FLOAT64", "FLOAT", "NUMERIC",
                 "BYTES", "TIMESTAMP", "TIME", "DATETIME", "DATE", "GEOGRAPHY">>
  IN  [i \in DOMAIN types |-> Nullable(types[i])]
        \o <<Column("STRING", "REPEATED", << >>), Column("STRING", "REQUIRED", << >>)>>

Records(fieldLists) ==
  LET InMode(mode) == [i \in DOMAIN fieldLists |-> Column("RECORD", mode, fieldLists[i])]
  IN  InMode("NULLABLE") \o InMode("REPEATED")

FlatRecords ==
  Records(<< << >>, <<Nullable("STRING"), Nullable("INTEGER")>>,
             <<Nullable("STRING"), Nullable("INT64")>>, <<Nullable("INT64"), Nullable("STRING")>> >>)

NestedRecords == Records([i \in DOMAIN FlatRecords |-> <<FlatRecords[i]>>])

ReadableColumns == SimpleColumns \o FlatRecords \o NestedRecords

\* A record with a field that lacks its mode.
UnreadableColumn == Column("RECORD", "NULLABLE", <<Column("STRING", Missing, << >>)>>)

AllColumns ==
  {ReadableColumns[i] : i \in DOMAIN ReadableColumns}
    \cup {UnreadableColumn, Column("STRING", Missing, << >>)}

NestingOf ==
  LET Deep(c) == \E i \in DOMAIN c.fields : c.fields[i].fields # << >>
  IN  [c \in AllColumns |-> IF c.fields = << >> THEN 0 ELSE IF Deep(c) THEN 2 ELSE 1]

Declared(name, columns) == [name |-> name, columns |-> columns, clash |-> FALSE]

SmallSchemas ==
  {<< >>, <<Declared(T, << >>)>>, <<Declared(T, << >>), Declared(t, << >>)>>,
   <<Declared(u, << >>)>>}

RichSchemas ==
  {<<Declared(T, << >>), Declared(u, ReadableColumns)>>,
   <<Declared(T, << >>), Declared(u, <<Nullable("DATE"), UnreadableColumn>>)>>,
   <<Declared(T, << >>),
     [Declared(u, <<Nullable("DATE"), Nullable("TIME")>>) EXCEPT !.clash = TRUE]>>}

Given(scripts, schemas) == [script : scripts, schema : schemas]

AllInputs ==
  Given(Scripted(TwoFiles(TableStatements, 2, 2)), SmallSchemas)
    \cup Given(Scripted(TwoFiles(RoutineStatements, 3, 1)), {<< >>, <<Declared(u, << >>)>>})
    \cup Given({NoStatements}, RichSchemas)

TableInputs == Given(Scripted(TwoFiles(TableStatements, 2, 1)), SmallSchemas)
=============================================================================
