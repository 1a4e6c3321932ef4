------------------------------ MODULE JsonSchema ------------------------------
(***************************************************************************)
(* The columns of the JSON schema (json_schema_reader.h, Column in         *)
(* proto/alphasql_service.proto) and the types that alphacheck gives them. *)
(*                                                                         *)
(* A column has a type, a mode and, if it is a record, fields; Missing     *)
(* stands for an element that is absent or not of the enumeration.         *)
(***************************************************************************)
EXTENDS Integers, Sequences

CONSTANTS
  Columns,   \* the columns that there may be, their fields included
  Nesting,   \* how deep the records in a column are nested
  Missing

SupportedType ==
  {"STRING", "INTEGER", "INT64", "BOOLEAN", "BOOL", "FLOAT64", "FLOAT", "NUMERIC", "BYTES",
   "TIMESTAMP", "TIME", "DATETIME", "DATE", "GEOGRAPHY", "RECORD"}

Mode == {"REPEATED", "NULLABLE", "REQUIRED"}

\* The records of a file are finite.
ASSUME ColumnsAssumption ==
  /\ Nesting \in [Columns -> Nat]
  /\ \A c \in Columns :
       /\ c.type \in SupportedType \cup {Missing}
       /\ c.mode \in Mode \cup {Missing}
       /\ c.fields \in Seq(Columns)
       /\ \A i \in DOMAIN c.fields : Nesting[c.fields[i]] < Nesting[c]

\* JsonStringToMessage: type and mode are required, in the fields too.
Readable[c \in Columns] ==
  /\ c.type # Missing
  /\ c.mode # Missing
  /\ \A i \in DOMAIN c.fields : Readable[c.fields[i]]

FromBigQueryTypeToZetaSQLTypeMap ==
  [STRING    |-> "TYPE_STRING",    INT64    |-> "TYPE_INT64",
   INTEGER   |-> "TYPE_INT64",     BOOL     |-> "TYPE_BOOL",
   BOOLEAN   |-> "TYPE_BOOL",      FLOAT64  |-> "TYPE_FLOAT",
   FLOAT     |-> "TYPE_FLOAT",     NUMERIC  |-> "TYPE_NUMERIC",
   BYTES     |-> "TYPE_BYTES",     TIMESTAMP |-> "TYPE_TIMESTAMP",
   DATE      |-> "TYPE_DATE",      TIME     |-> "TYPE_TIME",
   DATETIME  |-> "TYPE_DATETIME",  GEOGRAPHY |-> "TYPE_GEOGRAPHY"]

Simple(type) == [kind |-> FromBigQueryTypeToZetaSQLTypeMap[type], of |-> << >>]
Struct(types) == [kind |-> "TYPE_STRUCT", of |-> types]
Array(type) == [kind |-> "TYPE_ARRAY", of |-> <<type>>]

\* A slip: only simple types are repeated.
RepeatedIfSimple(c, type) ==
  IF c.mode = "REPEATED" /\ c.type # "RECORD" THEN Array(type) ELSE type

Repeated(c, type) == IF c.mode = "REPEATED" THEN Array(type) ELSE type

ConvertSupportedTypeToZetaSQLType[c \in Columns] ==
  Repeated(c, IF c.type # "RECORD" THEN Simple(c.type)
              ELSE Struct([i \in DOMAIN c.fields |-> ConvertSupportedTypeToZetaSQLType[c.fields[i]]]))

-----------------------------------------------------------------------------
\* Names of one type in the official API, which the schema follows
\* (README.md:226).
Synonym(type) ==
  CASE type = "INTEGER" -> "INT64" [] type = "BOOLEAN" -> "BOOL" [] type = "FLOAT" -> "FLOAT64"
    [] OTHER -> type

\* What a column means: whether it may be null makes no type.
Meaning[c \in Columns] ==
  [type |-> Synonym(c.type), repeated |-> c.mode = "REPEATED",
   fields |-> IF c.type = "RECORD" THEN [i \in DOMAIN c.fields |-> Meaning[c.fields[i]]] ELSE << >>]
===============================================================================
