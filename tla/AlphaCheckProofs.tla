--------------------------- MODULE AlphaCheckProofs ---------------------------
(***************************************************************************)
(* Proofs about AlphaCheck: what the catalog knows while the files of a    *)
(* plan are checked, for any number of files, statements and procedures.   *)
(***************************************************************************)
EXTENDS AlphaCheck, SequenceTheorems, TLAPS

-----------------------------------------------------------------------------
(* The tables that the catalog owns.                                       *)

\* A sequence without its n-th element.
LEMMA CutOut ==
  ASSUME NEW S, NEW s \in Seq(S), NEW n \in DOMAIN s
  PROVE  LET cut == SubSeq(s, 1, n - 1) \o SubSeq(s, n + 1, Len(s))
         IN  /\ cut \in Seq(S) /\ Len(cut) = Len(s) - 1
             /\ \A i \in 1..(n - 1) : cut[i] = s[i]
             /\ \A i \in n..(Len(s) - 1) : cut[i] = s[i + 1]
<1> DEFINE before == SubSeq(s, 1, n - 1)
           after == SubSeq(s, n + 1, Len(s))
           cut == before \o after
<1>1. n \in Nat /\ 1 <= n /\ n <= Len(s) /\ Len(s) \in Nat
  OBVIOUS
<1>2. /\ before \in Seq(S) /\ Len(before) = n - 1
      /\ \A i \in 1..(n - 1) : before[i] = s[i]
  BY <1>1
<1>3. /\ after \in Seq(S) /\ Len(after) = Len(s) - n
      /\ \A i \in 1..(Len(s) - n) : after[i] = s[n + i]
  BY <1>1
<1> HIDE DEF before, after
<1>4. before \in Seq(S) /\ after \in Seq(S)
  BY <1>2, <1>3
<1>5. /\ cut \in Seq(S) /\ Len(cut) = Len(before) + Len(after)
      /\ \A i \in 1..(Len(before) + Len(after)) :
           cut[i] = IF i <= Len(before) THEN before[i] ELSE after[i - Len(before)]
  BY <1>4, ConcatProperties
<1> HIDE DEF cut
<1>6. \A i \in 1..(n - 1) : cut[i] = s[i]
  <2> SUFFICES ASSUME NEW i \in 1..(n - 1) PROVE cut[i] = s[i]
    OBVIOUS
  <2>1. i \in 1..(Len(before) + Len(after)) /\ i <= Len(before)
    BY <1>1, <1>2, <1>3
  <2> QED BY <1>2, <1>5, <2>1
<1>7. \A i \in n..(Len(s) - 1) : cut[i] = s[i + 1]
  <2> SUFFICES ASSUME NEW i \in n..(Len(s) - 1) PROVE cut[i] = s[i + 1]
    OBVIOUS
  <2>1. i \in 1..(Len(before) + Len(after)) /\ ~(i <= Len(before))
    BY <1>1, <1>2, <1>3
  <2>2. i - Len(before) \in 1..(Len(s) - n) /\ n + (i - Len(before)) = i + 1
    BY <1>1, <1>2
  <2> QED BY <1>3, <1>5, <2>1, <2>2
<1>8. Len(cut) = Len(s) - 1
  BY <1>1, <1>2, <1>3, <1>5
<1> QED BY <1>5, <1>6, <1>7, <1>8 DEF cut, before, after

NamesAreUnique(owned) ==
  \A i, j \in DOMAIN owned : owned[i].name = owned[j].name => i = j

\* To free a table is to take the one of that name out, and no other.
LEMMA FreedTables ==
  ASSUME NEW owned \in Seq(OwnedTable), NamesAreUnique(owned), NEW name
  PROVE  LET freed == Freed(owned, name)
         IN  /\ freed \in Seq(OwnedTable)
             /\ NamesAreUnique(freed)
             /\ \A i \in DOMAIN freed :
                  freed[i].name # name /\ \E j \in DOMAIN owned : freed[i] = owned[j]
             /\ \A j \in DOMAIN owned :
                  owned[j].name # name => \E i \in DOMAIN freed : freed[i] = owned[j]
<1>1. CASE ~Owns(owned, name)
  BY <1>1 DEF Freed, Owns
<1>2. CASE Owns(owned, name)
  <2> DEFINE First(i) == owned[i].name = name /\ \A j \in 1..(i - 1) : owned[j].name # name
             n == CHOOSE i \in DOMAIN owned : First(i)
             freed == SubSeq(owned, 1, n - 1) \o SubSeq(owned, n + 1, Len(owned))
  <2>1. DOMAIN owned = 1..Len(owned) /\ Len(owned) \in Nat
    OBVIOUS
  <2>2. \E i \in DOMAIN owned : First(i)
    <3>1. PICK i \in DOMAIN owned : owned[i].name = name
      BY <1>2 DEF Owns
    <3>2. \A j \in 1..(i - 1) : j \in DOMAIN owned /\ j # i
      BY <2>1
    <3>3. First(i)
      BY <3>1, <3>2 DEF NamesAreUnique
    <3> QED BY <3>3
  <2>3. n \in DOMAIN owned /\ owned[n].name = name
    BY <2>2
  <2> HIDE DEF n
  <2>6. freed \in Seq(OwnedTable) /\ Len(freed) = Len(owned) - 1
    BY <2>3, CutOut
  <2>7. /\ \A i \in 1..(n - 1) : freed[i] = owned[i]
        /\ \A i \in n..(Len(owned) - 1) : freed[i] = owned[i + 1]
    BY <2>3, CutOut
  <2>8. Freed(owned, name) = freed
    BY <1>2 DEF Freed, n
  <2> HIDE DEF freed
  <2>5. DOMAIN freed = 1..(Len(owned) - 1)
    BY <2>6
  <2>9. \A i \in DOMAIN freed :
          \E j \in DOMAIN owned : j # n /\ freed[i] = owned[j] /\ j = (IF i < n THEN i ELSE i + 1)
    BY <2>1, <2>3, <2>5, <2>7
  <2>10. NamesAreUnique(freed)
    <3> SUFFICES ASSUME NEW a \in DOMAIN freed, NEW b \in DOMAIN freed, freed[a].name = freed[b].name
                 PROVE  a = b
      BY DEF NamesAreUnique
    <3>1. PICK i \in DOMAIN owned : freed[a] = owned[i] /\ i = (IF a < n THEN a ELSE a + 1)
      BY <2>9
    <3>2. PICK j \in DOMAIN owned : freed[b] = owned[j] /\ j = (IF b < n THEN b ELSE b + 1)
      BY <2>9
    <3>3. i = j
      BY <3>1, <3>2 DEF NamesAreUnique
    <3> QED BY <2>1, <2>3, <2>5, <3>1, <3>2, <3>3
  <2>11. \A i \in DOMAIN freed : freed[i].name # name /\ \E j \in DOMAIN owned : freed[i] = owned[j]
    BY <2>3, <2>9 DEF NamesAreUnique
  <2>12. \A j \in DOMAIN owned : owned[j].name # name => \E i \in DOMAIN freed : freed[i] = owned[j]
    <3> SUFFICES ASSUME NEW j \in DOMAIN owned, owned[j].name # name
                 PROVE  \E i \in DOMAIN freed : freed[i] = owned[j]
      OBVIOUS
    <3>1. CASE j < n
      BY <2>1, <2>3, <2>5, <2>7, <3>1
    <3>2. CASE j > n
      <4>1. j - 1 \in n..(Len(owned) - 1) /\ j - 1 \in DOMAIN freed /\ (j - 1) + 1 = j
        BY <2>1, <2>3, <2>5, <3>2
      <4> QED BY <2>7, <4>1
    <3>3. j # n
      BY <2>3
    <3> QED BY <2>1, <2>3, <3>1, <3>2, <3>3
  <2> QED BY <2>6, <2>8, <2>10, <2>11, <2>12
<1> QED BY <1>1, <1>2

-----------------------------------------------------------------------------
(* A statement of a file is checked.                                       *)

\* What check meets is a statement of the current file.
LEMMA StatementHere ==
  ASSUME CatalogInv, AtStatement
  PROVE  /\ outcome = "running" /\ ~ScriptIsOver
         /\ Here \in Statement /\ Here.op \in Ops /\ Here.name \in Targets(Here.op)
         /\ Here.reads \subseteq Names /\ Here.calls \subseteq Routines
         /\ frames # << >> /\ frames \in Seq(Seq(Statement))
         /\ unread \in Seq(Files) /\ unread # << >> /\ Head(unread) \in Files
         /\ Consumed \in Seq(Seq(Statement)) /\ Consumed # << >>
         /\ checked \in Seq([file : Files, stmt : Statement])
<1>1. frames \in Seq(Seq(Statement)) /\ frames # << >> /\ frames[1] # << >> /\ outcome = "running"
  BY DEF AtStatement, CatalogInv, TypeOK
<1>2. frames[1] \in Seq(Statement) /\ Tail(frames) \in Seq(Seq(Statement))
  BY <1>1
<1>3. Here \in Statement /\ Tail(frames[1]) \in Seq(Statement)
  BY <1>1, <1>2 DEF Here
<1>4. Consumed \in Seq(Seq(Statement)) /\ Consumed # << >>
  <2>1. <<Tail(frames[1])>> \in Seq(Seq(Statement))
    BY <1>3
  <2> DEFINE first == <<Tail(frames[1])>>
             rest == Tail(frames)
  <2>2. first \in Seq(Seq(Statement)) /\ Len(first) = 1 /\ rest \in Seq(Seq(Statement))
    BY <1>2, <2>1
  <2>3. Len(rest) \in Nat
    BY <1>2
  <2> HIDE DEF first, rest
  <2>4. first \o rest \in Seq(Seq(Statement)) /\ Len(first \o rest) = Len(first) + Len(rest)
    BY <2>2, ConcatProperties
  <2>5. first \o rest # << >>
    BY <2>2, <2>3, <2>4
  <2> QED BY <2>4, <2>5 DEF first, rest, Consumed
<1>5. unread \in Seq(Files) /\ unread # << >>
  BY <1>1 DEF CatalogInv, TypeOK, FilesInTurn
<1>6. ~ScriptIsOver
  BY <1>1 DEF ScriptIsOver
<1>7. checked \in Seq([file : Files, stmt : Statement])
  BY DEF CatalogInv, TypeOK
<1> QED BY <1>1, <1>3, <1>4, <1>5, <1>6, <1>7 DEF Statement

\* What the check of every statement does, whatever its kind.
StatementChecked ==
  /\ AtStatement /\ Note
  /\ UNCHANGED <<script, schema, unloaded, unread>>
  /\ frames' \in Seq(Seq(Statement)) /\ frames' # << >>

Latest == Len(checked) + 1

\* It is the last of the history.
LEMMA HistoryGrows ==
  ASSUME CatalogInv, StatementChecked
  PROVE  /\ Latest \in Nat /\ checked' \in Seq([file : Files, stmt : Statement])
         /\ DOMAIN checked = 1..(Latest - 1)
         /\ DOMAIN checked' = DOMAIN checked \cup {Latest}
         /\ \A i \in DOMAIN checked : i < Latest /\ checked'[i] = checked[i]
         /\ checked'[Latest] = [file |-> Head(unread), stmt |-> Here]
<1> DEFINE Check == [file : Files, stmt : Statement]
           new == [file |-> Head(unread), stmt |-> Here]
<1>1. checked \in Seq(Check) /\ new \in Check /\ checked' = Append(checked, new)
  BY StatementHere DEF StatementChecked, Note
<1> HIDE DEF Check, new
<1>2. /\ checked' \in Seq(Check) /\ Len(checked') = Latest /\ Latest \in Nat \ {0}
      /\ DOMAIN checked = 1..(Latest - 1) /\ DOMAIN checked' = 1..Latest
      /\ \A i \in 1..(Latest - 1) : checked'[i] = checked[i]
      /\ checked'[Latest] = new
  BY <1>1 DEF Latest
<1>3. 1..Latest = 1..(Latest - 1) \cup {Latest} /\ \A i \in 1..(Latest - 1) : i < Latest
  BY <1>2
<1> QED BY <1>2, <1>3 DEF Check, new

\* Actions that check a statement.
LEMMA StatementsAreChecked ==
  ASSUME CatalogInv
  PROVE  /\ \A op \in Ops :
              Analyzed(op) /\ frames' = Consumed => StatementChecked /\ Here.op = op
         /\ SkipStatement => StatementChecked /\ Here.op = "unsupported"
         /\ Call => StatementChecked /\ Here.op = "call"
<1>1. ASSUME NEW op \in Ops, Analyzed(op), frames' = Consumed
      PROVE  StatementChecked /\ Here.op = op
  BY <1>1, StatementHere DEF Analyzed, StatementChecked, input
<1>2. SkipStatement => StatementChecked /\ Here.op = "unsupported"
  BY StatementHere DEF SkipStatement, StatementChecked, input
<1>3. ASSUME Call
      PROVE  StatementChecked /\ Here.op = "call"
  <2>1. AtStatement /\ Note /\ UNCHANGED <<script, schema, unloaded, unread>> /\ Here.op = "call"
    BY <1>3 DEF Call, Analyzed, input
  <2>2. /\ Consumed \in Seq(Seq(Statement)) /\ frames \in Seq(Seq(Statement)) /\ frames # << >>
    BY <2>1, StatementHere
  <2>3. procedure_bodies[Here.name] \in Seq(Statement)
    <3>1. Here.name \in DOMAIN procedure_bodies
      BY <1>3, <2>1 DEF Call, Analyzed, Resolves
    <3>2. procedure_bodies[Here.name] = Bodies[Here.name] /\ Here.name \in Routines
      BY <3>1 DEF CatalogInv, TypeOK
    <3> QED BY <3>2, CheckAssumption
  <2>4. frames' \in Seq(Seq(Statement)) /\ frames' # << >>
    <3> DEFINE first == <<procedure_bodies[Here.name]>>
    <3>1. first \in Seq(Seq(Statement)) /\ Len(first) = 1
      BY <2>3
    <3>2. frames' \in {first \o Consumed, frames}
      BY <1>3 DEF Call
    <3> HIDE DEF first
    <3>3. first \o Consumed \in Seq(Seq(Statement)) /\ Len(first \o Consumed) = 1 + Len(Consumed)
      BY <2>2, <3>1, ConcatProperties
    <3>4. Len(Consumed) \in Nat
      BY <2>2
    <3>5. first \o Consumed # << >>
      BY <3>3, <3>4
    <3> QED BY <2>2, <3>2, <3>3, <3>5
  <2> QED BY <2>1, <2>4 DEF StatementChecked
<1> QED BY <1>1, <1>2, <1>3

-----------------------------------------------------------------------------
(* The actions by what they change.                                        *)

\* Actions that end the program or wait for the next file change neither the
\* catalog nor what is known of the files.
NothingMoves ==
  /\ UNCHANGED <<script, schema, unloaded, unread, frames, tables_, owned_tables_, functions_,
                 tvfs_, procedure_bodies, temp_table_names, temp_function_names, checked>>
  /\ outcome' \in Outcomes
  /\ outcome' = outcome \/ outcome' \notin {"starting", "running"}

\* Statements that leave the tables alone.
TablesUntouched ==
  /\ StatementChecked
  /\ Here.op \notin {"create", "drop", "drop_if_exists"}
  /\ UNCHANGED <<tables_, owned_tables_, temp_table_names>>
  /\ functions_' \subseteq Routines /\ tvfs_' \subseteq Routines
  /\ DOMAIN procedure_bodies' \subseteq Routines
  /\ \A p \in DOMAIN procedure_bodies' : procedure_bodies'[p] = Bodies[p]
  /\ temp_function_names' \in Seq(Routines)
  /\ outcome' \in Outcomes \ {"starting"}

\* What CreateFunction does to the functions, and what all others do.
FunctionsGoOn ==
  \/ /\ Here.op # "create_function"
     /\ UNCHANGED <<functions_, temp_function_names>>
  \/ /\ Here.op = "create_function" /\ Here.name \in Routines
     /\ functions_' = functions_ \cup {Here.name}
     /\ IF Here.name \in functions_
        THEN outcome' = "duplicate"
        ELSE temp_function_names' = IF Here.temp THEN Append(temp_function_names, Here.name)
                                    ELSE temp_function_names

\* The outcomes that a statement leaves the program with.
LEMMA QuietActions ==
  ASSUME CatalogInv, LoadFails \/ NoScript \/ Succeed \/ AnalysisFails \/ Terminated \/ UNCHANGED vars
  PROVE  NothingMoves
<1>1. outcome \in Outcomes
  BY DEF CatalogInv, TypeOK
<1> QED BY <1>1 DEF LoadFails, NoScript, Succeed, AnalysisFails, Terminated, vars, input, tables,
            routines, temps, NothingMoves, Outcomes

\* Statements that are skipped or have no case in the switch, and those that
\* define a routine or call one.
LEMMA StatementActions ==
  ASSUME CatalogInv, \/ SkipStatement \/ OtherStatement \/ CreateFunction \/ CreateTableFunction
              \/ CreateProcedure \/ Call
  PROVE  TablesUntouched /\ FunctionsGoOn
<1>1. /\ functions_ \subseteq Routines /\ tvfs_ \subseteq Routines
      /\ DOMAIN procedure_bodies \subseteq Routines
      /\ \A p \in DOMAIN procedure_bodies : procedure_bodies[p] = Bodies[p]
      /\ temp_function_names \in Seq(Routines) /\ outcome \in Outcomes
  BY DEF CatalogInv, TypeOK
<1>2. AtStatement => outcome = "running" /\ Here.name \in Targets(Here.op)
  BY StatementHere
<1>3. {"running", "duplicate", "overflow"} \subseteq Outcomes \ {"starting"}
  BY DEF Outcomes
<1>4. {"create_function", "create_tvf", "create_procedure", "call", "other"} \subseteq Ops
  BY DEF Ops
<1>5. \A op \in {"create_function", "create_tvf", "create_procedure", "call"} : Targets(op) = Routines
  BY DEF Targets
<1>6. CASE SkipStatement
  <2>1. StatementChecked /\ Here.op = "unsupported" /\ AtStatement
    BY <1>6, StatementsAreChecked DEF StatementChecked
  <2>2. UNCHANGED <<tables_, owned_tables_, functions_, tvfs_, procedure_bodies,
                    temp_table_names, temp_function_names, outcome>>
    BY <1>6 DEF SkipStatement, tables, routines, temps
  <2> QED BY <1>1, <1>2, <1>3, <2>1, <2>2 DEF TablesUntouched, FunctionsGoOn
<1>7. CASE OtherStatement
  <2>1. StatementChecked /\ Here.op = "other" /\ AtStatement
    BY <1>4, <1>7, StatementsAreChecked DEF StatementChecked, OtherStatement
  <2>2. UNCHANGED <<tables_, owned_tables_, functions_, tvfs_, procedure_bodies,
                    temp_table_names, temp_function_names, outcome>>
    BY <1>7 DEF OtherStatement, tables, routines, temps
  <2> QED BY <1>1, <1>2, <1>3, <2>1, <2>2 DEF TablesUntouched, FunctionsGoOn
<1>8. CASE CreateFunction
  <2>1. StatementChecked /\ Here.op = "create_function" /\ AtStatement
    BY <1>4, <1>8, StatementsAreChecked DEF StatementChecked, CreateFunction
  <2>2. Here.name \in Routines /\ outcome = "running"
    BY <1>2, <1>5, <2>1
  <2>3. /\ UNCHANGED <<tables_, owned_tables_, tvfs_, procedure_bodies, temp_table_names>>
        /\ functions_' = functions_ \cup {Here.name}
        /\ outcome' \in {"running", "duplicate"}
        /\ Here.name \in functions_ => outcome' = "duplicate"
        /\ temp_function_names' = IF Here.temp /\ Here.name \notin functions_
                                  THEN Append(temp_function_names, Here.name)
                                  ELSE temp_function_names
    BY <1>8, <2>2 DEF CreateFunction, tables
  <2>4. temp_function_names' \in Seq(Routines)
    BY <1>1, <2>2, <2>3
  <2> QED BY <1>1, <1>3, <2>1, <2>2, <2>3, <2>4 DEF TablesUntouched, FunctionsGoOn
<1>9. CASE CreateTableFunction
  <2>1. StatementChecked /\ Here.op = "create_tvf" /\ AtStatement
    BY <1>4, <1>9, StatementsAreChecked DEF StatementChecked, CreateTableFunction
  <2>2. Here.name \in Routines /\ outcome = "running"
    BY <1>2, <1>5, <2>1
  <2>3. /\ UNCHANGED <<tables_, owned_tables_, functions_, procedure_bodies, temp_table_names,
                       temp_function_names>>
        /\ tvfs_' = tvfs_ \cup {Here.name}
        /\ outcome' \in {"running", "duplicate"}
    BY <1>9, <2>2 DEF CreateTableFunction, tables, temps
  <2> QED BY <1>1, <1>3, <2>1, <2>2, <2>3 DEF TablesUntouched, FunctionsGoOn
<1>10. CASE CreateProcedure
  <2>1. StatementChecked /\ Here.op = "create_procedure" /\ AtStatement
    BY <1>4, <1>10, StatementsAreChecked DEF StatementChecked, CreateProcedure
  <2>2. Here.name \in Routines /\ outcome = "running"
    BY <1>2, <1>5, <2>1
  <2>3. /\ UNCHANGED <<tables_, owned_tables_, functions_, tvfs_, temp_table_names,
                       temp_function_names>>
        /\ procedure_bodies' = With(procedure_bodies, Here.name, Bodies[Here.name])
        /\ outcome' \in {"running", "duplicate"}
    BY <1>10, <2>2 DEF CreateProcedure, tables, temps
  <2>4. /\ DOMAIN procedure_bodies' \subseteq Routines
        /\ \A p \in DOMAIN procedure_bodies' : procedure_bodies'[p] = Bodies[p]
    BY <1>1, <2>2, <2>3 DEF With
  <2> QED BY <1>1, <1>3, <2>1, <2>2, <2>3, <2>4 DEF TablesUntouched, FunctionsGoOn
<1>11. CASE Call
  <2>1. StatementChecked /\ Here.op = "call" /\ AtStatement
    BY <1>11, StatementsAreChecked DEF StatementChecked
  <2>2. outcome = "running"
    BY <1>2, <2>1
  <2>3. /\ UNCHANGED <<tables_, owned_tables_, functions_, tvfs_, procedure_bodies,
                       temp_table_names, temp_function_names>>
        /\ outcome' \in {"running", "overflow"}
    BY <1>11, <2>2 DEF Call, tables, routines, temps
  <2> QED BY <1>1, <1>3, <2>1, <2>3 DEF TablesUntouched, FunctionsGoOn
<1> QED BY <1>6, <1>7, <1>8, <1>9, <1>10, <1>11

\* What CREATE TABLE and DROP do to the tables.
TableCreated ==
  /\ StatementChecked
  /\ Here.op = "create" /\ Here.name \in Names /\ Here.temp \in BOOLEAN
  /\ LET table == Table(Here.name, Here.temp, Len(checked) + 1) IN
       /\ tables_' = With(tables_, Lower[Here.name], table)
       /\ owned_tables_' = Append(Freed(owned_tables_, Here.name), table)
  /\ temp_table_names' = IF Here.temp THEN Append(temp_table_names, Here.name)
                         ELSE temp_table_names
  /\ UNCHANGED <<functions_, tvfs_, procedure_bodies, temp_function_names>>
  /\ outcome = "running" /\ outcome' = "running"

TableDropped ==
  /\ StatementChecked
  /\ Here.op \in {"drop", "drop_if_exists"} /\ Here.name \in Names \cup Routines
  /\ tables_' = Without(tables_, Key(Here.name))
  /\ owned_tables_' = Freed(owned_tables_, Here.name)
  /\ UNCHANGED <<functions_, tvfs_, procedure_bodies, temp_table_names, temp_function_names>>
  /\ outcome = "running" /\ outcome' \in {"running", "no_table"}

\* CREATE TABLE replaces, DROP removes.
LEMMA TableActions ==
  ASSUME CatalogInv
  PROVE  /\ CreateTable => TableCreated
         /\ DropTable => TableDropped
<1>1. {"create", "drop", "drop_if_exists"} \subseteq Ops
  BY DEF Ops
<1>2. ASSUME CreateTable
      PROVE  TableCreated
  <2>1. StatementChecked /\ Here.op = "create" /\ AtStatement
    BY <1>1, <1>2, StatementsAreChecked DEF StatementChecked, CreateTable
  <2>2. Here.name \in Names /\ Here.temp \in BOOLEAN /\ outcome = "running"
    BY <2>1, StatementHere DEF Targets, Statement
  <2> QED BY <1>2, <2>1, <2>2 DEF CreateTable, TableCreated, routines
<1>3. ASSUME DropTable
      PROVE  TableDropped
  <2>1. StatementChecked /\ Here.op \in {"drop", "drop_if_exists"} /\ AtStatement
    BY <1>1, <1>3, StatementsAreChecked DEF StatementChecked, DropTable
  <2>2. Here.name \in Names \cup Routines /\ outcome = "running"
    BY <2>1, StatementHere DEF Targets
  <2>3. /\ tables_' = Without(tables_, Key(Here.name))
        /\ owned_tables_' = Freed(owned_tables_, Here.name)
        /\ outcome' \in {"running", "no_table"}
    BY <1>3, <2>2 DEF DropTable, DropOwnedTable, DropOwnedTableIfExists
  <2>4. UNCHANGED <<functions_, tvfs_, procedure_bodies, temp_table_names, temp_function_names>>
    BY <1>3 DEF DropTable, routines, temps
  <2> QED BY <2>1, <2>2, <2>3, <2>4 DEF TableDropped
<1> QED BY <1>2, <1>3

-----------------------------------------------------------------------------
(* Each action keeps the invariant.                                        *)

\* Where nothing moves, what was known stays known.
LEMMA QuietKeepsInv ==
  ASSUME CatalogInv, NothingMoves PROVE CatalogInv'
<1>1. TypeOK'
  BY DEF CatalogInv, TypeOK, NothingMoves
<1>2. FilesInTurn'
  BY DEF CatalogInv, FilesInTurn, NothingMoves
<1>3. NoEntryDangles' /\ OwnedTellsHistory'
  BY DEF CatalogInv, NoEntryDangles, OwnedTellsHistory, CreatesTemp, NothingMoves
<1>4. ASSUME outcome' \in {"starting", "running"}
      PROVE  outcome' = outcome /\ (ScriptIsOver' <=> ScriptIsOver)
  BY <1>4 DEF NothingMoves, ScriptIsOver
<1>5. PermanentFunctions' = PermanentFunctions /\ TempFunctionsHere' = TempFunctionsHere
  BY DEF NothingMoves, PermanentFunctions, TempFunctionsHere
<1>6. FunctionsTellNames'
  BY <1>4, <1>5 DEF CatalogInv, FunctionsTellNames, NothingMoves
<1>7. \A k \in Keys : /\ Unshadowed(k)' <=> Unshadowed(k)
                      /\ Touching(k)' = Touching(k)
                      /\ ToldByHistory(k)' <=> ToldByHistory(k)
  BY DEF NothingMoves, Unshadowed, Touching, ToldByHistory, InSchema
<1>8. TablesTellHistory'
  BY <1>4, <1>7 DEF CatalogInv, TablesTellHistory, NothingMoves
<1> QED BY <1>1, <1>2, <1>3, <1>6, <1>8 DEF CatalogInv

\* A table of the schema is added.
LEMMA AddTableKeepsInv ==
  ASSUME CatalogInv, AddTable PROVE CatalogInv'
<1>1. /\ outcome = "starting" /\ unloaded # << >> /\ unloaded' = Tail(unloaded)
      /\ UNCHANGED <<script, schema, unread, frames, owned_tables_, functions_, tvfs_,
                     procedure_bodies, temp_table_names, temp_function_names, checked>>
  BY DEF AddTable, Loading, input, routines, temps
<1>2. /\ schema \in Seq(Declaration) /\ unloaded \in Seq(Declaration) /\ Len(unloaded) <= Len(schema)
      /\ \A i \in DOMAIN unloaded : unloaded[i] = schema[Len(schema) - Len(unloaded) + i]
  BY DEF CatalogInv, TypeOK
<1>3. /\ Len(unloaded) \in Nat \ {0} /\ Len(schema) \in Nat
      /\ Entry = unloaded[1] /\ Entry \in Declaration
      /\ unloaded' \in Seq(Declaration) /\ Len(unloaded') = Len(unloaded) - 1
      /\ \A i \in DOMAIN unloaded' : i + 1 \in DOMAIN unloaded /\ unloaded'[i] = unloaded[i + 1]
  BY <1>1, <1>2 DEF Entry
<1> DEFINE e == (Len(schema) - Len(unloaded)) + 1
<1>4. e \in DOMAIN schema /\ Entry = schema[e]
  BY <1>2, <1>3
<1>5. \/ outcome' = "duplicate" /\ tables_' = tables_
      \/ outcome' = "starting" /\ tables_' = With(tables_, Lower[Entry.name], SchemaTable(Entry))
  BY <1>1 DEF AddTable
<1>6. Entry.name \in Names /\ Lower[Entry.name] \in Keys
  BY <1>3, CheckAssumption DEF Declaration
<1>7. TypeOK'
  <2>1. \A i \in DOMAIN unloaded' : unloaded'[i] = schema[Len(schema) - Len(unloaded') + i]
    <3> SUFFICES ASSUME NEW i \in DOMAIN unloaded'
                 PROVE  unloaded'[i] = schema[Len(schema) - Len(unloaded') + i]
      OBVIOUS
    <3>1. i \in Nat
      BY <1>3
    <3>2. Len(schema) - Len(unloaded) + (i + 1) = Len(schema) - Len(unloaded') + i
      BY <1>3, <3>1
    <3> QED BY <1>2, <1>3, <3>2
  <2>2. Len(unloaded') <= Len(schema')
    BY <1>1, <1>2, <1>3
  <2>3. DOMAIN tables_' \subseteq Keys
    BY <1>5, <1>6 DEF CatalogInv, TypeOK, With
  <2>4. outcome' \in Outcomes
    BY <1>5 DEF Outcomes
  <2> QED BY <1>1, <1>3, <2>1, <2>2, <2>3, <2>4 DEF CatalogInv, TypeOK
<1>8. FilesInTurn'
  BY <1>1 DEF CatalogInv, FilesInTurn
<1>9. NoEntryDangles'
  <2>1. SchemaTable(Entry).name = Entry.name /\ SchemaTable(Entry).made = 0
    BY DEF SchemaTable, Table
  <2>2. CASE tables_' = tables_
    BY <1>1, <2>2 DEF CatalogInv, NoEntryDangles
  <2>3. CASE tables_' = With(tables_, Lower[Entry.name], SchemaTable(Entry))
    <3> HIDE DEF e
    <3> SUFFICES ASSUME NEW k \in DOMAIN tables_'
                 PROVE  /\ Lower[tables_'[k].name] = k
                        /\ \/ tables_'[k].made = 0 /\ \E i \in DOMAIN schema : schema[i].name = tables_'[k].name
                           \/ \E i \in DOMAIN owned_tables_ : owned_tables_[i] = tables_'[k]
      BY <1>1 DEF NoEntryDangles
    <3>1. CASE k = Lower[Entry.name]
      BY <1>4, <2>1, <2>3, <3>1 DEF With
    <3>2. CASE k # Lower[Entry.name]
      <4>1. k \in DOMAIN tables_ /\ tables_'[k] = tables_[k]
        BY <2>3, <3>2 DEF With
      <4> QED BY <4>1 DEF CatalogInv, NoEntryDangles
    <3> QED BY <3>1, <3>2
  <2> QED BY <1>5, <2>2, <2>3
<1>10. OwnedTellsHistory'
  BY <1>1 DEF CatalogInv, OwnedTellsHistory, CreatesTemp
<1>11. FunctionsTellNames'
  <2>1. PermanentFunctions' = PermanentFunctions /\ TempFunctionsHere' = TempFunctionsHere
    BY <1>1 DEF PermanentFunctions, TempFunctionsHere
  <2>2. ~ScriptIsOver' /\ ~ScriptIsOver
    BY <1>1, <1>5 DEF ScriptIsOver
  <2> QED BY <1>1, <1>5, <2>1, <2>2 DEF CatalogInv, FunctionsTellNames
<1>12. TablesTellHistory'
  <2>1. CASE outcome' = "duplicate"
    BY <2>1 DEF TablesTellHistory
  <2>2. CASE outcome' = "starting" /\ tables_' = With(tables_, Lower[Entry.name], SchemaTable(Entry))
    <3>1. 1..(Len(schema) - Len(unloaded')) = 1..(Len(schema) - Len(unloaded)) \cup {e}
      BY <1>2, <1>3
    <3>2. DOMAIN tables_' = DOMAIN tables_ \cup {Lower[schema[e].name]}
      BY <1>4, <2>2 DEF With
    <3>3. DOMAIN tables_ = {Lower[schema[i].name] : i \in 1..(Len(schema) - Len(unloaded))}
      BY <1>1 DEF CatalogInv, TablesTellHistory
    <3> HIDE DEF e
    <3>4. DOMAIN tables_' = {Lower[schema[i].name] : i \in 1..(Len(schema) - Len(unloaded'))}
      BY <3>1, <3>2, <3>3
    <3> QED BY <1>1, <2>2, <3>4 DEF CatalogInv, TablesTellHistory
  <2> QED BY <1>5, <2>1, <2>2
<1> QED BY <1>7, <1>8, <1>9, <1>10, <1>11, <1>12 DEF CatalogInv

\* The schema is loaded: each of its tables is in the catalog.
LEMMA ConstructCatalogKeepsInv ==
  ASSUME CatalogInv, ConstructCatalog PROVE CatalogInv'
<1>1. /\ outcome = "starting"
      /\ UNCHANGED <<script, schema, unloaded, unread, frames, tables_, owned_tables_, functions_,
                     tvfs_, procedure_bodies, temp_table_names, temp_function_names, checked>>
      /\ outcome' = "error" \/ (unloaded = << >> /\ outcome' = "running")
  BY DEF ConstructCatalog, input, tables, routines, temps
<1>2. CASE outcome' = "error"
  <2>1. NothingMoves
    BY <1>1, <1>2 DEF NothingMoves, Outcomes
  <2> QED BY <2>1, QuietKeepsInv
<1>3. CASE unloaded = << >> /\ outcome' = "running"
  <2>1. TypeOK'
    BY <1>1, <1>3 DEF CatalogInv, TypeOK, Outcomes
  <2>2. FilesInTurn' /\ NoEntryDangles' /\ OwnedTellsHistory'
    BY <1>1 DEF CatalogInv, FilesInTurn, NoEntryDangles, OwnedTellsHistory, CreatesTemp
  <2>3. checked = << >> /\ DOMAIN tables_ = {Lower[schema[i].name] : i \in 1..Len(schema)}
    <3>1. Len(unloaded) = 0 /\ Len(schema) \in Nat
      BY <1>3 DEF CatalogInv, TypeOK
    <3>2. 1..(Len(schema) - Len(unloaded)) = 1..Len(schema)
      BY <3>1
    <3> QED BY <1>1, <3>2 DEF CatalogInv, TablesTellHistory
  <2>4. FunctionsTellNames'
    <3>1. PermanentFunctions' = PermanentFunctions /\ TempFunctionsHere' = TempFunctionsHere
      BY <1>1 DEF PermanentFunctions, TempFunctionsHere
    <3>2. ~ScriptIsOver
      BY <1>1 DEF ScriptIsOver
    <3> QED BY <1>1, <1>3, <3>1, <3>2 DEF CatalogInv, FunctionsTellNames
  <2>5. TablesTellHistory'
    <3>1. schema \in Seq(Declaration)
      BY DEF CatalogInv, TypeOK
    <3>2. \A k \in Keys : InSchema(k) <=> k \in DOMAIN tables_
      BY <2>3, <3>1 DEF InSchema
    <3>3. \A k \in Keys : Touching(k)' = {} /\ (InSchema(k)' <=> InSchema(k))
      BY <1>1, <2>3 DEF Touching, InSchema
    <3>4. \A k \in Keys : ToldByHistory(k)' <=> k \in DOMAIN tables_
      BY <3>2, <3>3 DEF ToldByHistory
    <3> QED BY <1>1, <1>3, <3>4 DEF TablesTellHistory
  <2> QED BY <2>1, <2>2, <2>4, <2>5 DEF CatalogInv
<1> QED BY <1>1, <1>2, <1>3

\* The next file of the plan is opened, about which nothing is known yet.
LEMMA OpenFileKeepsInv ==
  ASSUME CatalogInv, OpenFile PROVE CatalogInv'
<1>1. /\ outcome = "running" /\ frames = << >> /\ unread # << >>
      /\ UNCHANGED <<script, schema, unloaded, unread, tables_, owned_tables_, functions_, tvfs_,
                     procedure_bodies, temp_table_names, temp_function_names, checked, outcome>>
      /\ frames' = <<script[Head(unread)]>>
  BY DEF OpenFile, input, tables, routines, temps
<1>2. /\ unread \in Seq(Files) /\ Head(unread) = unread[1] /\ Head(unread) \in Files
      /\ 1 \in DOMAIN unread
  BY <1>1 DEF CatalogInv, TypeOK
<1>3. script[Head(unread)] \in Seq(Statement)
  BY <1>2 DEF CatalogInv, TypeOK
<1>4. frames' \in Seq(Seq(Statement)) /\ frames' # << >>
  BY <1>1, <1>3
<1>5. TypeOK'
  BY <1>1, <1>4 DEF CatalogInv, TypeOK
<1>6. \A i \in DOMAIN checked : checked[i].file # Head(unread)
  BY <1>1, <1>2 DEF CatalogInv, FilesInTurn
<1>7. FilesInTurn'
  BY <1>1, <1>4, <1>6 DEF CatalogInv, FilesInTurn
<1>8. NoEntryDangles' /\ OwnedTellsHistory'
  BY <1>1 DEF CatalogInv, NoEntryDangles, OwnedTellsHistory, CreatesTemp
<1>9. ~ScriptIsOver
  BY <1>1 DEF ScriptIsOver
<1>10. FunctionsTellNames'
  <2>1. PermanentFunctions' = PermanentFunctions
    BY <1>1 DEF PermanentFunctions
  <2>2. TempFunctionsHere' = {}
    BY <1>1, <1>6 DEF TempFunctionsHere
  <2>3. temp_function_names = << >>
    BY <1>1 DEF CatalogInv, FilesInTurn
  <2>4. DOMAIN temp_function_names = {}
    BY <2>3
  <2> QED BY <1>1, <2>1, <2>2, <2>4 DEF CatalogInv, FunctionsTellNames
<1>11. TablesTellHistory'
  <2>1. \A k \in Keys : /\ Unshadowed(k)' <=> Unshadowed(k)
                        /\ Touching(k)' = Touching(k)
                        /\ InSchema(k)' <=> InSchema(k)
    BY <1>1 DEF Unshadowed, Touching, InSchema
  <2>2. \A k \in Keys : ToldByHistory(k)' <=> ToldByHistory(k)
    <3>1. \A k \in Keys : Touching(k) \subseteq DOMAIN checked
      BY DEF Touching
    <3> QED BY <1>1, <1>6, <2>1, <3>1 DEF ToldByHistory
  <2> QED BY <1>1, <1>9, <2>1, <2>2 DEF CatalogInv, TablesTellHistory
<1> QED BY <1>5, <1>7, <1>8, <1>10, <1>11 DEF CatalogInv

\* The body of a procedure has been checked; its names stay the caller's.
LEMMA ReturnKeepsInv ==
  ASSUME CatalogInv, Return PROVE CatalogInv'
<1>1. /\ outcome = "running" /\ Len(frames) > 1 /\ frames' = Tail(frames)
      /\ UNCHANGED <<script, schema, unloaded, unread, tables_, owned_tables_, functions_, tvfs_,
                     procedure_bodies, temp_table_names, temp_function_names, checked, outcome>>
  BY DEF Return, input, tables, routines, temps
<1>2. frames \in Seq(Seq(Statement)) /\ frames # << >> /\ frames' # << >>
      /\ frames' \in Seq(Seq(Statement)) /\ ~ScriptIsOver
  <2>1. frames \in Seq(Seq(Statement))
    BY DEF CatalogInv, TypeOK
  <2>2. frames # << >> /\ frames' # << >> /\ frames' \in Seq(Seq(Statement))
    <3> DEFINE S == Seq(Statement)
    <3>1. frames \in Seq(S) /\ Len(frames) \in Nat
      BY <2>1
    <3> HIDE DEF S
    <3>2. frames # << >>
      BY <1>1, <3>1
    <3>3. frames' \in Seq(S) /\ Len(frames') = Len(frames) - 1
      BY <1>1, <3>1, <3>2, HeadTailProperties
    <3>4. Len(frames') > 0
      BY <1>1, <3>1, <3>3
    <3>5. frames' # << >>
      BY <3>4
    <3> QED BY <3>2, <3>3, <3>5 DEF S
  <2>3. frames # << << >> >>
    <3>1. Len(<< << >> >>) = 1
      OBVIOUS
    <3> QED BY <1>1, <3>1
  <2> QED BY <2>1, <2>2, <2>3 DEF ScriptIsOver
<1>3. TypeOK'
  BY <1>1, <1>2 DEF CatalogInv, TypeOK
<1>4. FilesInTurn' /\ NoEntryDangles' /\ OwnedTellsHistory'
  BY <1>1, <1>2 DEF CatalogInv, FilesInTurn, NoEntryDangles, OwnedTellsHistory, CreatesTemp
<1>5. FunctionsTellNames'
  <2>1. PermanentFunctions' = PermanentFunctions /\ TempFunctionsHere' = TempFunctionsHere
    BY <1>1 DEF PermanentFunctions, TempFunctionsHere
  <2> QED BY <1>1, <1>2, <2>1 DEF CatalogInv, FunctionsTellNames
<1>6. TablesTellHistory'
  <2>1. \A k \in Keys : /\ Unshadowed(k)' <=> Unshadowed(k)
                        /\ Touching(k)' = Touching(k)
                        /\ ToldByHistory(k)' <=> ToldByHistory(k)
    BY <1>1, <1>2 DEF Unshadowed, Touching, ToldByHistory, InSchema
  <2> QED BY <1>1, <1>2, <2>1 DEF CatalogInv, TablesTellHistory
<1> QED BY <1>3, <1>4, <1>5, <1>6 DEF CatalogInv

\* A temporary function is removed; it is in the catalog, and no other name of
\* those to be removed is its name.
LEMMA RemoveTempFunctionKeepsInv ==
  ASSUME CatalogInv, RemoveTempFunction PROVE CatalogInv' /\ outcome' = "running"
<1> DEFINE name == Head(temp_function_names)
           temporary == {temp_function_names[i] : i \in DOMAIN temp_function_names}
<1>1. /\ ScriptIsOver /\ outcome = "running" /\ frames # << >>
      /\ temp_function_names # << >> /\ temp_function_names' = Tail(temp_function_names)
      /\ functions_' = functions_ \ {name}
      /\ outcome' = IF name \in functions_ THEN outcome ELSE "no_function"
      /\ UNCHANGED <<script, schema, unloaded, unread, frames, tables_, owned_tables_, tvfs_,
                     procedure_bodies, temp_table_names, checked>>
  BY DEF RemoveTempFunction, DropOwnedFunction, ScriptIsOver, input, tables
<1>2. /\ temp_function_names \in Seq(Routines) /\ name = temp_function_names[1]
      /\ 1 \in DOMAIN temp_function_names
      /\ DOMAIN temp_function_names = 1..Len(temp_function_names)
      /\ Len(temp_function_names) \in Nat
  BY <1>1 DEF CatalogInv, TypeOK
<1>3. /\ temp_function_names' \in Seq(Routines)
      /\ \A i \in DOMAIN temp_function_names' :
           i + 1 \in DOMAIN temp_function_names /\ temp_function_names'[i] = temp_function_names[i + 1]
      /\ \A i \in DOMAIN temp_function_names : i # 1 =>
           i - 1 \in DOMAIN temp_function_names' /\ temp_function_names'[i - 1] = temp_function_names[i]
      /\ \A i \in DOMAIN temp_function_names' : i \in Nat \ {0}
  BY <1>1, <1>2
<1>4. /\ functions_ = PermanentFunctions \cup temporary
      /\ PermanentFunctions \cap temporary = {}
      /\ \A i, j \in DOMAIN temp_function_names :
           temp_function_names[i] = temp_function_names[j] => i = j
  BY <1>1 DEF CatalogInv, FunctionsTellNames
<1>5. outcome' = "running"
  BY <1>1, <1>2, <1>4
<1>6. TypeOK'
  BY <1>1, <1>3, <1>5 DEF CatalogInv, TypeOK
<1>7. FilesInTurn' /\ NoEntryDangles' /\ OwnedTellsHistory'
  BY <1>1 DEF CatalogInv, FilesInTurn, NoEntryDangles, OwnedTellsHistory, CreatesTemp
<1>8. ScriptIsOver'
  BY <1>1, <1>5 DEF ScriptIsOver
<1>9. FunctionsTellNames'
  <2>1. PermanentFunctions' = PermanentFunctions
    BY <1>1 DEF PermanentFunctions
  <2>2. temporary' = temporary \ {name}
    <3>1. ASSUME NEW i \in DOMAIN temp_function_names'
          PROVE  temp_function_names'[i] \in temporary \ {name}
      <4>1. i + 1 # 1
        BY <1>3
      <4> QED BY <1>2, <1>3, <1>4, <4>1
    <3>2. ASSUME NEW f \in temporary \ {name}
          PROVE  \E i \in DOMAIN temp_function_names' : f = temp_function_names'[i]
      <4>1. PICK i \in DOMAIN temp_function_names : f = temp_function_names[i]
        OBVIOUS
      <4> QED BY <1>2, <1>3, <4>1
    <3> QED BY <3>1, <3>2
  <2>3. name \in temporary
    BY <1>2
  <2>4. functions_' = PermanentFunctions' \cup temporary' /\ PermanentFunctions' \cap temporary' = {}
    BY <1>1, <1>4, <2>1, <2>2, <2>3
  <2>5. \A i, j \in DOMAIN temp_function_names' :
          temp_function_names'[i] = temp_function_names'[j] => i = j
    <3> SUFFICES ASSUME NEW i \in DOMAIN temp_function_names', NEW j \in DOMAIN temp_function_names',
                        temp_function_names'[i] = temp_function_names'[j]
                 PROVE  i = j
      OBVIOUS
    <3>1. i + 1 = j + 1
      BY <1>3, <1>4
    <3>2. i \in Nat /\ j \in Nat
      BY <1>3
    <3> QED BY <3>1, <3>2
  <2> QED BY <1>8, <2>4, <2>5 DEF FunctionsTellNames
<1>10. TablesTellHistory'
  <2>1. \A k \in Keys : /\ Unshadowed(k)' <=> Unshadowed(k)
                        /\ Touching(k)' = Touching(k)
                        /\ ToldByHistory(k)' <=> ToldByHistory(k)
    BY <1>1 DEF Unshadowed, Touching, ToldByHistory, InSchema
  <2> QED BY <1>1, <1>5, <1>8, <2>1 DEF CatalogInv, TablesTellHistory
<1> QED BY <1>5, <1>6, <1>7, <1>9, <1>10 DEF CatalogInv

\* A temporary table is removed, with whatever the catalog has under its key.
LEMMA RemoveTempTableKeepsInv ==
  ASSUME CatalogInv, RemoveTempTable PROVE CatalogInv'
<1> DEFINE name == Head(temp_table_names)
<1>1. /\ ScriptIsOver /\ outcome = "running" /\ frames # << >>
      /\ temp_table_names # << >> /\ temp_table_names' = Tail(temp_table_names)
      /\ tables_' = Without(tables_, Key(name))
      /\ owned_tables_' = Freed(owned_tables_, name)
      /\ UNCHANGED <<script, schema, unloaded, unread, frames, functions_, tvfs_,
                     procedure_bodies, temp_function_names, checked, outcome>>
  BY DEF RemoveTempTable, DropOwnedTableIfExists, ScriptIsOver, input, routines
<1>2. /\ temp_table_names \in Seq(Names) /\ name = temp_table_names[1] /\ name \in Names
      /\ 1 \in DOMAIN temp_table_names
      /\ DOMAIN temp_table_names = 1..Len(temp_table_names) /\ Len(temp_table_names) \in Nat
  BY <1>1 DEF CatalogInv, TypeOK
<1>3. /\ temp_table_names' \in Seq(Names)
      /\ \A i \in DOMAIN temp_table_names' :
           i + 1 \in DOMAIN temp_table_names /\ temp_table_names'[i] = temp_table_names[i + 1]
      /\ \A i \in DOMAIN temp_table_names : i # 1 =>
           i - 1 \in DOMAIN temp_table_names' /\ temp_table_names'[i - 1] = temp_table_names[i]
  BY <1>1, <1>2
<1>4. Key(name) = Lower[name] /\ Lower[name] \in Keys
  BY <1>2, CheckAssumption DEF Key
<1>5. owned_tables_ \in Seq(OwnedTable) /\ NamesAreUnique(owned_tables_)
  BY DEF CatalogInv, TypeOK, OwnedTellsHistory, NamesAreUnique
<1>6. /\ owned_tables_' \in Seq(OwnedTable) /\ NamesAreUnique(owned_tables_')
      /\ \A i \in DOMAIN owned_tables_' :
           owned_tables_'[i].name # name /\ \E j \in DOMAIN owned_tables_ : owned_tables_'[i] = owned_tables_[j]
      /\ \A j \in DOMAIN owned_tables_ :
           owned_tables_[j].name # name => \E i \in DOMAIN owned_tables_' : owned_tables_'[i] = owned_tables_[j]
  BY <1>1, <1>5, FreedTables
<1>7. DOMAIN tables_' = DOMAIN tables_ \ {Lower[name]} /\ \A k \in DOMAIN tables_' : tables_'[k] = tables_[k]
  BY <1>1, <1>4 DEF Without
<1>8. TypeOK'
  BY <1>1, <1>3, <1>6, <1>7 DEF CatalogInv, TypeOK
<1>9. FilesInTurn'
  BY <1>1 DEF CatalogInv, FilesInTurn
<1>10. NoEntryDangles'
  <2> SUFFICES ASSUME NEW k \in DOMAIN tables_'
               PROVE  /\ Lower[tables_[k].name] = k
                      /\ \/ tables_[k].made = 0 /\ \E i \in DOMAIN schema : schema[i].name = tables_[k].name
                         \/ \E i \in DOMAIN owned_tables_' : owned_tables_'[i] = tables_[k]
    BY <1>1, <1>7 DEF NoEntryDangles
  <2>1. k \in DOMAIN tables_ /\ k # Lower[name]
    BY <1>7
  <2>2. /\ Lower[tables_[k].name] = k
        /\ \/ tables_[k].made = 0 /\ \E i \in DOMAIN schema : schema[i].name = tables_[k].name
           \/ \E i \in DOMAIN owned_tables_ : owned_tables_[i] = tables_[k]
    BY <2>1 DEF CatalogInv, NoEntryDangles
  <2>3. tables_[k].name # name
    BY <2>1, <2>2
  <2> QED BY <1>6, <2>2, <2>3
<1>11. OwnedTellsHistory'
  <2>1. ASSUME NEW i \in DOMAIN owned_tables_'
        PROVE  LET table == owned_tables_'[i] IN
                 /\ table.made \in DOMAIN checked
                 /\ checked[table.made].stmt.op = "create"
                 /\ checked[table.made].stmt.name = table.name
                 /\ checked[table.made].stmt.temp = table.temp
                 /\ table.temp => \E j \in DOMAIN temp_table_names' : temp_table_names'[j] = table.name
    <3>1. PICK j \in DOMAIN owned_tables_ : owned_tables_'[i] = owned_tables_[j]
      BY <1>6
    <3>2. owned_tables_'[i].name # name
      BY <1>6
    <3>3. ASSUME owned_tables_[j].temp
          PROVE  \E m \in DOMAIN temp_table_names' : temp_table_names'[m] = owned_tables_[j].name
      <4>1. PICK m \in DOMAIN temp_table_names : temp_table_names[m] = owned_tables_[j].name
        BY <3>3 DEF CatalogInv, OwnedTellsHistory
      <4>2. m # 1
        BY <1>2, <3>1, <3>2, <4>1
      <4> QED BY <1>3, <4>1, <4>2
    <3> QED BY <3>1, <3>3 DEF CatalogInv, OwnedTellsHistory
  <2>2. \A j \in DOMAIN temp_table_names' : \E i \in DOMAIN checked : CreatesTemp(i, temp_table_names'[j])
    BY <1>3 DEF CatalogInv, OwnedTellsHistory
  <2>3. \A j \in DOMAIN temp_table_names' : \E i \in DOMAIN checked' :
          /\ checked'[i].stmt.op = "create" /\ checked'[i].stmt.temp
          /\ checked'[i].stmt.name = temp_table_names'[j]
    BY <1>1, <2>2 DEF CreatesTemp
  <2> QED BY <1>1, <1>6, <2>1, <2>3 DEF OwnedTellsHistory, CreatesTemp, NamesAreUnique
<1>12. FunctionsTellNames'
  <2>1. PermanentFunctions' = PermanentFunctions /\ TempFunctionsHere' = TempFunctionsHere
    BY <1>1 DEF PermanentFunctions, TempFunctionsHere
  <2>2. ScriptIsOver'
    BY <1>1 DEF ScriptIsOver
  <2> QED BY <1>1, <2>1, <2>2 DEF CatalogInv, FunctionsTellNames
<1>13. TablesTellHistory'
  <2>1. \A k \in Keys : /\ Unshadowed(k)' <=> Unshadowed(k)
                        /\ Touching(k)' = Touching(k)
                        /\ ToldByHistory(k)' <=> ToldByHistory(k)
    BY <1>1 DEF Unshadowed, Touching, ToldByHistory, InSchema
  <2>2. ScriptIsOver'
    BY <1>1 DEF ScriptIsOver
  <2>3. \E i \in Touching(Lower[name]) : checked[i].stmt.temp
    <3>1. PICK i \in DOMAIN checked : CreatesTemp(i, name)
      BY <1>2 DEF CatalogInv, OwnedTellsHistory
    <3> QED BY <1>4, <3>1 DEF CreatesTemp, Touching
  <2>4. ASSUME NEW k \in Keys, Unshadowed(k), ToldByHistory(k), \A i \in Touching(k) : ~checked[i].stmt.temp
        PROVE  k \in DOMAIN tables_'
    <3>1. k # Lower[name]
      BY <2>3, <2>4
    <3>2. k \in DOMAIN tables_
      BY <1>1, <2>4 DEF CatalogInv, TablesTellHistory
    <3> QED BY <1>7, <3>1, <3>2
  <2>5. \A k \in Keys : Unshadowed(k) /\ k \in DOMAIN tables_' => ToldByHistory(k)
    BY <1>1, <1>7 DEF CatalogInv, TablesTellHistory
  <2> QED BY <1>1, <2>1, <2>2, <2>4, <2>5 DEF TablesTellHistory
<1> QED BY <1>8, <1>9, <1>10, <1>11, <1>12, <1>13 DEF CatalogInv

\* The file is done: no temporary table is left, and the next file is another.
LEMMA CloseFileKeepsInv ==
  ASSUME CatalogInv, CloseFile PROVE CatalogInv'
<1>1. /\ ScriptIsOver /\ outcome = "running" /\ frames # << >> /\ frames' = << >>
      /\ temp_table_names = << >> /\ temp_function_names = << >>
      /\ unread' = Tail(unread)
      /\ UNCHANGED <<script, schema, unloaded, tables_, owned_tables_, functions_, tvfs_,
                     procedure_bodies, temp_table_names, temp_function_names, checked, outcome>>
  BY DEF CloseFile, ScriptIsOver, input, tables, routines, temps
<1>2. unread # << >> /\ unread \in Seq(Files)
  BY <1>1 DEF CatalogInv, FilesInTurn, TypeOK
<1>3. /\ unread' \in Seq(Files)
      /\ \A i \in DOMAIN unread' : i \in Nat \ {0} /\ i + 1 \in DOMAIN unread /\ unread'[i] = unread[i + 1]
  BY <1>1, <1>2
<1>4. TypeOK'
  <2>1. frames' \in Seq(Seq(Statement))
    BY <1>1
  <2> QED BY <1>1, <1>3, <2>1 DEF CatalogInv, TypeOK
<1>5. FilesInTurn'
  <2>1. ASSUME NEW i \in DOMAIN unread', NEW j \in DOMAIN unread', unread'[i] = unread'[j]
        PROVE  i = j
    <3>1. i + 1 = j + 1
      BY <1>3, <2>1 DEF CatalogInv, FilesInTurn
    <3> QED BY <1>3, <3>1
  <2>2. \A i \in DOMAIN checked : \A j \in DOMAIN unread' : checked[i].file # unread'[j]
    <3> SUFFICES ASSUME NEW i \in DOMAIN checked, NEW j \in DOMAIN unread', checked[i].file = unread'[j]
                 PROVE  FALSE
      OBVIOUS
    <3>1. j + 1 = 1
      BY <1>3 DEF CatalogInv, FilesInTurn
    <3> QED BY <1>3, <3>1
  <2> QED BY <1>1, <2>1, <2>2 DEF FilesInTurn
<1>6. NoEntryDangles' /\ OwnedTellsHistory'
  BY <1>1 DEF CatalogInv, NoEntryDangles, OwnedTellsHistory, CreatesTemp
<1>7. FunctionsTellNames'
  <2>1. PermanentFunctions' = PermanentFunctions
    BY <1>1 DEF PermanentFunctions
  <2> QED BY <1>1, <2>1 DEF CatalogInv, FunctionsTellNames
<1>8. TablesTellHistory'
  <2>1. \A k \in Keys : /\ Unshadowed(k)' <=> Unshadowed(k)
                        /\ Touching(k)' = Touching(k)
                        /\ InSchema(k)' <=> InSchema(k)
    BY <1>1 DEF Unshadowed, Touching, InSchema
  <2>2. ~ScriptIsOver'
    BY <1>1 DEF ScriptIsOver
  <2>3. \A k \in Keys : ToldByHistory(k)' <=>
          \/ Touching(k) = {} /\ InSchema(k)
          \/ \E i \in Touching(k) :
               /\ \A j \in Touching(k) : j <= i
               /\ checked[i].stmt.op = "create" /\ ~checked[i].stmt.temp
    <3>1. \A k \in Keys : \A i \in Touching(k) : checked[i].stmt.temp \in BOOLEAN
      <4>1. checked \in Seq([file : Files, stmt : Statement])
        BY DEF CatalogInv, TypeOK
      <4>2. \A i \in DOMAIN checked : checked[i] \in [file : Files, stmt : Statement]
        <5> DEFINE R == [file : Files, stmt : Statement]
        <5>1. checked \in Seq(R)
          BY <4>1
        <5> HIDE DEF R
        <5>2. \A i \in DOMAIN checked : checked[i] \in R
          BY <5>1
        <5> QED BY <5>2 DEF R
      <4> QED BY <4>2 DEF Touching, Statement
    <3> QED BY <1>1, <2>1, <3>1 DEF ToldByHistory
  <2>4. ASSUME NEW k \in Keys, Unshadowed(k), k \in DOMAIN tables_
        PROVE  ToldByHistory(k)'
    <3>1. ToldByHistory(k)
      BY <1>1, <2>4 DEF CatalogInv, TablesTellHistory
    <3>2. CASE Touching(k) = {} /\ InSchema(k)
      BY <2>3, <3>2
    <3>3. ASSUME NEW i \in Touching(k), \A j \in Touching(k) : j <= i, checked[i].stmt.op = "create",
                 checked[i].stmt.temp
          PROVE  FALSE
      <4>1. ~InSchema(k) /\ \A j \in Touching(k) : checked[j].stmt.op = "create" => checked[j].stmt.temp
        BY <2>4, <3>3 DEF Unshadowed
      <4>2. PICK o \in DOMAIN owned_tables_ : owned_tables_[o] = tables_[k] /\ Lower[tables_[k].name] = k
        BY <2>4, <4>1 DEF CatalogInv, NoEntryDangles, InSchema
      <4>3. LET table == owned_tables_[o] IN
              /\ table.made \in DOMAIN checked
              /\ checked[table.made].stmt.op = "create"
              /\ checked[table.made].stmt.name = table.name
              /\ checked[table.made].stmt.temp = table.temp
        BY DEF CatalogInv, OwnedTellsHistory
      <4>4. owned_tables_[o].name \in Names
        <5>1. owned_tables_[o] \in OwnedTable
          BY DEF CatalogInv, TypeOK
        <5> QED BY <5>1 DEF OwnedTable
      <4>5. owned_tables_[o].made \in Touching(k)
        BY <4>2, <4>3, <4>4 DEF Touching, Key
      <4>6. owned_tables_[o].temp
        BY <4>1, <4>3, <4>5
      <4>7. \E j \in DOMAIN temp_table_names : temp_table_names[j] = owned_tables_[o].name
        BY <4>6 DEF CatalogInv, OwnedTellsHistory
      <4> QED BY <1>1, <4>7
    <3> QED BY <2>3, <3>1, <3>2, <3>3 DEF ToldByHistory
  <2>5. ASSUME NEW k \in Keys, Unshadowed(k), ToldByHistory(k)'
        PROVE  k \in DOMAIN tables_
    <3>1. ToldByHistory(k)
      BY <2>3, <2>5 DEF ToldByHistory
    <3>2. \A i \in Touching(k) : ~checked[i].stmt.temp
      BY <2>3, <2>5 DEF Unshadowed
    <3> QED BY <1>1, <2>5, <3>1, <3>2 DEF CatalogInv, TablesTellHistory
  <2> QED BY <1>1, <2>1, <2>4, <2>5 DEF TablesTellHistory
<1> QED BY <1>4, <1>5, <1>6, <1>7, <1>8 DEF CatalogInv

-----------------------------------------------------------------------------
(* Each statement keeps it.                                                *)

\* A statement is a statement of the current file, which is in its turn.
LEMMA StatementInTurn ==
  ASSUME CatalogInv, StatementChecked
  PROVE  FilesInTurn'
<1>1. /\ DOMAIN checked' = DOMAIN checked \cup {Latest}
      /\ \A i \in DOMAIN checked : checked'[i] = checked[i]
      /\ checked'[Latest].file = Head(unread)
  BY HistoryGrows
<1>2. AtStatement /\ unread' = unread /\ frames' # << >>
  BY DEF StatementChecked
<1>3. frames # << >> /\ unread # << >> /\ Head(unread) = unread[1] /\ 1 \in DOMAIN unread
  <2>1. frames # << >> /\ unread # << >> /\ unread \in Seq(Files)
    BY <1>2, StatementHere
  <2> QED BY <2>1
<1>4. ASSUME NEW i \in DOMAIN checked', NEW j \in DOMAIN unread', checked'[i].file = unread'[j]
      PROVE  j = 1
  <2>1. CASE i \in DOMAIN checked
    BY <1>1, <1>2, <1>4, <2>1 DEF CatalogInv, FilesInTurn
  <2>2. CASE i = Latest
    BY <1>1, <1>2, <1>3, <1>4, <2>2 DEF CatalogInv, FilesInTurn
  <2> QED BY <1>1, <2>1, <2>2
<1>5. \A i, j \in DOMAIN unread' : unread'[i] = unread'[j] => i = j
  BY <1>2 DEF CatalogInv, FilesInTurn
<1> QED BY <1>2, <1>3, <1>4, <1>5 DEF FilesInTurn

\* What the history says of functions changes with CREATE FUNCTION only.
LEMMA FunctionHistory ==
  ASSUME CatalogInv, StatementChecked
  PROVE  /\ Here.op # "create_function" \/ Here.temp =>
              PermanentFunctions' = PermanentFunctions
         /\ Here.op = "create_function" /\ ~Here.temp =>
              PermanentFunctions' = PermanentFunctions \cup {Here.name}
         /\ Here.op # "create_function" \/ ~Here.temp =>
              TempFunctionsHere' = TempFunctionsHere
         /\ Here.op = "create_function" /\ Here.temp =>
              TempFunctionsHere' = TempFunctionsHere \cup {Here.name}
<1>1. /\ DOMAIN checked' = DOMAIN checked \cup {Latest}
      /\ \A i \in DOMAIN checked : checked'[i] = checked[i]
      /\ checked'[Latest].file = Head(unread) /\ checked'[Latest].stmt = Here
  BY HistoryGrows
<1>2. unread' = unread
  BY DEF StatementChecked
<1>3. Here.op = "create_function" => Here.name \in Routines
  BY StatementHere DEF StatementChecked, Targets
<1>4. PermanentFunctions' =
        {f \in Routines :
           \/ f \in PermanentFunctions
           \/ Here.op = "create_function" /\ ~Here.temp /\ Here.name = f}
  BY <1>1 DEF PermanentFunctions
<1>5. TempFunctionsHere' =
        {f \in Routines :
           \/ f \in TempFunctionsHere
           \/ Here.op = "create_function" /\ Here.temp /\ Here.name = f}
  BY <1>1, <1>2 DEF TempFunctionsHere
<1>6. PermanentFunctions \subseteq Routines /\ TempFunctionsHere \subseteq Routines
  BY DEF PermanentFunctions, TempFunctionsHere
<1> QED BY <1>3, <1>4, <1>5, <1>6

About(k) == Here.op \in {"create", "drop", "drop_if_exists"} /\ Key(Here.name) = k

\* What it says of the tables under k changes with the statements about k only.
LEMMA TableHistory ==
  ASSUME CatalogInv, StatementChecked, NEW k \in Keys
  PROVE  /\ Touching(k) \subseteq DOMAIN checked
         /\ InSchema(k)' <=> InSchema(k)
         /\ About(k) => Touching(k)' = Touching(k) \cup {Latest}
         /\ ~About(k) => /\ Touching(k)' = Touching(k)
                         /\ Unshadowed(k)' <=> Unshadowed(k)
                         /\ ToldByHistory(k)' <=> ToldByHistory(k)
<1>1. /\ DOMAIN checked' = DOMAIN checked \cup {Latest}
      /\ \A i \in DOMAIN checked : checked'[i] = checked[i]
      /\ checked'[Latest].stmt = Here
  BY HistoryGrows
<1>2. unread' = unread /\ schema' = schema /\ frames # << >> /\ frames' # << >>
  BY StatementHere DEF StatementChecked
<1>3. Touching(k) \subseteq DOMAIN checked
  BY DEF Touching
<1>4. InSchema(k)' <=> InSchema(k)
  BY <1>2 DEF InSchema
<1>5. Touching(k)' = {i \in DOMAIN checked \cup {Latest} : i \in Touching(k) \/ (i = Latest /\ About(k))}
  BY <1>1 DEF Touching, About
<1>6. About(k) => Touching(k)' = Touching(k) \cup {Latest}
  BY <1>3, <1>5
<1>7. ASSUME ~About(k)
      PROVE  /\ Touching(k)' = Touching(k)
             /\ Unshadowed(k)' <=> Unshadowed(k)
             /\ ToldByHistory(k)' <=> ToldByHistory(k)
  <2>1. Touching(k)' = Touching(k)
    BY <1>3, <1>5, <1>7
  <2>2. \A i \in Touching(k) : checked'[i] = checked[i]
    BY <1>1, <1>3
  <2> QED BY <1>2, <1>4, <2>1, <2>2 DEF Unshadowed, ToldByHistory
<1> QED BY <1>3, <1>4, <1>6, <1>7

\* While a file is checked, the temporary functions are those of its statements.
LEMMA FunctionsKeepNames ==
  ASSUME CatalogInv, StatementChecked, FunctionsGoOn, outcome' # "starting"
  PROVE  FunctionsTellNames'
<1> DEFINE temporary == {temp_function_names[i] : i \in DOMAIN temp_function_names}
<1>1. outcome = "running" /\ ~ScriptIsOver /\ frames # << >> /\ Here \in Statement
  BY StatementHere DEF StatementChecked
<1>2. Here.temp \in BOOLEAN
  BY <1>1 DEF Statement
<1>3. /\ functions_ = PermanentFunctions \cup temporary
      /\ PermanentFunctions \cap temporary = {}
      /\ \A i, j \in DOMAIN temp_function_names :
           temp_function_names[i] = temp_function_names[j] => i = j
      /\ temporary = TempFunctionsHere
  BY <1>1 DEF CatalogInv, FunctionsTellNames
<1>4. temp_function_names \in Seq(Routines)
  BY DEF CatalogInv, TypeOK
<1>5. CASE Here.op # "create_function"
  <2>1. UNCHANGED <<functions_, temp_function_names>>
    BY <1>5 DEF FunctionsGoOn
  <2>2. PermanentFunctions' = PermanentFunctions /\ TempFunctionsHere' = TempFunctionsHere
    BY <1>5, FunctionHistory
  <2> QED BY <1>3, <2>1, <2>2 DEF FunctionsTellNames
<1>6. CASE Here.op = "create_function" /\ Here.name \in functions_
  <2>1. outcome' = "duplicate"
    BY <1>6 DEF FunctionsGoOn
  <2> QED BY <2>1 DEF FunctionsTellNames
<1>7. CASE Here.op = "create_function" /\ Here.name \notin functions_ /\ ~Here.temp
  <2>1. functions_' = functions_ \cup {Here.name} /\ temp_function_names' = temp_function_names
    BY <1>7 DEF FunctionsGoOn
  <2>2. /\ PermanentFunctions' = PermanentFunctions \cup {Here.name}
        /\ TempFunctionsHere' = TempFunctionsHere
    BY <1>7, FunctionHistory
  <2>3. temporary' = temporary
    BY <2>1
  <2> HIDE DEF temporary
  <2>4. /\ functions_' = PermanentFunctions' \cup temporary'
        /\ PermanentFunctions' \cap temporary' = {}
        /\ temporary' = TempFunctionsHere'
    BY <1>3, <1>7, <2>1, <2>2, <2>3
  <2> QED BY <1>3, <2>1, <2>4 DEF FunctionsTellNames, temporary
<1>8. CASE Here.op = "create_function" /\ Here.name \notin functions_ /\ Here.temp
  <2>1. /\ functions_' = functions_ \cup {Here.name} /\ Here.name \in Routines
        /\ temp_function_names' = Append(temp_function_names, Here.name)
    BY <1>8 DEF FunctionsGoOn
  <2>2. /\ PermanentFunctions' = PermanentFunctions
        /\ TempFunctionsHere' = TempFunctionsHere \cup {Here.name}
    BY <1>8, FunctionHistory
  <2> DEFINE last == Len(temp_function_names) + 1
  <2>3. /\ DOMAIN temp_function_names' = DOMAIN temp_function_names \cup {last}
        /\ \A i \in DOMAIN temp_function_names : temp_function_names'[i] = temp_function_names[i]
        /\ temp_function_names'[last] = Here.name
    <3> DEFINE name == Here.name
    <3>1. name \in Routines /\ temp_function_names' = Append(temp_function_names, name)
      BY <2>1
    <3> HIDE DEF name
    <3>2. /\ Len(temp_function_names) \in Nat
          /\ DOMAIN temp_function_names = 1..Len(temp_function_names)
          /\ DOMAIN temp_function_names' = 1..last
          /\ \A i \in 1..Len(temp_function_names) : temp_function_names'[i] = temp_function_names[i]
          /\ temp_function_names'[last] = name
      BY <1>4, <3>1
    <3>3. 1..last = 1..Len(temp_function_names) \cup {last}
      BY <3>2
    <3> QED BY <3>2, <3>3 DEF name
  <2> HIDE DEF last
  <2>4. temporary' = temporary \cup {Here.name}
    BY <2>3
  <2>5. \A i \in DOMAIN temp_function_names : temp_function_names[i] # Here.name
    BY <1>3, <1>8
  <2>6. \A i, j \in DOMAIN temp_function_names' :
          temp_function_names'[i] = temp_function_names'[j] => i = j
    BY <1>3, <2>3, <2>5
  <2> HIDE DEF temporary
  <2>7. /\ functions_' = PermanentFunctions' \cup temporary'
        /\ PermanentFunctions' \cap temporary' = {}
        /\ temporary' = TempFunctionsHere'
    BY <1>3, <1>8, <2>1, <2>2, <2>4
  <2> QED BY <2>6, <2>7 DEF FunctionsTellNames, temporary
<1> QED BY <1>2, <1>5, <1>6, <1>7, <1>8

\* A statement that is not about tables leaves what is told of them.
LEMMA UntouchedKeepsInv ==
  ASSUME CatalogInv, TablesUntouched, FunctionsGoOn PROVE CatalogInv'
<1>1. /\ outcome = "running" /\ ~ScriptIsOver /\ frames # << >>
      /\ StatementChecked /\ outcome' # "starting"
      /\ UNCHANGED <<script, schema, unloaded, unread, tables_, owned_tables_, temp_table_names>>
      /\ frames' # << >>
  BY StatementHere DEF TablesUntouched, StatementChecked
<1>2. /\ checked' \in Seq([file : Files, stmt : Statement])
      /\ DOMAIN checked \subseteq DOMAIN checked'
      /\ \A i \in DOMAIN checked : checked'[i] = checked[i]
  BY <1>1, HistoryGrows
<1>3. TypeOK'
  BY <1>1, <1>2 DEF CatalogInv, TypeOK, TablesUntouched, StatementChecked
<1>4. FilesInTurn' /\ FunctionsTellNames'
  BY <1>1, StatementInTurn, FunctionsKeepNames
<1>5. NoEntryDangles' /\ OwnedTellsHistory'
  BY <1>1, <1>2 DEF CatalogInv, NoEntryDangles, OwnedTellsHistory, CreatesTemp
<1>6. TablesTellHistory'
  <2>1. \A k \in Keys : /\ Unshadowed(k)' <=> Unshadowed(k)
                        /\ Touching(k)' = Touching(k)
                        /\ ToldByHistory(k)' <=> ToldByHistory(k)
    BY <1>1, TableHistory DEF TablesUntouched, About
  <2> QED BY <1>1, <2>1 DEF CatalogInv, TablesTellHistory
<1> QED BY <1>3, <1>4, <1>5, <1>6 DEF CatalogInv

\* A sequence with one more element.
LEMMA Appended ==
  ASSUME NEW S, NEW s \in Seq(S), NEW e \in S
  PROVE  /\ Append(s, e) \in Seq(S)
         /\ DOMAIN Append(s, e) = DOMAIN s \cup {Len(s) + 1}
         /\ \A i \in DOMAIN s : Append(s, e)[i] = s[i] /\ i # Len(s) + 1
         /\ Append(s, e)[Len(s) + 1] = e
<1>1. /\ Append(s, e) \in Seq(S) /\ Len(s) \in Nat
      /\ DOMAIN s = 1..Len(s) /\ DOMAIN Append(s, e) = 1..(Len(s) + 1)
      /\ \A i \in 1..Len(s) : Append(s, e)[i] = s[i] /\ i # Len(s) + 1
      /\ Append(s, e)[Len(s) + 1] = e
  OBVIOUS
<1>2. 1..(Len(s) + 1) = 1..Len(s) \cup {Len(s) + 1}
  BY <1>1
<1> QED BY <1>1, <1>2

\* CREATE TABLE makes its table the one that is found under its key, and frees
\* the one that it replaces.
LEMMA CreatedKeepsInv ==
  ASSUME CatalogInv, TableCreated PROVE CatalogInv'
<1> DEFINE name == Here.name
           table == Table(name, Here.temp, Latest)
           freed == Freed(owned_tables_, name)
           last == Len(freed) + 1
<1>1. /\ outcome = "running" /\ outcome' = "running" /\ ~ScriptIsOver /\ frames # << >>
      /\ StatementChecked /\ frames' # << >> /\ frames' \in Seq(Seq(Statement))
      /\ UNCHANGED <<script, schema, unloaded, unread, functions_, tvfs_, procedure_bodies,
                     temp_function_names>>
      /\ Here.op = "create" /\ name \in Names /\ Here.temp \in BOOLEAN
      /\ temp_table_names' = IF Here.temp THEN Append(temp_table_names, name) ELSE temp_table_names
  BY StatementHere DEF TableCreated, StatementChecked
<1>2. /\ tables_' = With(tables_, Lower[name], table)
      /\ owned_tables_' = Append(freed, table)
  BY DEF TableCreated, Latest
<1>3. /\ Latest \in Nat /\ checked' \in Seq([file : Files, stmt : Statement])
      /\ DOMAIN checked' = DOMAIN checked \cup {Latest}
      /\ \A i \in DOMAIN checked : i < Latest /\ checked'[i] = checked[i]
      /\ checked'[Latest] = [file |-> Head(unread), stmt |-> Here]
  BY <1>1, HistoryGrows
<1>4. Lower[name] \in Keys /\ Key(name) = Lower[name]
  BY <1>1, CheckAssumption DEF Key
<1>5. /\ table \in OwnedTable /\ table.name = name /\ table.made = Latest
      /\ table.temp = Here.temp
  BY <1>1, <1>3 DEF Table, OwnedTable
<1>6. owned_tables_ \in Seq(OwnedTable) /\ NamesAreUnique(owned_tables_)
  BY DEF CatalogInv, TypeOK, OwnedTellsHistory, NamesAreUnique
<1>7. /\ freed \in Seq(OwnedTable) /\ NamesAreUnique(freed)
      /\ \A i \in DOMAIN freed :
           freed[i].name # name /\ \E j \in DOMAIN owned_tables_ : freed[i] = owned_tables_[j]
      /\ \A j \in DOMAIN owned_tables_ :
           owned_tables_[j].name # name => \E i \in DOMAIN freed : freed[i] = owned_tables_[j]
  BY <1>6, FreedTables
<1> HIDE DEF table, freed
<1>8. /\ owned_tables_' \in Seq(OwnedTable)
      /\ DOMAIN owned_tables_' = DOMAIN freed \cup {last}
      /\ \A i \in DOMAIN freed : owned_tables_'[i] = freed[i] /\ i # last
      /\ owned_tables_'[last] = table
  BY <1>2, <1>5, <1>7, Appended
<1> HIDE DEF last
<1>9. /\ DOMAIN tables_' = DOMAIN tables_ \cup {Lower[name]}
      /\ tables_'[Lower[name]] = table
      /\ \A k \in DOMAIN tables_ : k # Lower[name] => tables_'[k] = tables_[k]
  BY <1>2 DEF With
<1>10. /\ temp_table_names' \in Seq(Names)
       /\ \A j \in DOMAIN temp_table_names :
            j \in DOMAIN temp_table_names' /\ temp_table_names'[j] = temp_table_names[j]
       /\ \A j \in DOMAIN temp_table_names' :
            \/ j \in DOMAIN temp_table_names /\ temp_table_names'[j] = temp_table_names[j]
            \/ Here.temp /\ temp_table_names'[j] = name
       /\ Here.temp => \E j \in DOMAIN temp_table_names' : temp_table_names'[j] = name
  <2>1. temp_table_names \in Seq(Names)
    BY DEF CatalogInv, TypeOK
  <2>2. CASE Here.temp
    <3>1. temp_table_names' = Append(temp_table_names, name)
      BY <1>1, <2>2
    <3> HIDE DEF name
    <3>2. /\ temp_table_names' \in Seq(Names)
          /\ DOMAIN temp_table_names' = DOMAIN temp_table_names \cup {Len(temp_table_names) + 1}
          /\ \A i \in DOMAIN temp_table_names : temp_table_names'[i] = temp_table_names[i]
          /\ temp_table_names'[Len(temp_table_names) + 1] = name
      BY <1>1, <2>1, <3>1, Appended
    <3> QED BY <2>2, <3>2
  <2>3. CASE ~Here.temp
    BY <1>1, <2>1, <2>3
  <2> QED BY <2>2, <2>3
<1>11. TypeOK'
  BY <1>1, <1>3, <1>4, <1>8, <1>9, <1>10 DEF CatalogInv, TypeOK, Outcomes
<1>12. FilesInTurn' /\ FunctionsTellNames'
  <2>1. FunctionsGoOn
    BY <1>1 DEF FunctionsGoOn
  <2> QED BY <1>1, <2>1, StatementInTurn, FunctionsKeepNames
<1>13. NoEntryDangles'
  <2> SUFFICES ASSUME NEW k \in DOMAIN tables_'
               PROVE  /\ Lower[tables_'[k].name] = k
                      /\ \/ tables_'[k].made = 0 /\ \E i \in DOMAIN schema : schema[i].name = tables_'[k].name
                         \/ \E i \in DOMAIN owned_tables_' : owned_tables_'[i] = tables_'[k]
    BY <1>1 DEF NoEntryDangles
  <2>1. CASE k = Lower[name]
    BY <1>5, <1>8, <1>9, <2>1
  <2>2. CASE k # Lower[name]
    <3>1. k \in DOMAIN tables_ /\ tables_'[k] = tables_[k]
      BY <1>9, <2>2
    <3>2. /\ Lower[tables_[k].name] = k
          /\ \/ tables_[k].made = 0 /\ \E i \in DOMAIN schema : schema[i].name = tables_[k].name
             \/ \E i \in DOMAIN owned_tables_ : owned_tables_[i] = tables_[k]
      BY <3>1 DEF CatalogInv, NoEntryDangles
    <3>3. tables_[k].name # name
      BY <2>2, <3>2
    <3>4. (\E i \in DOMAIN owned_tables_ : owned_tables_[i] = tables_[k])
            => \E i \in DOMAIN owned_tables_' : owned_tables_'[i] = tables_[k]
      BY <1>7, <1>8, <3>3
    <3> QED BY <3>1, <3>2, <3>4
  <2> QED BY <2>1, <2>2
<1>14. OwnedTellsHistory'
  <2>1. ASSUME NEW i \in DOMAIN owned_tables_'
        PROVE  /\ owned_tables_'[i].made \in DOMAIN checked'
               /\ checked'[owned_tables_'[i].made].stmt.op = "create"
               /\ checked'[owned_tables_'[i].made].stmt.name = owned_tables_'[i].name
               /\ checked'[owned_tables_'[i].made].stmt.temp = owned_tables_'[i].temp
               /\ owned_tables_'[i].temp =>
                    \E j \in DOMAIN temp_table_names' : temp_table_names'[j] = owned_tables_'[i].name
    <3>1. CASE i = last
      BY <1>1, <1>3, <1>5, <1>8, <1>10, <3>1
    <3>2. CASE i \in DOMAIN freed
      <4>1. PICK o \in DOMAIN owned_tables_ : owned_tables_'[i] = owned_tables_[o]
        BY <1>7, <1>8, <3>2
      <4>2. /\ owned_tables_[o].made \in DOMAIN checked
            /\ checked[owned_tables_[o].made].stmt.op = "create"
            /\ checked[owned_tables_[o].made].stmt.name = owned_tables_[o].name
            /\ checked[owned_tables_[o].made].stmt.temp = owned_tables_[o].temp
            /\ owned_tables_[o].temp =>
                 \E j \in DOMAIN temp_table_names : temp_table_names[j] = owned_tables_[o].name
        BY DEF CatalogInv, OwnedTellsHistory
      <4> QED BY <1>3, <1>10, <4>1, <4>2
    <3> QED BY <1>8, <3>1, <3>2
  <2>2. \A i, j \in DOMAIN owned_tables_' : owned_tables_'[j].name = owned_tables_'[i].name => j = i
    <3> SUFFICES ASSUME NEW i \in DOMAIN owned_tables_', NEW j \in DOMAIN owned_tables_',
                        owned_tables_'[j].name = owned_tables_'[i].name
                 PROVE  j = i
      OBVIOUS
    <3>1. CASE i = last \/ j = last
      BY <1>5, <1>7, <1>8, <3>1
    <3>2. CASE i \in DOMAIN freed /\ j \in DOMAIN freed
      BY <1>7, <1>8, <3>2 DEF NamesAreUnique
    <3> QED BY <1>8, <3>1, <3>2
  <2>3. ASSUME NEW j \in DOMAIN temp_table_names'
        PROVE  \E i \in DOMAIN checked' :
                 /\ checked'[i].stmt.op = "create" /\ checked'[i].stmt.temp
                 /\ checked'[i].stmt.name = temp_table_names'[j]
    <3>1. CASE Here.temp /\ temp_table_names'[j] = name
      BY <1>1, <1>3, <3>1
    <3>2. CASE j \in DOMAIN temp_table_names /\ temp_table_names'[j] = temp_table_names[j]
      <4>1. PICK i \in DOMAIN checked : CreatesTemp(i, temp_table_names[j])
        BY <3>2 DEF CatalogInv, OwnedTellsHistory
      <4> QED BY <1>3, <3>2, <4>1 DEF CreatesTemp
    <3> QED BY <1>10, <3>1, <3>2
  <2> QED BY <2>1, <2>2, <2>3 DEF OwnedTellsHistory, CreatesTemp
<1>15. TablesTellHistory'
  <2> PICK key \in Keys : key = Lower[name]
    BY <1>4
  <2>1. ASSUME NEW k \in Keys, k # key
        PROVE  /\ Unshadowed(k)' <=> Unshadowed(k)
               /\ ToldByHistory(k)' <=> ToldByHistory(k)
               /\ k \in DOMAIN tables_' <=> k \in DOMAIN tables_
    BY <1>1, <1>4, <1>9, <2>1, TableHistory DEF About
  <2>2. ToldByHistory(key)' /\ key \in DOMAIN tables_'
    <3>1. /\ Touching(key)' = Touching(key) \cup {Latest}
          /\ Touching(key) \subseteq DOMAIN checked
      BY <1>1, <1>4, TableHistory DEF About
    <3>2. \A j \in Touching(key)' : j <= Latest
      <4>1. Latest <= Latest /\ \A j \in DOMAIN checked : j <= Latest
        <5>1. DOMAIN checked = 1..(Latest - 1)
          BY <1>1, HistoryGrows
        <5> QED BY <1>3, <5>1
      <4> QED BY <3>1, <4>1
    <3>3. checked'[Latest].stmt.op = "create" /\ checked'[Latest].file = Head(unread')
      BY <1>1, <1>3
    <3> QED BY <1>1, <1>9, <3>1, <3>2, <3>3 DEF ToldByHistory
  <2> QED BY <1>1, <2>1, <2>2 DEF CatalogInv, TablesTellHistory
<1> QED BY <1>11, <1>12, <1>13, <1>14, <1>15 DEF CatalogInv

\* DROP takes out what is found under the key, and frees what has the name.
LEMMA DroppedKeepsInv ==
  ASSUME CatalogInv, TableDropped PROVE CatalogInv'
<1> DEFINE name == Here.name
<1>1. /\ outcome = "running" /\ outcome' \in {"running", "no_table"}
      /\ ~ScriptIsOver /\ frames # << >>
      /\ StatementChecked /\ frames' # << >> /\ frames' \in Seq(Seq(Statement))
      /\ UNCHANGED <<script, schema, unloaded, unread, functions_, tvfs_, procedure_bodies,
                     temp_table_names, temp_function_names>>
      /\ Here.op \in {"drop", "drop_if_exists"} /\ name \in Names \cup Routines
  BY StatementHere DEF TableDropped, StatementChecked
<1>2. tables_' = Without(tables_, Key(name)) /\ owned_tables_' = Freed(owned_tables_, name)
  BY DEF TableDropped
<1>3. /\ checked' \in Seq([file : Files, stmt : Statement])
      /\ DOMAIN checked = 1..(Latest - 1) /\ Latest \in Nat
      /\ DOMAIN checked' = DOMAIN checked \cup {Latest}
      /\ \A i \in DOMAIN checked : i < Latest /\ checked'[i] = checked[i]
      /\ checked'[Latest].stmt = Here
  BY <1>1, HistoryGrows
<1>4. owned_tables_ \in Seq(OwnedTable) /\ NamesAreUnique(owned_tables_)
  BY DEF CatalogInv, TypeOK, OwnedTellsHistory, NamesAreUnique
<1>5. /\ owned_tables_' \in Seq(OwnedTable) /\ NamesAreUnique(owned_tables_')
      /\ \A i \in DOMAIN owned_tables_' : \E j \in DOMAIN owned_tables_ : owned_tables_'[i] = owned_tables_[j]
      /\ \A j \in DOMAIN owned_tables_ :
           owned_tables_[j].name # name => \E i \in DOMAIN owned_tables_' : owned_tables_'[i] = owned_tables_[j]
  BY <1>2, <1>4, FreedTables
<1>6. DOMAIN tables_' = DOMAIN tables_ \ {Key(name)} /\ \A k \in DOMAIN tables_' : tables_'[k] = tables_[k]
  BY <1>2 DEF Without
<1>7. TypeOK'
  BY <1>1, <1>3, <1>5, <1>6 DEF CatalogInv, TypeOK, Outcomes
<1>8. FilesInTurn' /\ FunctionsTellNames'
  <2>1. FunctionsGoOn
    BY <1>1 DEF FunctionsGoOn
  <2> QED BY <1>1, <2>1, StatementInTurn, FunctionsKeepNames
<1>9. NoEntryDangles'
  <2> SUFFICES ASSUME NEW k \in DOMAIN tables_'
               PROVE  /\ Lower[tables_[k].name] = k
                      /\ \/ tables_[k].made = 0 /\ \E i \in DOMAIN schema : schema[i].name = tables_[k].name
                         \/ \E i \in DOMAIN owned_tables_' : owned_tables_'[i] = tables_[k]
    BY <1>1, <1>6 DEF NoEntryDangles
  <2>1. k \in DOMAIN tables_ /\ k # Key(name)
    BY <1>6
  <2>2. /\ Lower[tables_[k].name] = k
        /\ \/ tables_[k].made = 0 /\ \E i \in DOMAIN schema : schema[i].name = tables_[k].name
           \/ \E i \in DOMAIN owned_tables_ : owned_tables_[i] = tables_[k]
    BY <2>1 DEF CatalogInv, NoEntryDangles
  <2>3. ASSUME NEW o \in DOMAIN owned_tables_, owned_tables_[o] = tables_[k]
        PROVE  owned_tables_[o].name # name
    <3>1. owned_tables_[o] \in OwnedTable
      BY <1>4
    <3>2. owned_tables_[o].name \in Names
      BY <3>1 DEF OwnedTable
    <3> QED BY <2>1, <2>2, <2>3, <3>2 DEF Key
  <2> QED BY <1>5, <2>2, <2>3
<1>10. OwnedTellsHistory'
  <2>1. ASSUME NEW i \in DOMAIN owned_tables_'
        PROVE  /\ owned_tables_'[i].made \in DOMAIN checked'
               /\ checked'[owned_tables_'[i].made].stmt.op = "create"
               /\ checked'[owned_tables_'[i].made].stmt.name = owned_tables_'[i].name
               /\ checked'[owned_tables_'[i].made].stmt.temp = owned_tables_'[i].temp
               /\ owned_tables_'[i].temp =>
                    \E j \in DOMAIN temp_table_names' : temp_table_names'[j] = owned_tables_'[i].name
    <3>1. PICK o \in DOMAIN owned_tables_ : owned_tables_'[i] = owned_tables_[o]
      BY <1>5
    <3>2. /\ owned_tables_[o].made \in DOMAIN checked
          /\ checked[owned_tables_[o].made].stmt.op = "create"
          /\ checked[owned_tables_[o].made].stmt.name = owned_tables_[o].name
          /\ checked[owned_tables_[o].made].stmt.temp = owned_tables_[o].temp
          /\ owned_tables_[o].temp =>
               \E j \in DOMAIN temp_table_names : temp_table_names[j] = owned_tables_[o].name
      BY DEF CatalogInv, OwnedTellsHistory
    <3> QED BY <1>1, <1>3, <3>1, <3>2
  <2>2. ASSUME NEW j \in DOMAIN temp_table_names'
        PROVE  \E i \in DOMAIN checked' :
                 /\ checked'[i].stmt.op = "create" /\ checked'[i].stmt.temp
                 /\ checked'[i].stmt.name = temp_table_names'[j]
    <3>1. PICK i \in DOMAIN checked : CreatesTemp(i, temp_table_names[j])
      BY <1>1 DEF CatalogInv, OwnedTellsHistory
    <3> QED BY <1>1, <1>3, <3>1 DEF CreatesTemp
  <2> QED BY <1>5, <2>1, <2>2 DEF OwnedTellsHistory, CreatesTemp, NamesAreUnique
<1>11. TablesTellHistory'
  <2> SUFFICES ASSUME NEW k \in Keys, outcome' = "running", Unshadowed(k)'
               PROVE  k \in DOMAIN tables_' <=> ToldByHistory(k)'
    BY <1>1 DEF TablesTellHistory
  <2>1. CASE k # Key(name)
    <3>1. /\ Unshadowed(k)' <=> Unshadowed(k)
          /\ ToldByHistory(k)' <=> ToldByHistory(k)
          /\ k \in DOMAIN tables_' <=> k \in DOMAIN tables_
      BY <1>1, <1>6, <2>1, TableHistory DEF About
    <3> QED BY <1>1, <3>1 DEF CatalogInv, TablesTellHistory
  <2>2. CASE k = Key(name)
    <3>1. Touching(k)' = Touching(k) \cup {Latest} /\ Touching(k) \subseteq DOMAIN checked
      BY <1>1, <2>2, TableHistory DEF About
    <3>2. ~ToldByHistory(k)'
      <4> SUFFICES ASSUME NEW i \in Touching(k)', \A j \in Touching(k)' : j <= i,
                          checked'[i].stmt.op = "create"
                   PROVE  FALSE
        BY <3>1 DEF ToldByHistory
      <4>1. i \in DOMAIN checked
        BY <1>1, <1>3, <3>1
      <4>2. Latest <= i
        BY <3>1
      <4>3. i < Latest /\ i \in Nat
        BY <1>3, <4>1
      <4> QED BY <1>3, <4>2, <4>3
    <3> QED BY <1>6, <2>2, <3>2
  <2> QED BY <2>1, <2>2
<1> QED BY <1>7, <1>8, <1>9, <1>10, <1>11 DEF CatalogInv

-----------------------------------------------------------------------------
(* The theorems.                                                           *)

\* Before the schema is loaded, nothing is known and nothing has been checked.
LEMMA InitInv == Init => CatalogInv
<1> SUFFICES ASSUME Init PROVE CatalogInv
  OBVIOUS
<1>1. PICK given \in Inputs : script = given.script /\ schema = given.schema
  BY DEF Init
<1>2. script \in [Files -> Seq(Statement)] /\ schema \in Seq(Declaration)
  <2>1. given \in [script : [Files -> Seq(Statement)], schema : Seq(Declaration)]
    BY CheckAssumption
  <2> QED BY <1>1, <2>1
<1>3. /\ unloaded = schema /\ unread = Plan /\ frames = << >> /\ tables_ = << >> /\ owned_tables_ = << >>
      /\ functions_ = {} /\ tvfs_ = {} /\ procedure_bodies = << >>
      /\ temp_table_names = << >> /\ temp_function_names = << >> /\ checked = << >>
      /\ outcome = "starting"
  BY DEF Init
<1>4. Plan \in Seq(Files) /\ \A i, j \in DOMAIN Plan : Plan[i] = Plan[j] => i = j
  BY CheckAssumption
<1>5. Len(schema) \in Nat /\ Len(schema) - Len(schema) = 0
  BY <1>2
<1>6. TypeOK
  <2>1. \A i \in DOMAIN unloaded : unloaded[i] = schema[Len(schema) - Len(unloaded) + i]
    <3>1. DOMAIN schema = 1..Len(schema)
      BY <1>2
    <3> QED BY <1>3, <1>5, <3>1
  <2>2. /\ frames \in Seq(Seq(Statement)) /\ owned_tables_ \in Seq(OwnedTable)
        /\ temp_table_names \in Seq(Names) /\ temp_function_names \in Seq(Routines)
        /\ checked \in Seq([file : Files, stmt : Statement])
    BY <1>3
  <2>3. DOMAIN tables_ = {} /\ DOMAIN procedure_bodies = {}
    BY <1>3
  <2> QED BY <1>2, <1>3, <1>4, <1>5, <2>1, <2>2, <2>3 DEF TypeOK, Outcomes
<1>7. DOMAIN checked = {} /\ DOMAIN tables_ = {} /\ DOMAIN owned_tables_ = {}
      /\ DOMAIN temp_table_names = {} /\ DOMAIN temp_function_names = {}
  BY <1>3
<1>8. FilesInTurn /\ NoEntryDangles /\ OwnedTellsHistory
  BY <1>3, <1>4, <1>7 DEF FilesInTurn, NoEntryDangles, OwnedTellsHistory
<1>9. FunctionsTellNames
  BY <1>3, <1>7 DEF FunctionsTellNames, PermanentFunctions
<1>10. TablesTellHistory
  <2>1. 1..(Len(schema) - Len(unloaded)) = {}
    BY <1>3, <1>5
  <2> QED BY <1>3, <1>7, <2>1 DEF TablesTellHistory
<1> QED BY <1>6, <1>8, <1>9, <1>10 DEF CatalogInv

\* Every step keeps what is known of the catalog.
LEMMA NextKeepsInv ==
  ASSUME CatalogInv, [Next]_vars PROVE CatalogInv'
<1>1. CASE LoadFails \/ NoScript \/ Succeed \/ AnalysisFails \/ Terminated \/ UNCHANGED vars
  BY <1>1, QuietActions, QuietKeepsInv
<1>2. CASE \/ SkipStatement \/ OtherStatement \/ CreateFunction \/ CreateTableFunction
           \/ CreateProcedure \/ Call
  BY <1>2, StatementActions, UntouchedKeepsInv
<1>3. CASE CreateTable
  BY <1>3, TableActions, CreatedKeepsInv
<1>4. CASE DropTable
  BY <1>4, TableActions, DroppedKeepsInv
<1>5. CASE AddTable
  BY <1>5, AddTableKeepsInv
<1>6. CASE ConstructCatalog
  BY <1>6, ConstructCatalogKeepsInv
<1>7. CASE OpenFile
  BY <1>7, OpenFileKeepsInv
<1>8. CASE Return
  BY <1>8, ReturnKeepsInv
<1>9. CASE RemoveTempTable
  BY <1>9, RemoveTempTableKeepsInv
<1>10. CASE RemoveTempFunction
  BY <1>10, RemoveTempFunctionKeepsInv
<1>11. CASE CloseFile
  BY <1>11, CloseFileKeepsInv
<1> QED BY <1>1, <1>2, <1>3, <1>4, <1>5, <1>6, <1>7, <1>8, <1>9, <1>10, <1>11 DEF Next

-----------------------------------------------------------------------------
(* The types of columns: JsonSchema's functions are equal to what they are *)
(* defined to be, by recursion on the fields of records.                   *)

ReadableBody(c, f) ==
  /\ c.type # Missing
  /\ c.mode # Missing
  /\ \A i \in DOMAIN c.fields : f[c.fields[i]]

TypeBody(c, f) ==
  Repeated(c, IF c.type # "RECORD" THEN Simple(c.type)
              ELSE Struct([i \in DOMAIN c.fields |-> f[c.fields[i]]]))

MeaningBody(c, f) ==
  [type |-> Synonym(c.type), repeated |-> c.mode = "REPEATED",
   fields |-> IF c.type = "RECORD" THEN [i \in DOMAIN c.fields |-> f[c.fields[i]]] ELSE << >>]

OfReading  == INSTANCE StructuralRecursion WITH Nodes <- Columns, Rank <- Nesting, Body <- ReadableBody
OfTypes    == INSTANCE StructuralRecursion WITH Nodes <- Columns, Rank <- Nesting, Body <- TypeBody
OfMeanings == INSTANCE StructuralRecursion WITH Nodes <- Columns, Rank <- Nesting, Body <- MeaningBody

LEMMA ColumnSyntax ==
  ASSUME NEW c \in Columns
  PROVE  /\ Nesting[c] \in Nat
         /\ c.type \in SupportedType \cup {Missing}
         /\ \A i \in DOMAIN c.fields : c.fields[i] \in Columns /\ Nesting[c.fields[i]] < Nesting[c]
<1>1. c.fields \in Seq(Columns) /\ Nesting[c] \in Nat /\ c.type \in SupportedType \cup {Missing}
  BY ColumnsAssumption
<1>2. \A i \in DOMAIN c.fields : c.fields[i] \in Columns
  BY <1>1
<1> QED BY <1>1, <1>2, ColumnsAssumption

\* A column is readable if it has a type and a mode, and so have its fields.
LEMMA ReadableUnfolds ==
  ASSUME NEW c \in Columns PROVE Readable[c] = ReadableBody(c, Readable)
<1>1. OfReading!Structural
  <2>1. SUFFICES ASSUME NEW n \in Columns, NEW f, NEW g,
                        \A m \in Columns : Nesting[m] < Nesting[n] => f[m] = g[m]
                 PROVE  ReadableBody(n, f) = ReadableBody(n, g)
    BY DEF OfReading!Structural
  <2>2. \A i \in DOMAIN n.fields : f[n.fields[i]] = g[n.fields[i]]
    BY <2>1, ColumnSyntax
  <2> QED BY <2>2 DEF ReadableBody
<1>2. \E f : f = [n \in Columns |-> ReadableBody(n, f)]
  BY <1>1, ColumnSyntax, OfReading!RecursionExists DEF OfReading!Ranked
<1>3. Readable = [n \in Columns |-> ReadableBody(n, Readable)]
  BY <1>2 DEF Readable, ReadableBody
<1> QED BY <1>3

\* The type of a record is made of those of its fields.
LEMMA TypeUnfolds ==
  ASSUME NEW c \in Columns
  PROVE  ConvertSupportedTypeToZetaSQLType[c] = TypeBody(c, ConvertSupportedTypeToZetaSQLType)
<1>1. OfTypes!Structural
  <2>1. SUFFICES ASSUME NEW n \in Columns, NEW f, NEW g,
                        \A m \in Columns : Nesting[m] < Nesting[n] => f[m] = g[m]
                 PROVE  TypeBody(n, f) = TypeBody(n, g)
    BY DEF OfTypes!Structural
  <2>2. [i \in DOMAIN n.fields |-> f[n.fields[i]]] = [i \in DOMAIN n.fields |-> g[n.fields[i]]]
    BY <2>1, ColumnSyntax
  <2> QED BY <2>2 DEF TypeBody
<1>2. \E f : f = [n \in Columns |-> TypeBody(n, f)]
  BY <1>1, ColumnSyntax, OfTypes!RecursionExists DEF OfTypes!Ranked
<1> DEFINE convert == ConvertSupportedTypeToZetaSQLType
<1>3. convert = [n \in Columns |-> TypeBody(n, convert)]
  BY <1>2 DEF ConvertSupportedTypeToZetaSQLType, TypeBody
<1> HIDE DEF convert
<1>4. convert[c] = TypeBody(c, convert)
  BY <1>3
<1> QED BY <1>4 DEF convert

\* And so is its meaning.
LEMMA MeaningUnfolds ==
  ASSUME NEW c \in Columns PROVE Meaning[c] = MeaningBody(c, Meaning)
<1>1. OfMeanings!Structural
  <2>1. SUFFICES ASSUME NEW n \in Columns, NEW f, NEW g,
                        \A m \in Columns : Nesting[m] < Nesting[n] => f[m] = g[m]
                 PROVE  MeaningBody(n, f) = MeaningBody(n, g)
    BY DEF OfMeanings!Structural
  <2>2. [i \in DOMAIN n.fields |-> f[n.fields[i]]] = [i \in DOMAIN n.fields |-> g[n.fields[i]]]
    BY <2>1, ColumnSyntax
  <2> QED BY <2>2 DEF MeaningBody
<1>2. \E f : f = [n \in Columns |-> MeaningBody(n, f)]
  BY <1>1, ColumnSyntax, OfMeanings!RecursionExists DEF OfMeanings!Ranked
<1>3. Meaning = [n \in Columns |-> MeaningBody(n, Meaning)]
  BY <1>2 DEF Meaning, MeaningBody
<1> QED BY <1>3

\* Simple types are one type if and only if they are synonyms.
LEMMA SimpleTypes ==
  ASSUME NEW s \in SupportedType \ {"RECORD"}, NEW t \in SupportedType \ {"RECORD"}
  PROVE  /\ Simple(s) = Simple(t) <=> Synonym(s) = Synonym(t)
         /\ Simple(s).kind \notin {"TYPE_STRUCT", "TYPE_ARRAY"}
         /\ Synonym(s) # Synonym("RECORD")
<1> DEFINE convert == FromBigQueryTypeToZetaSQLTypeMap
<1>1. /\ convert[s] = convert[t] <=> Synonym(s) = Synonym(t)
      /\ convert[s] \notin {"TYPE_STRUCT", "TYPE_ARRAY"}
      /\ Synonym(s) # Synonym("RECORD")
  BY DEF FromBigQueryTypeToZetaSQLTypeMap, Synonym, SupportedType
<1> HIDE DEF convert
<1>2. \A u : Simple(u) = [kind |-> convert[u], of |-> << >>]
  BY DEF Simple, convert
<1> QED BY <1>1, <1>2

\* The element type of a column, and whether it is repeated, are told by its type.
LEMMA RepeatedTypes ==
  ASSUME NEW c, NEW d, NEW s, NEW t, s.kind # "TYPE_ARRAY", t.kind # "TYPE_ARRAY"
  PROVE  Repeated(c, s) = Repeated(d, t)
           <=> (c.mode = "REPEATED" <=> d.mode = "REPEATED") /\ s = t
<1>1. Array(s).kind = "TYPE_ARRAY" /\ Array(t).kind = "TYPE_ARRAY"
  BY DEF Array
<1>2. Array(s) = Array(t) <=> s = t
  <2>1. Array(s).of[1] = s /\ Array(t).of[1] = t
    BY DEF Array
  <2> QED BY <2>1
<1> QED BY <1>1, <1>2 DEF Repeated

\* The type of an element of the column.
ElementType(c) ==
  IF c.type # "RECORD" THEN Simple(c.type)
  ELSE Struct([i \in DOMAIN c.fields |-> ConvertSupportedTypeToZetaSQLType[c.fields[i]]])

\* Two columns that can be read have one type if and only if they mean the same.
THEOREM TypesAreMeanings ==
  \A c, d \in Columns :
    Readable[c] /\ Readable[d] =>
      (ConvertSupportedTypeToZetaSQLType[c] = ConvertSupportedTypeToZetaSQLType[d]
         <=> Meaning[c] = Meaning[d])
<1> DEFINE convert == ConvertSupportedTypeToZetaSQLType
           Agree(c, d) == convert[c] = convert[d] <=> Meaning[c] = Meaning[d]
           S == {c \in Columns : \A d \in Columns : Readable[c] /\ Readable[d] => Agree(c, d)}
<1>1. SUFFICES Columns \subseteq S
  OBVIOUS
<1>2. ASSUME NEW c \in Columns, \A b \in Columns : Nesting[b] < Nesting[c] => b \in S,
             NEW d \in Columns, Readable[c], Readable[d]
      PROVE  Agree(c, d)
  <2>1. /\ c.type \in SupportedType /\ d.type \in SupportedType
        /\ \A i \in DOMAIN c.fields : Readable[c.fields[i]]
        /\ \A i \in DOMAIN d.fields : Readable[d.fields[i]]
    BY <1>2, ReadableUnfolds, ColumnSyntax DEF ReadableBody
  <2>2. convert[c] = Repeated(c, ElementType(c)) /\ convert[d] = Repeated(d, ElementType(d))
    BY TypeUnfolds DEF TypeBody, ElementType
  <2>3. \A s : Struct(s).kind = "TYPE_STRUCT" /\ Struct(s).of = s
    BY DEF Struct
  <2>4. ElementType(c).kind # "TYPE_ARRAY" /\ ElementType(d).kind # "TYPE_ARRAY"
    BY <2>1, <2>3, SimpleTypes DEF ElementType
  <2>5. convert[c] = convert[d] <=>
          (c.mode = "REPEATED" <=> d.mode = "REPEATED") /\ ElementType(c) = ElementType(d)
    BY <2>2, <2>4, RepeatedTypes
  <2> DEFINE fields(b) == IF b.type = "RECORD" THEN [i \in DOMAIN b.fields |-> Meaning[b.fields[i]]] ELSE << >>
  <2>6. Meaning[c] = Meaning[d] <=>
          /\ c.mode = "REPEATED" <=> d.mode = "REPEATED"
          /\ Synonym(c.type) = Synonym(d.type) /\ fields(c) = fields(d)
    <3> DEFINE repeated(b) == b.mode = "REPEATED"
    <3>1. \A b \in Columns :
            Meaning[b] = [type |-> Synonym(b.type), repeated |-> repeated(b), fields |-> fields(b)]
      BY MeaningUnfolds DEF MeaningBody
    <3>2. repeated(c) = repeated(d) <=> (c.mode = "REPEATED" <=> d.mode = "REPEATED")
      OBVIOUS
    <3> HIDE DEF fields, repeated
    <3>3. Meaning[c] = Meaning[d] <=>
            /\ repeated(c) = repeated(d)
            /\ Synonym(c.type) = Synonym(d.type) /\ fields(c) = fields(d)
      <4>1. \A t1, r1, f1, t2, r2, f2 :
              [type |-> t1, repeated |-> r1, fields |-> f1] = [type |-> t2, repeated |-> r2, fields |-> f2]
                <=> t1 = t2 /\ r1 = r2 /\ f1 = f2
        OBVIOUS
      <4>2. Meaning[c] = [type |-> Synonym(c.type), repeated |-> repeated(c), fields |-> fields(c)]
        BY <3>1
      <4>3. Meaning[d] = [type |-> Synonym(d.type), repeated |-> repeated(d), fields |-> fields(d)]
        BY <3>1
      <4>4. [type |-> Synonym(c.type), repeated |-> repeated(c), fields |-> fields(c)]
              = [type |-> Synonym(d.type), repeated |-> repeated(d), fields |-> fields(d)]
            <=> /\ repeated(c) = repeated(d)
                /\ Synonym(c.type) = Synonym(d.type) /\ fields(c) = fields(d)
        BY <4>1, Zenon
      <4> QED BY <4>2, <4>3, <4>4, Zenon
    <3> QED BY <3>2, <3>3
  <2>7. ElementType(c) = ElementType(d) <=>
          Synonym(c.type) = Synonym(d.type) /\ fields(c) = fields(d)
    <3>1. CASE c.type # "RECORD" /\ d.type # "RECORD"
      BY <2>1, <3>1, SimpleTypes DEF ElementType
    <3>2. CASE c.type = "RECORD" /\ d.type # "RECORD"
      BY <2>1, <2>3, <3>2, SimpleTypes DEF ElementType
    <3>3. CASE c.type # "RECORD" /\ d.type = "RECORD"
      BY <2>1, <2>3, <3>3, SimpleTypes DEF ElementType
    <3>4. CASE c.type = "RECORD" /\ d.type = "RECORD"
      <4> DEFINE types(b) == [i \in DOMAIN b.fields |-> convert[b.fields[i]]]
                 meanings(b) == [i \in DOMAIN b.fields |-> Meaning[b.fields[i]]]
      <4>1. ElementType(c) = ElementType(d) <=> types(c) = types(d)
        BY <2>3, <3>4 DEF ElementType
      <4>2. \A i \in DOMAIN c.fields : i \in DOMAIN d.fields => Agree(c.fields[i], d.fields[i])
        BY <1>2, <2>1, ColumnSyntax
      <4>3. types(c) = types(d) <=>
              /\ DOMAIN c.fields = DOMAIN d.fields
              /\ \A i \in DOMAIN c.fields : convert[c.fields[i]] = convert[d.fields[i]]
        OBVIOUS
      <4>4. meanings(c) = meanings(d) <=>
              /\ DOMAIN c.fields = DOMAIN d.fields
              /\ \A i \in DOMAIN c.fields : Meaning[c.fields[i]] = Meaning[d.fields[i]]
        OBVIOUS
      <4>5. types(c) = types(d) <=> meanings(c) = meanings(d)
        BY <4>2, <4>3, <4>4
      <4> QED BY <3>4, <4>1, <4>5
    <3> QED BY <3>1, <3>2, <3>3, <3>4
  <2> QED BY <2>5, <2>6, <2>7
<1>3. ASSUME NEW c \in Columns, \A b \in Columns : Nesting[b] < Nesting[c] => b \in S
      PROVE  c \in S
  BY <1>2, <1>3
<1> HIDE DEF S
<1> QED BY <1>3, ColumnSyntax, OfTypes!StructuralInduction DEF OfTypes!Ranked

-----------------------------------------------------------------------------
(* The tables of the schema.                                               *)

\* Where nothing of them moves, they stay, unless the program ends.
LEMMA SchemaStays ==
  ASSUME SchemaIsLoaded, UNCHANGED <<schema, unloaded, tables_, checked>>,
         outcome' = outcome \/ outcome' \notin {"starting", "running"}
  PROVE  SchemaIsLoaded'
BY DEF SchemaIsLoaded

\* Once a statement has been checked, nothing is promised of them.
LEMMA CheckedSchema ==
  ASSUME CatalogInv, SchemaIsLoaded, StatementChecked, outcome' # "starting"
  PROVE  SchemaIsLoaded'
<1>1. checked' # << >>
  <2>1. Latest \in DOMAIN checked'
    BY HistoryGrows
  <2> QED BY <2>1
<1>2. outcome = "running" /\ unloaded' = unloaded
  BY StatementHere DEF StatementChecked
<1> QED BY <1>1, <1>2 DEF SchemaIsLoaded

\* An entry is loaded under a name that no other has.
LEMMA AddTableLoads ==
  ASSUME CatalogInv, SchemaIsLoaded, AddTable PROVE SchemaIsLoaded'
<1>1. /\ outcome = "starting" /\ unloaded # << >> /\ unloaded' = Tail(unloaded)
      /\ schema' = schema
      /\ \A a \in DOMAIN Entry.columns : Readable[Entry.columns[a]]
  BY DEF AddTable, Loading, input
<1>2. CASE outcome' = "duplicate"
  BY <1>2 DEF SchemaIsLoaded
<1>3. CASE outcome' # "duplicate"
  <2>1. /\ outcome' = "starting" /\ Lower[Entry.name] \notin DOMAIN tables_
        /\ tables_' = With(tables_, Lower[Entry.name], SchemaTable(Entry))
    BY <1>1, <1>3 DEF AddTable
  <2> DEFINE loaded == Len(schema) - Len(unloaded)
             e == loaded + 1
  <2>2. /\ schema \in Seq(Declaration) /\ unloaded \in Seq(Declaration) /\ Len(unloaded) <= Len(schema)
        /\ \A i \in DOMAIN unloaded : unloaded[i] = schema[Len(schema) - Len(unloaded) + i]
    BY DEF CatalogInv, TypeOK
  <2>3. /\ Len(unloaded) \in Nat \ {0} /\ Len(schema) \in Nat /\ Entry = unloaded[1]
        /\ Len(unloaded') = Len(unloaded) - 1
    BY <1>1, <2>2 DEF Entry
  <2>4. Entry = schema[e] /\ Len(schema) - Len(unloaded') = e
    BY <2>2, <2>3
  <2>5. loaded \in Nat /\ 1..e = 1..loaded \cup {e}
    BY <2>2, <2>3
  <2>6. \A i \in 1..loaded :
          /\ \A a \in DOMAIN schema[i].columns : Readable[schema[i].columns[a]]
          /\ Lower[schema[i].name] \in DOMAIN tables_
          /\ tables_[Lower[schema[i].name]] = SchemaTable(schema[i])
    BY <1>1 DEF SchemaIsLoaded
  <2> HIDE DEF loaded, e
  <2>7. \A k \in DOMAIN tables_ : k \in DOMAIN tables_' /\ tables_'[k] = tables_[k]
    BY <2>1 DEF With
  <2>8. Lower[Entry.name] \in DOMAIN tables_' /\ tables_'[Lower[Entry.name]] = SchemaTable(Entry)
    BY <2>1 DEF With
  <2>9. \A i \in 1..e :
          /\ \A a \in DOMAIN schema[i].columns : Readable[schema[i].columns[a]]
          /\ Lower[schema[i].name] \in DOMAIN tables_'
          /\ tables_'[Lower[schema[i].name]] = SchemaTable(schema[i])
    BY <1>1, <2>4, <2>5, <2>6, <2>7, <2>8
  <2> QED BY <1>1, <2>1, <2>4, <2>9 DEF SchemaIsLoaded
<1> QED BY <1>2, <1>3

\* Nothing but a statement changes the catalog once the schema is loaded.
LEMMA NextKeepsSchema ==
  ASSUME CatalogInv, SchemaIsLoaded, [Next]_vars PROVE SchemaIsLoaded'
<1>1. CASE LoadFails \/ NoScript \/ Succeed \/ AnalysisFails \/ Terminated \/ UNCHANGED vars
  <2>1. NothingMoves
    BY <1>1, QuietActions
  <2> QED BY <2>1, SchemaStays DEF NothingMoves
<1>2. CASE \/ SkipStatement \/ OtherStatement \/ CreateFunction \/ CreateTableFunction
           \/ CreateProcedure \/ Call
  <2>1. StatementChecked /\ outcome' # "starting"
    BY <1>2, StatementActions DEF TablesUntouched
  <2> QED BY <2>1, CheckedSchema
<1>3. CASE CreateTable
  <2>1. StatementChecked /\ outcome' # "starting"
    BY <1>3, TableActions DEF TableCreated
  <2> QED BY <2>1, CheckedSchema
<1>4. CASE DropTable
  <2>1. StatementChecked /\ outcome' # "starting"
    BY <1>4, TableActions DEF TableDropped
  <2> QED BY <2>1, CheckedSchema
<1>5. CASE AddTable
  BY <1>5, AddTableLoads
<1>6. CASE ConstructCatalog
  BY <1>6 DEF ConstructCatalog, SchemaIsLoaded, tables, input, SchemaTable, Table
<1>7. CASE OpenFile \/ Return \/ CloseFile
  <2>1. UNCHANGED <<schema, unloaded, tables_, checked, outcome>>
    BY <1>7 DEF OpenFile, Return, CloseFile, input, tables
  <2> QED BY <2>1, SchemaStays
<1>8. CASE RemoveTempTable
  <2>1. /\ outcome = "running" /\ temp_table_names # << >>
        /\ UNCHANGED <<schema, unloaded, checked, outcome>>
    BY <1>8 DEF RemoveTempTable, ScriptIsOver, input
  <2>2. checked # << >>
    <3>1. temp_table_names \in Seq(Names)
      BY DEF CatalogInv, TypeOK
    <3>2. 1 \in DOMAIN temp_table_names
      BY <2>1, <3>1
    <3>3. \E i \in DOMAIN checked : CreatesTemp(i, temp_table_names[1])
      BY <3>2 DEF CatalogInv, OwnedTellsHistory
    <3> QED BY <3>3
  <2> QED BY <2>1, <2>2 DEF SchemaIsLoaded
<1>9. CASE RemoveTempFunction
  <2>1. /\ UNCHANGED <<schema, unloaded, tables_, checked>>
        /\ outcome' \in {outcome, "no_function"}
    BY <1>9 DEF RemoveTempFunction, DropOwnedFunction, input, tables
  <2> QED BY <2>1, SchemaStays
<1> QED BY <1>1, <1>2, <1>3, <1>4, <1>5, <1>6, <1>7, <1>8, <1>9 DEF Next

-----------------------------------------------------------------------------
(* The last definition counts, and no routine has two.                     *)

\* A statement makes the last definition of its table, and takes no other's away.
LEMMA StatementsAreLast ==
  ASSUME CatalogInv, LastDefinitionCounts, TablesUntouched \/ TableCreated \/ TableDropped
  PROVE  LastDefinitionCounts'
<1>1. StatementChecked
  BY DEF TablesUntouched, TableCreated, TableDropped
<1>2. Latest \in Nat /\ \A i \in DOMAIN checked : i \in Nat /\ i < Latest
  BY <1>1, HistoryGrows
<1>3. /\ DOMAIN tables_ \subseteq Keys
      /\ Here.name \in Names => Lower[Here.name] \in Keys
  BY CheckAssumption DEF CatalogInv, TypeOK
<1>4. SUFFICES ASSUME NEW k \in DOMAIN tables_'
      PROVE  \/ tables_'[k].made = 0 /\ Touching(k)' = {}
             \/ tables_'[k].made \in Touching(k)' /\ \A i \in Touching(k)' : i <= tables_'[k].made
  BY DEF LastDefinitionCounts
<1>5. ASSUME k \in DOMAIN tables_, tables_'[k] = tables_[k], ~About(k)
      PROVE  \/ tables_'[k].made = 0 /\ Touching(k)' = {}
             \/ tables_'[k].made \in Touching(k)' /\ \A i \in Touching(k)' : i <= tables_'[k].made
  BY <1>1, <1>3, <1>5, TableHistory DEF LastDefinitionCounts
<1>6. CASE TablesUntouched
  BY <1>5, <1>6 DEF TablesUntouched, About
<1>7. CASE TableDropped
  <2>1. k \in DOMAIN tables_ /\ tables_'[k] = tables_[k] /\ k # Key(Here.name)
    BY <1>7 DEF TableDropped, Without
  <2> QED BY <1>5, <2>1 DEF About
<1>8. CASE TableCreated
  <2>1. /\ Here.op = "create" /\ Here.name \in Names /\ Key(Here.name) = Lower[Here.name]
        /\ tables_' = With(tables_, Lower[Here.name], Table(Here.name, Here.temp, Latest))
    BY <1>8 DEF TableCreated, Key, Latest
  <2>2. CASE k = Lower[Here.name]
    <3>1. tables_'[k].made = Latest
      BY <2>1, <2>2 DEF With, Table
    <3>2. k \in Keys /\ About(k)
      BY <1>3, <2>1, <2>2 DEF About
    <3>3. Touching(k)' = Touching(k) \cup {Latest} /\ Touching(k) \subseteq DOMAIN checked
      BY <1>1, <3>2, TableHistory
    <3> QED BY <1>2, <3>1, <3>3
  <2>3. CASE k # Lower[Here.name]
    <3>1. k \in DOMAIN tables_ /\ tables_'[k] = tables_[k]
      BY <2>1, <2>3 DEF With
    <3> QED BY <1>5, <2>1, <2>3, <3>1 DEF About
  <2> QED BY <2>2, <2>3
<1> QED BY <1>6, <1>7, <1>8

\* Before the first statement, every table is of the schema.
LEMMA SchemaIsFirst ==
  ASSUME CatalogInv, LastDefinitionCounts, AddTable PROVE LastDefinitionCounts'
<1>1. outcome = "starting" /\ checked' = checked
  BY DEF AddTable, Loading
<1>2. checked = << >>
  BY <1>1 DEF CatalogInv, TablesTellHistory
<1>3. \A k : Touching(k) = {} /\ Touching(k)' = {}
  BY <1>1, <1>2 DEF Touching
<1>4. CASE tables_' = tables_
  BY <1>3, <1>4 DEF LastDefinitionCounts
<1>5. CASE tables_' = With(tables_, Lower[Entry.name], SchemaTable(Entry))
  <2>1. SchemaTable(Entry).made = 0
    BY DEF SchemaTable, Table
  <2>2. \A k \in DOMAIN tables_' :
          \/ tables_'[k] = SchemaTable(Entry)
          \/ k \in DOMAIN tables_ /\ tables_'[k] = tables_[k]
    BY <1>5 DEF With
  <2> QED BY <1>3, <2>1, <2>2 DEF LastDefinitionCounts
<1> QED BY <1>4, <1>5 DEF AddTable

\* The statement to be checked defines a routine that is defined already.
DefinedBefore ==
  /\ Here.op \in {"create_function", "create_tvf", "create_procedure"}
  /\ \E i \in DOMAIN checked :
       /\ checked[i].stmt.op = Here.op /\ checked[i].stmt.name = Here.name
       /\ Here.op = "create_function" /\ checked[i].stmt.temp => checked[i].file = Head(unread)

\* Only by such a statement comes a second definition into the history.
LEMMA SecondDefinition ==
  ASSUME CatalogInv, StatementChecked
  PROVE  RoutineDefinedTwice' <=> RoutineDefinedTwice \/ DefinedBefore
<1>0. PICK last : last = Latest
  OBVIOUS
<1>1. /\ last \in Nat /\ DOMAIN checked' = DOMAIN checked \cup {last}
      /\ \A i \in DOMAIN checked : i \in Nat /\ i < last /\ checked'[i] = checked[i]
      /\ checked'[last].file = Head(unread) /\ checked'[last].stmt = Here
  BY <1>0, HistoryGrows
<1>2. \A i, j \in DOMAIN checked : DefinedTwice(i, j)' <=> DefinedTwice(i, j)
  BY <1>1 DEF DefinedTwice
<1>3. \A i \in DOMAIN checked' : ~DefinedTwice(last, i)'
  <2> SUFFICES ASSUME NEW i \in DOMAIN checked' PROVE ~(last < i)
    BY DEF DefinedTwice
  <2> QED BY <1>1
<1>4. (\E i \in DOMAIN checked : DefinedTwice(i, last)') <=> DefinedBefore
  BY <1>1 DEF DefinedTwice, DefinedBefore
<1>5. ASSUME RoutineDefinedTwice' PROVE RoutineDefinedTwice \/ DefinedBefore
  <2>1. PICK i \in DOMAIN checked', j \in DOMAIN checked' : DefinedTwice(i, j)'
    BY <1>5 DEF RoutineDefinedTwice
  <2>2. i \in DOMAIN checked
    BY <1>1, <1>3, <2>1
  <2>3. CASE j \in DOMAIN checked
    BY <1>2, <2>1, <2>2, <2>3 DEF RoutineDefinedTwice
  <2>4. CASE j = last
    BY <1>4, <2>1, <2>2, <2>4
  <2> QED BY <1>1, <2>3, <2>4
<1>6. ASSUME RoutineDefinedTwice \/ DefinedBefore PROVE RoutineDefinedTwice'
  <2>1. \/ \E i, j \in DOMAIN checked : DefinedTwice(i, j)'
        \/ \E i \in DOMAIN checked : DefinedTwice(i, last)'
    BY <1>2, <1>4, <1>6 DEF RoutineDefinedTwice
  <2> QED BY <1>1, <2>1 DEF RoutineDefinedTwice
<1> QED BY <1>5, <1>6

\* A statement ends the program over a second definition, and defines its routine.
RoutineDefined ==
  /\ StatementChecked /\ outcome' # "starting"
  /\ outcome' = "duplicate" <=> DefinedBefore
  /\ tvfs_' = IF Here.op = "create_tvf" THEN tvfs_ \cup {Here.name} ELSE tvfs_
  /\ DOMAIN procedure_bodies' = IF Here.op = "create_procedure"
                                THEN DOMAIN procedure_bodies \cup {Here.name}
                                ELSE DOMAIN procedure_bodies

LEMMA StatementsDefine ==
  ASSUME CatalogInv, RoutinesTellHistory,
         \/ SkipStatement \/ OtherStatement \/ CreateFunction \/ CreateTableFunction
         \/ CreateProcedure \/ Call \/ CreateTable \/ DropTable
  PROVE  RoutineDefined
<1>1. AtStatement => /\ outcome = "running" /\ ~ScriptIsOver /\ frames # << >>
                     /\ Here.name \in Targets(Here.op)
  BY StatementHere
<1>2. \A op \in {"create_function", "create_tvf", "create_procedure"} : Targets(op) = Routines
  BY DEF Targets
<1>3. {"create_function", "create_tvf", "create_procedure", "other"} \subseteq Ops
  BY DEF Ops
<1>4. CASE SkipStatement \/ OtherStatement \/ Call
  <2>1. StatementChecked /\ AtStatement /\ Here.op \in {"unsupported", "other", "call"}
    BY <1>3, <1>4, StatementsAreChecked DEF StatementChecked, OtherStatement
  <2>2. UNCHANGED <<tvfs_, procedure_bodies>> /\ outcome' \in {outcome, "overflow"}
    BY <1>4 DEF SkipStatement, OtherStatement, Call, routines
  <2> QED BY <1>1, <2>1, <2>2 DEF RoutineDefined, DefinedBefore
<1>5. CASE CreateTable \/ DropTable
  <2>1. TableCreated \/ TableDropped
    BY <1>5, TableActions
  <2> QED BY <2>1 DEF TableCreated, TableDropped, RoutineDefined, DefinedBefore
<1>6. CASE CreateFunction
  <2>1. StatementChecked /\ Here.op = "create_function" /\ AtStatement
    BY <1>3, <1>6, StatementsAreChecked DEF StatementChecked, CreateFunction
  <2>2. /\ UNCHANGED <<tvfs_, procedure_bodies>>
        /\ outcome' = IF Here.name \in functions_ THEN "duplicate" ELSE outcome
    BY <1>6 DEF CreateFunction
  <2>3. functions_ = PermanentFunctions \cup TempFunctionsHere
    BY <1>1, <2>1 DEF CatalogInv, FunctionsTellNames
  <2>4. Here.name \in functions_ <=> DefinedBefore
    BY <1>1, <1>2, <2>1, <2>3 DEF PermanentFunctions, TempFunctionsHere, DefinedBefore
  <2> QED BY <1>1, <2>1, <2>2, <2>4 DEF RoutineDefined
<1>7. CASE CreateTableFunction
  <2>1. StatementChecked /\ Here.op = "create_tvf" /\ AtStatement
    BY <1>3, <1>7, StatementsAreChecked DEF StatementChecked, CreateTableFunction
  <2>2. /\ tvfs_' = tvfs_ \cup {Here.name} /\ procedure_bodies' = procedure_bodies
        /\ outcome' = IF Here.name \in tvfs_ THEN "duplicate" ELSE outcome
    BY <1>7 DEF CreateTableFunction
  <2>3. Here.name \in tvfs_ <=> DefinedBefore
    BY <1>1, <1>2, <2>1 DEF RoutinesTellHistory, Defined, DefinedBefore
  <2> QED BY <1>1, <2>1, <2>2, <2>3 DEF RoutineDefined
<1>8. CASE CreateProcedure
  <2>1. StatementChecked /\ Here.op = "create_procedure" /\ AtStatement
    BY <1>3, <1>8, StatementsAreChecked DEF StatementChecked, CreateProcedure
  <2>2. /\ tvfs_' = tvfs_ /\ DOMAIN procedure_bodies' = DOMAIN procedure_bodies \cup {Here.name}
        /\ outcome' = IF Here.name \in DOMAIN procedure_bodies THEN "duplicate" ELSE outcome
    BY <1>8 DEF CreateProcedure, With
  <2>3. Here.name \in DOMAIN procedure_bodies <=> DefinedBefore
    BY <1>1, <1>2, <2>1 DEF RoutinesTellHistory, Defined, DefinedBefore
  <2> QED BY <1>1, <2>1, <2>2, <2>3 DEF RoutineDefined
<1> QED BY <1>4, <1>5, <1>6, <1>7, <1>8

\* So no statement but the last is the second to define its routine.
LEMMA StatementsKeepHistory ==
  ASSUME CatalogInv, DuplicatesEndTheCheck, RoutinesTellHistory, RoutineDefined
  PROVE  DuplicatesEndTheCheck' /\ RoutinesTellHistory'
<1>1. /\ outcome = "running" /\ StatementChecked /\ schema' = schema /\ outcome' # "starting"
      /\ Here.op \in {"create_tvf", "create_procedure"} => Here.name \in Routines
  BY StatementHere DEF RoutineDefined, StatementChecked, Targets
<1>2. DuplicatesEndTheCheck'
  <2>1. ~SchemaClashes /\ ~RoutineDefinedTwice
    BY <1>1 DEF DuplicatesEndTheCheck
  <2>2. ~SchemaClashes'
    BY <1>1, <2>1 DEF SchemaClashes
  <2>3. RoutineDefinedTwice' <=> outcome' = "duplicate"
    BY <1>1, <2>1, SecondDefinition DEF RoutineDefined
  <2> QED BY <2>2, <2>3 DEF DuplicatesEndTheCheck
<1>3. RoutinesTellHistory'
  <2>1. /\ DOMAIN checked' = DOMAIN checked \cup {Latest}
        /\ \A i \in DOMAIN checked : checked'[i] = checked[i]
        /\ checked'[Latest].stmt = Here
    BY <1>1, HistoryGrows
  <2>2. \A op \in {"create_tvf", "create_procedure"} :
          Defined(op)' = IF Here.op = op THEN Defined(op) \cup {Here.name} ELSE Defined(op)
    BY <1>1, <2>1 DEF Defined
  <2>3. tvfs_ = Defined("create_tvf") /\ DOMAIN procedure_bodies = Defined("create_procedure")
    BY <1>1 DEF RoutinesTellHistory
  <2> QED BY <1>1, <2>2, <2>3 DEF RoutineDefined, RoutinesTellHistory
<1> QED BY <1>2, <1>3

\* An entry of the schema ends the program if and only if one before it has its key.
LEMMA EntriesKeepHistory ==
  ASSUME CatalogInv, DuplicatesEndTheCheck, RoutinesTellHistory, AddTable
  PROVE  DuplicatesEndTheCheck' /\ RoutinesTellHistory'
<1>1. /\ outcome = "starting" /\ unloaded # << >> /\ unloaded' = Tail(unloaded)
      /\ UNCHANGED <<schema, checked, tvfs_, procedure_bodies>>
      /\ outcome' = IF Lower[Entry.name] \in DOMAIN tables_ THEN "duplicate" ELSE "starting"
  BY DEF AddTable, Loading, input, routines
<1> DEFINE loaded == Len(schema) - Len(unloaded)
           e == loaded + 1
<1>2. /\ schema \in Seq(Declaration) /\ unloaded \in Seq(Declaration) /\ Len(unloaded) <= Len(schema)
      /\ \A i \in DOMAIN unloaded : unloaded[i] = schema[Len(schema) - Len(unloaded) + i]
  BY DEF CatalogInv, TypeOK
<1>3. /\ Len(unloaded) \in Nat \ {0} /\ Len(schema) \in Nat /\ Entry = unloaded[1]
      /\ Len(unloaded') = Len(unloaded) - 1
  BY <1>1, <1>2 DEF Entry
<1>4. /\ Entry = schema[e] /\ Len(schema') - Len(unloaded') = e /\ e \in DOMAIN schema
      /\ loaded \in Nat /\ 1..e = 1..loaded \cup {e} /\ e \notin 1..loaded
      /\ \A i \in 1..loaded : i \in DOMAIN schema
  BY <1>1, <1>2, <1>3
<1> HIDE DEF loaded, e
<1>5. DOMAIN tables_ = {Lower[schema[i].name] : i \in 1..loaded}
  BY <1>1 DEF CatalogInv, TablesTellHistory, loaded
<1>6. DuplicatesEndTheCheck'
  <2>1. SchemaClashes' <=> SchemaClashes
    BY <1>1 DEF SchemaClashes
  <2>2. ~RoutineDefinedTwice'
    <3>1. ~RoutineDefinedTwice
      BY <1>1 DEF DuplicatesEndTheCheck
    <3> QED BY <1>1, <3>1 DEF RoutineDefinedTwice, DefinedTwice
  <2>3. Lower[Entry.name] \in DOMAIN tables_ => SchemaClashes
    BY <1>4, <1>5 DEF SchemaClashes
  <2> QED BY <1>1, <2>1, <2>2, <2>3 DEF DuplicatesEndTheCheck
<1>7. RoutinesTellHistory'
  <2>1. ASSUME outcome' = "starting",
               NEW i \in 1..e, NEW j \in 1..e, Lower[schema[i].name] = Lower[schema[j].name]
        PROVE  i = j
    <3>1. \A m \in 1..loaded : Lower[schema[m].name] # Lower[schema[e].name]
      BY <1>1, <1>4, <1>5, <2>1
    <3>2. \A m, n \in 1..loaded : Lower[schema[m].name] = Lower[schema[n].name] => m = n
      BY <1>1 DEF RoutinesTellHistory, loaded
    <3> QED BY <1>4, <2>1, <3>1, <3>2
  <2>2. \A op : Defined(op)' = Defined(op)
    BY <1>1 DEF Defined
  <2> QED BY <1>1, <1>4, <2>1, <2>2 DEF RoutinesTellHistory
<1> QED BY <1>6, <1>7

\* Once every entry is loaded, no two of them have one key.
LEMMA WholeSchemaKeepsHistory ==
  ASSUME CatalogInv, DuplicatesEndTheCheck, RoutinesTellHistory, ConstructCatalog
  PROVE  DuplicatesEndTheCheck' /\ RoutinesTellHistory'
<1>1. /\ outcome = "starting" /\ outcome' \in {"running", "error"}
      /\ outcome' = "running" => unloaded = << >>
      /\ UNCHANGED <<schema, checked, unloaded, tvfs_, procedure_bodies>>
  BY DEF ConstructCatalog, input, routines
<1>2. outcome' = "running" => ~SchemaClashes
  <2> SUFFICES ASSUME unloaded = << >> PROVE ~SchemaClashes
    BY <1>1
  <2>1. 1..(Len(schema) - Len(unloaded)) = DOMAIN schema
    BY DEF CatalogInv, TypeOK
  <2> QED BY <1>1, <2>1 DEF RoutinesTellHistory, SchemaClashes
<1>3. /\ SchemaClashes' <=> SchemaClashes
      /\ RoutineDefinedTwice' <=> RoutineDefinedTwice
      /\ \A op : Defined(op)' = Defined(op)
  BY <1>1 DEF SchemaClashes, RoutineDefinedTwice, DefinedTwice, Defined
<1> QED BY <1>1, <1>2, <1>3 DEF DuplicatesEndTheCheck, RoutinesTellHistory

\* Steps that check no statement and load no entry leave the history.
LEMMA HistoryStays ==
  ASSUME DuplicatesEndTheCheck, RoutinesTellHistory,
         UNCHANGED <<schema, unloaded, checked, tvfs_, procedure_bodies>>,
         \/ outcome' = outcome
         \/ outcome \in {"starting", "running"} /\ outcome' = "error"
         \/ outcome = "running" /\ outcome' = "success"
  PROVE  DuplicatesEndTheCheck' /\ RoutinesTellHistory'
<1>1. /\ SchemaClashes' <=> SchemaClashes
      /\ RoutineDefinedTwice' <=> RoutineDefinedTwice
      /\ \A op : Defined(op)' = Defined(op)
  BY DEF SchemaClashes, RoutineDefinedTwice, DefinedTwice, Defined
<1> QED BY <1>1 DEF DuplicatesEndTheCheck, RoutinesTellHistory

\* Where no statement is checked, what is left of the tables is as it was.
LEMMA LastStays ==
  ASSUME LastDefinitionCounts, checked' = checked,
         \A k \in DOMAIN tables_' : k \in DOMAIN tables_ /\ tables_'[k] = tables_[k]
  PROVE  LastDefinitionCounts'
<1>1. \A k : Touching(k)' = Touching(k)
  BY DEF Touching
<1> QED BY <1>1 DEF LastDefinitionCounts

\* Every step keeps what the history says.
LEMMA NextKeepsHistory ==
  ASSUME CatalogInv, HistoryInv, [Next]_vars PROVE HistoryInv'
<1>1. LastDefinitionCounts /\ DuplicatesEndTheCheck /\ RoutinesTellHistory
  BY DEF HistoryInv
<1>2. CASE LoadFails \/ NoScript \/ Succeed \/ AnalysisFails \/ Terminated \/ UNCHANGED vars
  <2>1. UNCHANGED <<schema, unloaded, checked, tables_, tvfs_, procedure_bodies>>
    BY <1>2, QuietActions DEF NothingMoves
  <2>2. \/ outcome' = outcome
        \/ outcome \in {"starting", "running"} /\ outcome' = "error"
        \/ outcome = "running" /\ outcome' = "success"
    BY <1>2 DEF LoadFails, Loading, NoScript, Succeed, AnalysisFails, AtStatement, Terminated, vars
  <2> QED BY <1>1, <2>1, <2>2, HistoryStays, LastStays DEF HistoryInv
<1>3. CASE \/ SkipStatement \/ OtherStatement \/ CreateFunction \/ CreateTableFunction
           \/ CreateProcedure \/ Call \/ CreateTable \/ DropTable
  <2>1. TablesUntouched \/ TableCreated \/ TableDropped
    BY <1>3, StatementActions, TableActions
  <2>2. RoutineDefined
    BY <1>1, <1>3, StatementsDefine
  <2> QED BY <1>1, <2>1, <2>2, StatementsAreLast, StatementsKeepHistory DEF HistoryInv
<1>4. CASE AddTable
  BY <1>1, <1>4, SchemaIsFirst, EntriesKeepHistory DEF HistoryInv
<1>5. CASE ConstructCatalog
  <2>1. UNCHANGED <<checked, tables_>>
    BY <1>5 DEF ConstructCatalog, tables
  <2> QED BY <1>1, <1>5, <2>1, LastStays, WholeSchemaKeepsHistory DEF HistoryInv
<1>6. CASE OpenFile \/ Return \/ CloseFile
  <2>1. UNCHANGED <<schema, unloaded, checked, tables_, tvfs_, procedure_bodies, outcome>>
    BY <1>6 DEF OpenFile, Return, CloseFile, input, tables, routines
  <2> QED BY <1>1, <2>1, HistoryStays, LastStays DEF HistoryInv
<1>7. CASE RemoveTempTable
  <2>1. UNCHANGED <<schema, unloaded, checked, tvfs_, procedure_bodies, outcome>>
    BY <1>7 DEF RemoveTempTable, input, routines
  <2>2. tables_' = Without(tables_, Key(Head(temp_table_names)))
    BY <1>7 DEF RemoveTempTable, DropOwnedTableIfExists
  <2>3. \A k \in DOMAIN tables_' : k \in DOMAIN tables_ /\ tables_'[k] = tables_[k]
    BY <2>2 DEF Without
  <2> QED BY <1>1, <2>1, <2>3, HistoryStays, LastStays DEF HistoryInv
<1>8. CASE RemoveTempFunction
  <2>1. /\ UNCHANGED <<schema, unloaded, checked, tables_, tvfs_, procedure_bodies>>
        /\ outcome = "running" /\ outcome' = "running"
    BY <1>8, RemoveTempFunctionKeepsInv DEF RemoveTempFunction, ScriptIsOver, input, tables
  <2> QED BY <1>1, <2>1, HistoryStays, LastStays DEF HistoryInv
<1> QED BY <1>2, <1>3, <1>4, <1>5, <1>6, <1>7, <1>8 DEF Next

-----------------------------------------------------------------------------
\* The invariant holds throughout the check of every plan.
THEOREM Invariance == Spec => []Inv
<1>1. Init => Inv
  <2>1. ASSUME Init PROVE SchemaIsLoaded
    <3>1. unloaded = schema /\ outcome = "starting" /\ schema \in Seq(Declaration)
      BY <2>1, InitInv DEF Init, CatalogInv, TypeOK
    <3>2. 1..(Len(schema) - Len(unloaded)) = {}
      BY <3>1
    <3> QED BY <3>1, <3>2 DEF SchemaIsLoaded
  <2>2. ASSUME Init PROVE HistoryInv
    <3>1. /\ unloaded = schema /\ outcome = "starting" /\ schema \in Seq(Declaration)
          /\ checked = << >> /\ tables_ = << >> /\ tvfs_ = {} /\ procedure_bodies = << >>
      BY <2>2, InitInv DEF Init, CatalogInv, TypeOK
    <3>2. 1..(Len(schema) - Len(unloaded)) = {}
      BY <3>1
    <3>3. DOMAIN checked = {} /\ DOMAIN tables_ = {} /\ DOMAIN procedure_bodies = {}
      BY <3>1
    <3>4. ~RoutineDefinedTwice /\ \A op : Defined(op) = {}
      BY <3>3 DEF RoutineDefinedTwice, Defined
    <3> QED BY <3>1, <3>2, <3>3, <3>4
         DEF HistoryInv, LastDefinitionCounts, DuplicatesEndTheCheck, RoutinesTellHistory
  <2> QED BY <2>1, <2>2, InitInv DEF Inv
<1>2. Inv /\ [Next]_vars => Inv'
  BY NextKeepsInv, NextKeepsSchema, NextKeepsHistory DEF Inv
<1> QED BY <1>1, <1>2, PTL DEF Spec

\* DROP and the replacement in CREATE never free a table and leave its entry.
THEOREM EntriesNeverDangle == Spec => []NoEntryDangles
<1>1. Inv => NoEntryDangles
  BY DEF Inv, CatalogInv
<1> QED BY <1>1, Invariance, PTL

\* The tables that a statement may read are those that the statements before it
\* have made and not dropped, in whatever file of the plan.
THEOREM TablesAreAsTold == Spec => []CatalogTellsHistory
<1>1. Inv => CatalogTellsHistory
  BY DEF Inv, CatalogInv, TablesTellHistory, CatalogTellsHistory
<1> QED BY <1>1, Invariance, PTL

\* A table that it may read is the one that the last statement about its name has
\* made, or that of the schema if there is none.
THEOREM LastDefinitionIsRead == Spec => []LastDefinitionCounts
<1>1. Inv => LastDefinitionCounts
  BY DEF Inv, HistoryInv
<1> QED BY <1>1, Invariance, PTL

\* A second definition of what is defined ends the program, and nothing else does so:
\* temporary functions of two files are never in each other's way.
THEOREM DuplicatesAreDefined == Spec => []DuplicatesEndTheCheck
<1>1. Inv => DuplicatesEndTheCheck
  BY DEF Inv, HistoryInv
<1> QED BY <1>1, Invariance, PTL

\* The functions that it may call are the permanent ones of the statements before
\* it, and the temporary ones of its own file.
THEOREM FunctionsAreAsTold == Spec => []FunctionsTellHistory
<1>1. Inv => FunctionsTellHistory
  <2> SUFFICES ASSUME Inv, outcome = "running", ~ScriptIsOver
               PROVE  functions_ =
                        {f \in Routines :
                           \E i \in DOMAIN checked :
                             /\ checked[i].stmt.op = "create_function" /\ checked[i].stmt.name = f
                             /\ checked[i].stmt.temp => frames # << >> /\ checked[i].file = Head(unread)}
    BY DEF FunctionsTellHistory
  <2> DEFINE temporary == {temp_function_names[i] : i \in DOMAIN temp_function_names}
  <2>1. functions_ = PermanentFunctions \cup temporary
    BY DEF Inv, CatalogInv, FunctionsTellNames
  <2>2. temporary = IF frames = << >> THEN {} ELSE TempFunctionsHere
    <3>1. CASE frames = << >>
      <4>1. temp_function_names = << >>
        BY <3>1 DEF Inv, CatalogInv, FilesInTurn
      <4>2. DOMAIN temp_function_names = {}
        BY <4>1
      <4> QED BY <3>1, <4>2
    <3>2. CASE frames # << >>
      BY <3>2 DEF Inv, CatalogInv, FunctionsTellNames
    <3> QED BY <3>1, <3>2
  <2> HIDE DEF temporary
  <2> QED BY <2>1, <2>2 DEF PermanentFunctions, TempFunctionsHere
<1> QED BY <1>1, Invariance, PTL

\* Between two files the catalog owns no temporary table.
THEOREM TempTablesStayHome == Spec => []TempTablesAreLocal
<1>1. Inv => TempTablesAreLocal
  <2> SUFFICES ASSUME Inv, frames = << >>, NEW i \in DOMAIN owned_tables_
               PROVE  ~owned_tables_[i].temp
    BY DEF TempTablesAreLocal
  <2>1. temp_table_names = << >>
    BY DEF Inv, CatalogInv, FilesInTurn
  <2>2. DOMAIN temp_table_names = {}
    BY <2>1
  <2> QED BY <2>2 DEF Inv, CatalogInv, OwnedTellsHistory
<1> QED BY <1>1, Invariance, PTL

\* The removal of temporary functions never ends the program.
THEOREM RemovalNeverFails == Spec => []TempFunctionsAreFound
<1>1. Init => TempFunctionsAreFound
  BY DEF Init, TempFunctionsAreFound
<1>2. ASSUME Inv, TempFunctionsAreFound, [Next]_vars
      PROVE  TempFunctionsAreFound'
  <2>1. CASE RemoveTempFunction
    BY <1>2, <2>1, RemoveTempFunctionKeepsInv DEF Inv, TempFunctionsAreFound
  <2>2. CASE Terminated \/ UNCHANGED vars
    BY <1>2, <2>2 DEF Terminated, vars, TempFunctionsAreFound
  <2>3. CASE AddTable \/ LoadFails \/ ConstructCatalog \/ OpenFile \/ NoScript \/ Succeed
    BY <1>2, <2>3 DEF AddTable, LoadFails, ConstructCatalog, OpenFile, NoScript, Succeed,
       TempFunctionsAreFound
  <2>4. CASE AnalysisFails \/ SkipStatement \/ CreateTable \/ CreateFunction \/ CreateTableFunction
             \/ CreateProcedure \/ Call \/ OtherStatement
    BY <1>2, <2>4 DEF AnalysisFails, SkipStatement, CreateTable, CreateFunction, CreateTableFunction,
       CreateProcedure, Call, OtherStatement, TempFunctionsAreFound
  <2>5. CASE DropTable \/ Return \/ RemoveTempTable \/ CloseFile
    BY <1>2, <2>5 DEF DropTable, DropOwnedTable, Return, RemoveTempTable, CloseFile,
       TempFunctionsAreFound
  <2> QED BY <1>2, <2>1, <2>2, <2>3, <2>4, <2>5 DEF Next
<1> QED BY <1>1, <1>2, Invariance, PTL DEF Spec

\* Before the first statement is checked, every entry of the schema is a table,
\* and its columns have the types that tell apart what they mean.
THEOREM SchemaIsComplete == Spec => []SchemaIsWhole
<1>1. Inv => SchemaIsWhole
  <2>1. SUFFICES ASSUME Inv, outcome = "running", checked = << >>,
                        NEW i \in DOMAIN schema, NEW j \in DOMAIN schema
        PROVE  LET TypesOf(n) == tables_[Lower[schema[n].name]].columns
                   Same(m, a, n, b) == Meaning[schema[m].columns[a]] = Meaning[schema[n].columns[b]]
               IN  /\ Lower[schema[i].name] \in DOMAIN tables_
                   /\ DOMAIN TypesOf(i) = DOMAIN schema[i].columns
                   /\ \A a \in DOMAIN TypesOf(i), b \in DOMAIN TypesOf(j) :
                        TypesOf(i)[a] = TypesOf(j)[b] <=> Same(i, a, j, b)
    BY DEF SchemaIsWhole
  <2>2. schema \in Seq(Declaration) /\ unloaded = << >>
    BY <2>1 DEF Inv, CatalogInv, TypeOK, SchemaIsLoaded
  <2>3. 1..(Len(schema) - Len(unloaded)) = DOMAIN schema
    BY <2>2
  <2>4. \A n \in DOMAIN schema :
          /\ \A a \in DOMAIN schema[n].columns : schema[n].columns[a] \in Columns
          /\ \A a \in DOMAIN schema[n].columns : Readable[schema[n].columns[a]]
          /\ Lower[schema[n].name] \in DOMAIN tables_
          /\ tables_[Lower[schema[n].name]].columns =
               [a \in DOMAIN schema[n].columns |->
                  ConvertSupportedTypeToZetaSQLType[schema[n].columns[a]]]
    <3>1. TAKE n \in DOMAIN schema
    <3>2. schema[n].columns \in Seq(Columns)
      <4>1. schema[n] \in Declaration
        BY <2>2
      <4> QED BY <4>1 DEF Declaration
    <3>3. /\ \A a \in DOMAIN schema[n].columns : Readable[schema[n].columns[a]]
          /\ Lower[schema[n].name] \in DOMAIN tables_
          /\ tables_[Lower[schema[n].name]] = SchemaTable(schema[n])
      BY <2>1, <2>3 DEF Inv, SchemaIsLoaded
    <3> QED BY <3>2, <3>3 DEF SchemaTable, Table
  <2> DEFINE convert == ConvertSupportedTypeToZetaSQLType
             TypesOf(n) == tables_[Lower[schema[n].name]].columns
  <2>5. ASSUME NEW a \in DOMAIN TypesOf(i), NEW b \in DOMAIN TypesOf(j)
        PROVE  TypesOf(i)[a] = TypesOf(j)[b]
                 <=> Meaning[schema[i].columns[a]] = Meaning[schema[j].columns[b]]
    <3>1. /\ schema[i].columns[a] \in Columns /\ Readable[schema[i].columns[a]]
          /\ schema[j].columns[b] \in Columns /\ Readable[schema[j].columns[b]]
      BY <2>4, <2>5
    <3>2. TypesOf(i)[a] = convert[schema[i].columns[a]] /\ TypesOf(j)[b] = convert[schema[j].columns[b]]
      <4>1. \A n \in DOMAIN schema :
              TypesOf(n) = [k \in DOMAIN schema[n].columns |-> convert[schema[n].columns[k]]]
        BY <2>4
      <4> HIDE DEF TypesOf, convert
      <4>2. \A n \in DOMAIN schema : \A k \in DOMAIN TypesOf(n) :
              TypesOf(n)[k] = convert[schema[n].columns[k]]
        BY <4>1
      <4> QED BY <2>5, <4>2
    <3>3. convert[schema[i].columns[a]] = convert[schema[j].columns[b]]
            <=> Meaning[schema[i].columns[a]] = Meaning[schema[j].columns[b]]
      BY <3>1, TypesAreMeanings
    <3> HIDE DEF TypesOf, convert
    <3> QED BY <3>2, <3>3
  <2>6. DOMAIN TypesOf(i) = DOMAIN schema[i].columns /\ Lower[schema[i].name] \in DOMAIN tables_
    BY <2>4
  <2> HIDE DEF TypesOf
  <2>7. \A a \in DOMAIN TypesOf(i), b \in DOMAIN TypesOf(j) :
          TypesOf(i)[a] = TypesOf(j)[b]
            <=> Meaning[schema[i].columns[a]] = Meaning[schema[j].columns[b]]
    BY <2>5
  <2> QED BY <2>6, <2>7 DEF TypesOf
<1> QED BY <1>1, Invariance, PTL
===============================================================================
