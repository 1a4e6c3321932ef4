----------------------- MODULE IdentifierResolverProofs -----------------------
(***************************************************************************)
(* Proofs about IdentifierResolver: what the visitor and the static map    *)
(* know at every node of the walk, and what the information of a file is,  *)
(* for any number of files in any order.                                   *)
(***************************************************************************)
EXTENDS IdentifierResolver, SequenceTheorems, TLAPS

-----------------------------------------------------------------------------
(* A walk that goes on from node n.                                        *)

\* The sets of names grow by what the node adds.
LEMMA SetsGrow ==
  ASSUME NEW s \in Seq(Node), NEW n \in DOMAIN s
  PROVE  /\ TemporaryBefore(s, n + 1) =
              TemporaryBefore(s, n) \cup {t \in Tables : s[n].op = "create" /\ s[n].temp /\ s[n].name = t}
         /\ \A op \in Ops :
              TargetsBefore(s, n + 1, op) =
                TargetsBefore(s, n, op)
                  \cup {t \in Tables : s[n].op = op /\ s[n].name = t /\ t \notin TemporaryBefore(s, n)}
<1>1. n \in Nat \ {0}
  BY DEF Node
<1>2. 1..((n + 1) - 1) = 1..(n - 1) \cup {n}
  BY <1>1
<1> QED BY <1>2 DEF TemporaryBefore, TargetsBefore

\* A node other than the end of a body stands in the body that the walk is in.
LEMMA InsideIsInBody ==
  ASSUME NEW s \in Seq(Node), NEW n \in DOMAIN s, s[n].op # "leave", NEW p \in Functions
  PROVE  InBodyOf(s, n, p) <=> Inside(s, n, p)
<1>1. n \in Nat \ {0}
  OBVIOUS
<1>2. \A j \in 1..(n - 1) : j..n = j..(n - 1) \cup {n}
  BY <1>1
<1> QED BY <1>2 DEF InBodyOf, Inside

\* Bodies begin and end at their nodes only.
LEMMA InsideGoesOn ==
  ASSUME NEW s \in Seq(Node), NEW n \in DOMAIN s, NEW p \in Functions
  PROVE  Inside(s, n + 1, p) <=>
           \/ s[n].op = "enter" /\ s[n].name = p /\ ~s[n].temp
           \/ Inside(s, n, p) /\ s[n].op # "leave"
<1>1. n \in Nat \ {0}
  OBVIOUS
<1>2. 1..((n + 1) - 1) = 1..(n - 1) \cup {n}
  BY <1>1
<1>3. \A j \in 1..(n - 1) : j..((n + 1) - 1) = j..(n - 1) \cup {n}
  BY <1>1
<1>4. n..((n + 1) - 1) = {n}
  BY <1>1
<1> QED BY <1>2, <1>3, <1>4 DEF Inside

\* No body is left open where another begins, ...
LEMMA EnterIsOutside ==
  ASSUME NEW s \in Seq(Node), BodiesAreFlat(s), NEW n \in DOMAIN s, s[n].op = "enter",
         NEW p \in Functions
  PROVE  ~Inside(s, n, p)
<1> SUFFICES ASSUME NEW j \in 1..(n - 1), s[j].op = "enter", \A k \in j..(n - 1) : s[k].op # "leave"
             PROVE  FALSE
  BY DEF Inside
<1>1. n \in Nat /\ j \in DOMAIN s /\ j < n
  OBVIOUS
<1>2. PICK k \in j..n : s[k].op = "leave"
  BY <1>1 DEF BodiesAreFlat
<1> QED BY <1>1, <1>2

\* ... nor where the body of a temporary procedure ends.
LEMMA TempLeaveIsOutside ==
  ASSUME NEW s \in Seq(Node), BodiesAreFlat(s), NEW n \in DOMAIN s, s[n].op = "leave", s[n].temp,
         NEW p \in Functions
  PROVE  ~Inside(s, n, p)
<1> SUFFICES ASSUME NEW i \in 1..(n - 1), s[i].op = "enter", ~s[i].temp,
                    \A k \in i..(n - 1) : s[k].op # "leave"
             PROVE  FALSE
  BY DEF Inside
<1>1. n \in Nat /\ i \in DOMAIN s /\ i < n
  OBVIOUS
<1>2. PICK j \in 1..(n - 1) : /\ s[j].op = "enter" /\ s[j].temp = s[n].temp
                              /\ \A k \in (j + 1)..(n - 1) : s[k].op \notin {"enter", "leave"}
  BY DEF BodiesAreFlat
<1>3. i # j /\ ~(i > j)
  <2>1. i # j
    BY <1>2, Zenon
  <2>2. i > j => i \in (j + 1)..(n - 1)
    BY <1>1
  <2> QED BY <1>2, <2>1, <2>2
<1>4. j \in DOMAIN s /\ i < j
  BY <1>1, <1>3
<1>5. PICK k \in i..j : s[k].op = "leave"
  BY <1>1, <1>2, <1>4 DEF BodiesAreFlat
<1> QED BY <1>1, <1>2, <1>4, <1>5

\* What a body creates grows with the node.
LEMMA BodyGrows ==
  ASSUME NEW s \in Seq(Node), NEW n \in DOMAIN s, NEW p \in Functions, NEW t \in Tables
  PROVE  BodyCreates(s, n + 1, p, t) <=>
           (BodyCreates(s, n, p, t) \/ (CreatesAt(s, n, t) /\ Inside(s, n, p)))
<1>1. 1..((n + 1) - 1) = 1..(n - 1) \cup {n}
  OBVIOUS
<1>2. CreatesAt(s, n, t) => (InBodyOf(s, n, p) <=> Inside(s, n, p))
  BY InsideIsInBody DEF CreatesAt
<1> QED BY <1>1, <1>2 DEF BodyCreates

\* What a file creates grows with the node.
LEMMA CreatedGrows ==
  ASSUME NEW past, NEW s \in Seq(Node), NEW n \in DOMAIN s
  PROVE  CreatedBefore(past, s, n + 1) =
           CreatedBefore(past, s, n) \cup
             {t \in Tables :
                \/ CreatesAt(s, n, t) /\ \A p \in Functions : ~Inside(s, n, p)
                \/ /\ s[n].op = "call"
                   /\ CreatedEarlier(past, s[n].name, t) \/ BodyCreates(s, n, s[n].name, t)}
<1>1. 1..((n + 1) - 1) = 1..(n - 1) \cup {n}
  OBVIOUS
<1>2. \A t \in Tables : CreatesAt(s, n, t) => \A p \in Functions : InBodyOf(s, n, p) <=> Inside(s, n, p)
  BY InsideIsInBody DEF CreatesAt
<1> QED BY <1>1, <1>2 DEF CreatedBefore

-----------------------------------------------------------------------------
(* A step of the walk.                                                     *)

\* Between the files and within one, what there is to read.
LEMMA FileHere ==
  ASSUME Inv, unread # << >>
  PROVE  /\ File \in Files
         /\ script[File] \in Seq(Node)
         /\ BodiesAreFlat(script[File])
BY ScriptsAssumption DEF Inv, TypeOK, File

\* ... and the node that a visit method sees.
LEMMA NodeHere ==
  ASSUME Inv, NEW op \in Ops, Visit(op)
  PROVE  /\ unread # << >>
         /\ at \in DOMAIN script[File]
         /\ Here \in Node /\ Here.op = op /\ Here.name \in Targets(op)
<1>1. unread # << >> /\ at \in Nat
  BY DEF Inv, TypeOK, VisitorTellsWalk, Visit
<1>2. script[File] \in Seq(Node)
  BY <1>1, FileHere
<1>3. at \in DOMAIN script[File]
  BY <1>1, <1>2 DEF Visit
<1>4. Here \in Node
  BY <1>2, <1>3 DEF Here
<1> QED BY <1>1, <1>3, <1>4 DEF Visit, Node

Added(op) == {t \in Tables : Here.op = op /\ Here.name = t /\ t \notin temporary_tables}

\* What every visit method must do to the visitor and to the map.
VisitorGoesOn ==
  /\ temporary_tables' =
       temporary_tables \cup {t \in Tables : Here.op = "create" /\ Here.temp /\ Here.name = t}
  /\ information'.inserted = information.inserted \cup Added("insert")
  /\ information'.updated = information.updated \cup Added("update")
  /\ information'.dropped = information.dropped \cup Added("drop")
  /\ information'.created =
       information.created \cup
         {t \in Tables :
            \/ Here.op = "create" /\ ~Here.temp /\ Here.name = t /\ ~is_inside_procedure
            \/ Here.op = "call" /\ t \in procedure_artifacts_map[Here.name]}
  /\ \A p \in Functions :
       (is_inside_procedure' /\ procedure_name' = p) <=>
         \/ Here.op = "enter" /\ Here.name = p /\ ~Here.temp
         \/ is_inside_procedure /\ procedure_name = p /\ Here.op # "leave"
  /\ \A p \in Functions : \A t \in Tables :
       t \in procedure_artifacts_map'[p] <=>
         \/ t \in procedure_artifacts_map[p]
         \/ /\ Here.op = "create" /\ ~Here.temp /\ Here.name = t
            /\ is_inside_procedure /\ procedure_name = p
  /\ (warning_as_error /\ ended' = "no") =>
       information'.inserted \cup information'.updated \subseteq information'.created

\* A visit method that does so keeps the invariant.
LEMMA GoingOnKeepsInv ==
  ASSUME Inv, NEW op \in Ops, Visit(op), TypeOK', VisitorGoesOn
  PROVE  Inv'
<1> DEFINE s == script[File]
<1>1. /\ unread # << >> /\ at \in DOMAIN s /\ at > 0
      /\ s \in Seq(Node) /\ BodiesAreFlat(s)
      /\ Here = s[at] /\ Here.op = op /\ Here.name \in Targets(op)
  BY NodeHere, FileHere DEF Here, Visit
<1>2. /\ at' = at + 1 /\ script' = script /\ unread' = unread /\ resolved' = resolved
      /\ warning_as_error' = warning_as_error
      /\ script'[File'] = s
  BY DEF Visit, input, File
<1>3. at' > 0 /\ at' <= Len(s) + 1
  BY <1>1, <1>2
<1>4. Past' = Past
  BY <1>2 DEF Past
<1>6. temporary_tables' = TemporaryBefore(s, at + 1)
  BY <1>1, SetsGrow DEF Inv, VisitorTellsWalk, VisitorGoesOn
<1>7. /\ information'.inserted = TargetsBefore(s, at + 1, "insert")
      /\ information'.updated = TargetsBefore(s, at + 1, "update")
      /\ information'.dropped = TargetsBefore(s, at + 1, "drop")
  <2>1. {"insert", "update", "drop"} \subseteq Ops
    BY DEF Ops
  <2> QED BY <1>1, <2>1, SetsGrow DEF Inv, VisitorTellsWalk, VisitorGoesOn, Added
<1>8. \A p \in Functions : Inside(s, at, p) <=> (is_inside_procedure /\ procedure_name = p)
  BY <1>1 DEF Inv, VisitorTellsWalk
<1>9. \A p \in Functions : \A t \in Tables :
        t \in procedure_artifacts_map[p] <=> (CreatedEarlier(Past, p, t) \/ BodyCreates(s, at, p, t))
  BY <1>1 DEF Inv, MapTellsBodies
<1>10. information'.created = CreatedBefore(Past, s, at + 1)
  <2>1. (\A p \in Functions : ~Inside(s, at, p)) <=> ~is_inside_procedure
    BY <1>8 DEF Inv, TypeOK
  <2>2. op = "call" => Here.name \in Functions
    BY <1>1 DEF Targets
  <2>3. \A t \in Tables :
          op = "call" => (t \in procedure_artifacts_map[Here.name] <=>
                            (CreatedEarlier(Past, Here.name, t) \/ BodyCreates(s, at, Here.name, t)))
    BY <1>9, <2>2
  <2>4. information.created = CreatedBefore(Past, s, at)
    BY <1>1 DEF Inv, VisitorTellsWalk
  <2>5. \A t \in Tables : CreatesAt(s, at, t) <=> (Here.op = "create" /\ ~Here.temp /\ Here.name = t)
    BY <1>1 DEF CreatesAt
  <2>6. CreatedBefore(Past, s, at + 1) =
          CreatedBefore(Past, s, at) \cup
            {t \in Tables :
               \/ CreatesAt(s, at, t) /\ ~is_inside_procedure
               \/ op = "call" /\ t \in procedure_artifacts_map[Here.name]}
    <3>1. CreatedBefore(Past, s, at + 1) =
            CreatedBefore(Past, s, at) \cup
              {t \in Tables :
                 \/ CreatesAt(s, at, t) /\ \A p \in Functions : ~Inside(s, at, p)
                 \/ /\ s[at].op = "call"
                    /\ CreatedEarlier(Past, s[at].name, t) \/ BodyCreates(s, at, s[at].name, t)}
      BY <1>1, CreatedGrows
    <3>2. ASSUME NEW t \in Tables
          PROVE  (\/ CreatesAt(s, at, t) /\ \A p \in Functions : ~Inside(s, at, p)
                  \/ /\ s[at].op = "call"
                     /\ CreatedEarlier(Past, s[at].name, t) \/ BodyCreates(s, at, s[at].name, t))
                 <=> (\/ CreatesAt(s, at, t) /\ ~is_inside_procedure
                      \/ op = "call" /\ t \in procedure_artifacts_map[Here.name])
      BY <1>1, <2>1, <2>3
    <3> QED BY <3>1, <3>2
  <2>7. information'.created =
          information.created \cup
            {t \in Tables :
               \/ CreatesAt(s, at, t) /\ ~is_inside_procedure
               \/ op = "call" /\ t \in procedure_artifacts_map[Here.name]}
    BY <1>1, <2>5 DEF VisitorGoesOn
  <2> QED BY <2>4, <2>6, <2>7
<1>11. \A p \in Functions :
         Inside(s, at + 1, p) <=> (is_inside_procedure' /\ procedure_name' = p)
  BY <1>1, <1>8, InsideGoesOn DEF VisitorGoesOn
<1>12. VisitorTellsWalk'
  BY <1>1, <1>2, <1>3, <1>4, <1>6, <1>7, <1>10, <1>11 DEF VisitorTellsWalk, VisitorGoesOn
<1>13. \A p \in Functions : \A t \in Tables :
         t \in procedure_artifacts_map'[p] <=> (CreatedEarlier(Past, p, t) \/ BodyCreates(s, at + 1, p, t))
  <2> SUFFICES ASSUME NEW p \in Functions, NEW t \in Tables
               PROVE  t \in procedure_artifacts_map'[p] <=>
                        (CreatedEarlier(Past, p, t) \/ BodyCreates(s, at + 1, p, t))
    OBVIOUS
  <2>1. CreatesAt(s, at, t) <=> (Here.op = "create" /\ ~Here.temp /\ Here.name = t)
    BY <1>1 DEF CreatesAt
  <2> QED BY <1>1, <1>8, <1>9, <2>1, BodyGrows DEF VisitorGoesOn
<1>14. MapTellsBodies'
  BY <1>2, <1>3, <1>4, <1>13 DEF MapTellsBodies
<1> QED BY <1>12, <1>14 DEF Inv
-----------------------------------------------------------------------------
(* The visit methods.                                                      *)

\* What a visit method leaves alone keeps its type, and calls are functions.
LEMMA VisitTypes ==
  ASSUME Inv, NEW op \in Ops, Visit(op)
  PROVE  /\ script' \in Scripts /\ warning_as_error' \in BOOLEAN
         /\ unread' \in Seq(Files) /\ at' \in Nat
         /\ resolved' \in Seq([file : Files, info : Information])
         /\ Here.calls \subseteq Functions
         /\ ended = "no"
<1>1. Here \in Node
  BY NodeHere
<1> QED BY <1>1 DEF Inv, TypeOK, Visit, input, Node

\* A method that makes nothing temporary, no target and no body goes on with
\* what it has, plus the tables of a procedure that it calls.
LEMMA NothingAdded ==
  ASSUME Inv, NEW op \in Ops, Visit(op),
         op \notin {"create", "insert", "update", "drop", "call", "enter", "leave"},
         information' \in Information,
         \A field \in {"created", "inserted", "updated", "dropped"} :
           information'[field] = information[field],
         UNCHANGED <<procedure_artifacts_map, temporary_tables, is_inside_procedure,
                     procedure_name, ended>>
  PROVE  Inv'
<1>1. Here.op = op /\ at > 0
  BY NodeHere DEF Visit
<1>2. TypeOK'
  BY VisitTypes DEF Inv, TypeOK
<1>3. /\ information'.created = information.created
      /\ information'.inserted = information.inserted
      /\ information'.updated = information.updated
      /\ information'.dropped = information.dropped
  OBVIOUS
<1>4. VisitorGoesOn
  BY <1>1, <1>3 DEF VisitorGoesOn, Added, Inv, VisitorTellsWalk
<1> QED BY <1>2, <1>4, GoingOnKeepsInv

\* visitASTFunctionCall and visitASTTVF under any other statement.
LEMMA OtherStatementKeepsInv ==
  ASSUME Inv, OtherStatement PROVE Inv'
<1>1. Visit("query") /\ "query" \in Ops
  BY DEF OtherStatement, Ops
<1>2. information' \in Information
  BY <1>1, VisitTypes DEF OtherStatement, Calling, Information, Inv, TypeOK
<1> QED BY <1>1, <1>2, NothingAdded DEF OtherStatement, Calling, Information, Inv, TypeOK

\* Statements that define or drop a function.
LEMMA FunctionStatementKeepsInv ==
  ASSUME Inv, CreateFunction \/ DropFunction PROVE Inv'
<1>1. CASE CreateFunction
  <2>1. Visit("create_function") /\ "create_function" \in Ops
    BY <1>1 DEF CreateFunction, Ops
  <2>2. Here.name \in Functions /\ Here.calls \subseteq Functions
    BY <2>1, NodeHere, VisitTypes DEF Targets
  <2>3. information' \in Information
    BY <1>1, <2>2 DEF CreateFunction, Calling, Information, Inv, TypeOK
  <2> QED BY <1>1, <2>1, <2>3, NothingAdded DEF CreateFunction, Calling, Information, Inv, TypeOK
<1>2. CASE DropFunction
  <2>1. Visit("drop_function") /\ "drop_function" \in Ops
    BY <1>2 DEF DropFunction, Ops
  <2>2. Here.name \in Functions
    BY <2>1, NodeHere DEF Targets
  <2>3. information' \in Information
    BY <1>2, <2>2 DEF DropFunction, Information, Inv, TypeOK
  <2> QED BY <1>2, <2>1, <2>3, NothingAdded DEF DropFunction, Information, Inv, TypeOK
<1> QED BY <1>1, <1>2

\* A table is made temporary, put into the map, or created by the script.
LEMMA CreateTableKeepsInv ==
  ASSUME Inv, CreateTable PROVE Inv'
<1>1. Visit("create") /\ "create" \in Ops
  BY DEF CreateTable, Ops
<1>2. /\ Here.op = "create" /\ Here.name \in Tables /\ Here.calls \subseteq Functions
      /\ ended = "no" /\ at > 0
  BY <1>1, NodeHere, VisitTypes DEF Targets, Visit
<1>3. /\ UNCHANGED <<is_inside_procedure, procedure_name, ended>>
      /\ information'.inserted = information.inserted
      /\ information'.updated = information.updated
      /\ information'.dropped = information.dropped
  BY DEF CreateTable, Calling, Information, Inv, TypeOK
<1>4. /\ Added("insert") = {} /\ Added("update") = {} /\ Added("drop") = {}
      /\ warning_as_error => information.inserted \cup information.updated \subseteq information.created
  BY <1>2 DEF Added, Inv, VisitorTellsWalk
<1>5. warning_as_error' = warning_as_error
  BY <1>1 DEF Visit, input
<1>6. CASE Here.temp
  <2>1. /\ temporary_tables' = temporary_tables \cup {Here.name}
        /\ information' = Calling(information)
        /\ procedure_artifacts_map' = procedure_artifacts_map
    BY <1>6 DEF CreateTable
  <2>2. information' \in Information /\ information'.created = information.created
    BY <1>2, <2>1 DEF Calling, Information, Inv, TypeOK
  <2>3. TypeOK'
    BY <1>1, <1>2, <1>3, <2>1, <2>2, VisitTypes DEF Inv, TypeOK
  <2>4. VisitorGoesOn
    BY <1>2, <1>3, <1>4, <1>6, <2>1, <2>2 DEF VisitorGoesOn
  <2> QED BY <1>1, <2>3, <2>4, GoingOnKeepsInv
<1>7. CASE ~Here.temp /\ is_inside_procedure
  <2>1. /\ procedure_artifacts_map' =
             [procedure_artifacts_map EXCEPT ![procedure_name] = @ \cup {Here.name}]
        /\ information' = Calling(information)
        /\ temporary_tables' = temporary_tables
    BY <1>7 DEF CreateTable
  <2>2. information' \in Information /\ information'.created = information.created
    BY <1>2, <2>1 DEF Calling, Information, Inv, TypeOK
  <2>3. procedure_name \in Functions /\ procedure_artifacts_map \in [Functions -> SUBSET Tables]
    BY <1>7 DEF Inv, TypeOK
  <2>4. procedure_artifacts_map' \in [Functions -> SUBSET Tables]
    BY <1>2, <2>1, <2>3
  <2>5. TypeOK'
    BY <1>1, <1>2, <1>3, <2>1, <2>2, <2>4, VisitTypes DEF Inv, TypeOK
  <2>6. \A r \in Functions : \A t \in Tables :
          t \in procedure_artifacts_map'[r] <=>
            (t \in procedure_artifacts_map[r] \/ (Here.name = t /\ procedure_name = r))
    BY <2>1, <2>3
  <2>7. VisitorGoesOn
    BY <1>2, <1>3, <1>4, <1>7, <2>1, <2>2, <2>6 DEF VisitorGoesOn
  <2> QED BY <1>1, <2>5, <2>7, GoingOnKeepsInv
<1>8. CASE ~Here.temp /\ ~is_inside_procedure
  <2>1. /\ information' = Calling([information EXCEPT !.created = @ \cup {Here.name}])
        /\ UNCHANGED <<temporary_tables, procedure_artifacts_map>>
    BY <1>8 DEF CreateTable
  <2>2. information' \in Information /\ information'.created = information.created \cup {Here.name}
    BY <1>2, <2>1 DEF Calling, Information, Inv, TypeOK
  <2>3. TypeOK'
    BY <1>1, <1>2, <1>3, <2>1, <2>2, VisitTypes DEF Inv, TypeOK
  <2>4. VisitorGoesOn
    BY <1>2, <1>3, <1>4, <1>8, <2>1, <2>2 DEF VisitorGoesOn
  <2> QED BY <1>1, <2>3, <2>4, GoingOnKeepsInv
<1> QED BY <1>6, <1>7, <1>8

\* A table that is not temporary is dropped.
LEMMA DropTableKeepsInv ==
  ASSUME Inv, DropTable PROVE Inv'
<1>1. Visit("drop") /\ "drop" \in Ops
  BY DEF DropTable, Ops
<1>2. Here.op = "drop" /\ Here.name \in Tables /\ ended = "no" /\ at > 0
  BY <1>1, NodeHere, VisitTypes DEF Targets, Visit
<1>3. /\ UNCHANGED <<procedure_artifacts_map, temporary_tables, is_inside_procedure,
                     procedure_name, ended>>
      /\ information' \in Information
      /\ information'.created = information.created
      /\ information'.inserted = information.inserted
      /\ information'.updated = information.updated
  BY <1>2 DEF DropTable, Information, Inv, TypeOK
<1>4. information'.dropped = information.dropped \cup Added("drop")
  BY <1>2 DEF DropTable, Added, Information, Inv, TypeOK
<1>5. TypeOK'
  BY <1>1, <1>3, VisitTypes DEF Inv, TypeOK
<1>6. VisitorGoesOn
  BY <1>2, <1>3, <1>4 DEF VisitorGoesOn, Added, Inv, VisitorTellsWalk
<1> QED BY <1>1, <1>5, <1>6, GoingOnKeepsInv

\* A call creates what the map tells of the procedure.
LEMMA CallKeepsInv ==
  ASSUME Inv, Call PROVE Inv'
<1>1. Visit("call") /\ "call" \in Ops
  BY DEF Call, Ops
<1>2. /\ Here.op = "call" /\ Here.name \in Functions /\ Here.calls \subseteq Functions
      /\ ended = "no" /\ at > 0
      /\ procedure_artifacts_map[Here.name] \subseteq Tables
  BY <1>1, NodeHere, VisitTypes DEF Targets, Visit, Inv, TypeOK
<1>3. /\ UNCHANGED <<procedure_artifacts_map, temporary_tables, is_inside_procedure,
                     procedure_name, ended>>
      /\ information' \in Information
      /\ information'.inserted = information.inserted
      /\ information'.updated = information.updated
      /\ information'.dropped = information.dropped
      /\ information'.created = information.created \cup procedure_artifacts_map[Here.name]
  BY <1>2 DEF Call, Calling, Information, Inv, TypeOK
<1>4. TypeOK'
  BY <1>1, <1>3, VisitTypes DEF Inv, TypeOK
<1>5. VisitorGoesOn
  BY <1>2, <1>3 DEF VisitorGoesOn, Added, Inv, VisitorTellsWalk
<1> QED BY <1>1, <1>4, <1>5, GoingOnKeepsInv

\* A target is filled: a warning that is an error ends the walk.
LEMMA InsertIntoTableKeepsInv ==
  ASSUME Inv, InsertIntoTable PROVE Inv'
<1>1. Visit("insert") /\ "insert" \in Ops
  BY DEF InsertIntoTable, SideEffect, Ops
<1>2. /\ Here.op = "insert" /\ Here.name \in Tables \cup {NoName} /\ Here.calls \subseteq Functions
      /\ ended = "no" /\ at > 0 /\ NoName \notin Tables
  BY <1>1, NodeHere, VisitTypes, ScriptsAssumption DEF Targets, Visit
<1>3. /\ UNCHANGED <<procedure_artifacts_map, temporary_tables, is_inside_procedure, procedure_name>>
      /\ Added("update") = {} /\ Added("drop") = {}
      /\ warning_as_error => information.inserted \cup information.updated \subseteq information.created
  BY <1>2 DEF InsertIntoTable, SideEffect, Added, Inv, VisitorTellsWalk
<1>4. warning_as_error' = warning_as_error
  BY <1>1 DEF Visit, input
<1>5. CASE Here.name \in temporary_tables \cup {NoName}
  <2>1. information' = Calling(information) /\ ended' = "no"
    <3>1. information' = Calling(information) /\ UNCHANGED ended
      BY <1>5 DEF InsertIntoTable, SideEffect
    <3> QED BY <1>2, <3>1
  <2>2. /\ information' \in Information
        /\ information'.created = information.created
        /\ information'.inserted = information.inserted
        /\ information'.updated = information.updated
        /\ information'.dropped = information.dropped
    BY <1>2, <2>1 DEF Calling, Information, Inv, TypeOK
  <2>3. Added("insert") = {}
    BY <1>2, <1>5 DEF Added
  <2>4. TypeOK'
    BY <1>1, <1>3, <2>1, <2>2, VisitTypes DEF Inv, TypeOK
  <2>5. VisitorGoesOn
    BY <1>2, <1>3, <2>1, <2>2, <2>3 DEF VisitorGoesOn
  <2> QED BY <1>1, <2>4, <2>5, GoingOnKeepsInv
<1>6. CASE Here.name \notin temporary_tables \cup {NoName}
  <2>1. information' = Calling([information EXCEPT !.inserted = @ \cup {Here.name}])
    BY <1>6 DEF InsertIntoTable, SideEffect
  <2>2. /\ information' \in Information /\ Added("insert") = {Here.name}
        /\ information'.created = information.created
        /\ information'.inserted = information.inserted \cup Added("insert")
        /\ information'.updated = information.updated \cup Added("update")
        /\ information'.dropped = information.dropped
    BY <1>2, <1>6, <2>1 DEF Calling, Information, Added, Inv, TypeOK
  <2>3. /\ ended' \in {"no", "warning"}
        /\ (warning_as_error /\ ended' = "no") => Here.name \in information.created
    BY <1>2, <1>6 DEF InsertIntoTable, SideEffect
  <2>4. TypeOK'
    BY <1>1, <1>3, <2>2, <2>3, VisitTypes DEF Inv, TypeOK
  <2>5. (warning_as_error /\ ended' = "no") =>
          information'.inserted \cup information'.updated \subseteq information'.created
    BY <1>3, <2>2, <2>3
  <2>6. VisitorGoesOn
    BY <1>2, <1>3, <2>2, <2>5 DEF VisitorGoesOn
  <2> QED BY <1>1, <2>4, <2>6, GoingOnKeepsInv
<1> QED BY <1>5, <1>6

\* A target is changed: as one that is filled.
LEMMA UpdateTableKeepsInv ==
  ASSUME Inv, UpdateTable PROVE Inv'
<1>1. Visit("update") /\ "update" \in Ops
  BY DEF UpdateTable, SideEffect, Ops
<1>2. /\ Here.op = "update" /\ Here.name \in Tables \cup {NoName} /\ Here.calls \subseteq Functions
      /\ ended = "no" /\ at > 0 /\ NoName \notin Tables
  BY <1>1, NodeHere, VisitTypes, ScriptsAssumption DEF Targets, Visit
<1>3. /\ UNCHANGED <<procedure_artifacts_map, temporary_tables, is_inside_procedure, procedure_name>>
      /\ Added("insert") = {} /\ Added("drop") = {}
      /\ warning_as_error => information.inserted \cup information.updated \subseteq information.created
  BY <1>2 DEF UpdateTable, SideEffect, Added, Inv, VisitorTellsWalk
<1>4. warning_as_error' = warning_as_error
  BY <1>1 DEF Visit, input
<1>5. CASE Here.name \in temporary_tables \cup {NoName}
  <2>1. information' = Calling(information) /\ ended' = "no"
    <3>1. information' = Calling(information) /\ UNCHANGED ended
      BY <1>5 DEF UpdateTable, SideEffect
    <3> QED BY <1>2, <3>1
  <2>2. /\ information' \in Information
        /\ information'.created = information.created
        /\ information'.inserted = information.inserted
        /\ information'.updated = information.updated
        /\ information'.dropped = information.dropped
    BY <1>2, <2>1 DEF Calling, Information, Inv, TypeOK
  <2>3. Added("update") = {}
    BY <1>2, <1>5 DEF Added
  <2>4. TypeOK'
    BY <1>1, <1>3, <2>1, <2>2, VisitTypes DEF Inv, TypeOK
  <2>5. VisitorGoesOn
    BY <1>2, <1>3, <2>1, <2>2, <2>3 DEF VisitorGoesOn
  <2> QED BY <1>1, <2>4, <2>5, GoingOnKeepsInv
<1>6. CASE Here.name \notin temporary_tables \cup {NoName}
  <2>1. information' = Calling([information EXCEPT !.updated = @ \cup {Here.name}])
    BY <1>6 DEF UpdateTable, SideEffect
  <2>2. /\ information' \in Information /\ Added("update") = {Here.name}
        /\ information'.created = information.created
        /\ information'.inserted = information.inserted \cup Added("insert")
        /\ information'.updated = information.updated \cup Added("update")
        /\ information'.dropped = information.dropped
    BY <1>2, <1>6, <2>1 DEF Calling, Information, Added, Inv, TypeOK
  <2>3. /\ ended' \in {"no", "warning"}
        /\ (warning_as_error /\ ended' = "no") => Here.name \in information.created
    BY <1>2, <1>6 DEF UpdateTable, SideEffect
  <2>4. TypeOK'
    BY <1>1, <1>3, <2>2, <2>3, VisitTypes DEF Inv, TypeOK
  <2>5. (warning_as_error /\ ended' = "no") =>
          information'.inserted \cup information'.updated \subseteq information'.created
    BY <1>3, <2>2, <2>3
  <2>6. VisitorGoesOn
    BY <1>2, <1>3, <2>2, <2>5 DEF VisitorGoesOn
  <2> QED BY <1>1, <2>4, <2>6, GoingOnKeepsInv
<1> QED BY <1>5, <1>6

\* A body begins where the visitor is inside no other.
LEMMA EnterProcedureKeepsInv ==
  ASSUME Inv, EnterProcedure PROVE Inv'
<1>1. Visit("enter") /\ "enter" \in Ops
  BY DEF EnterProcedure, Ops
<1>2. /\ Here.op = "enter" /\ Here.name \in Functions /\ ended = "no" /\ at > 0
      /\ unread # << >> /\ at \in DOMAIN script[File]
  BY <1>1, NodeHere, VisitTypes DEF Targets, Visit
<1>3. ~is_inside_procedure
  <2>1. \A p \in Functions : ~Inside(script[File], at, p)
    BY <1>2, FileHere, EnterIsOutside DEF Here
  <2> QED BY <1>2, <2>1 DEF Inv, TypeOK, VisitorTellsWalk
<1>4. /\ UNCHANGED <<procedure_artifacts_map, temporary_tables, ended>>
      /\ information' \in Information
      /\ information'.created = information.created
      /\ information'.inserted = information.inserted
      /\ information'.updated = information.updated
      /\ information'.dropped = information.dropped
  <2>1. UNCHANGED <<procedure_artifacts_map, temporary_tables, ended>>
    BY DEF EnterProcedure
  <2>2. CASE Here.temp
    <3>1. information' = information
      BY <2>2 DEF EnterProcedure
    <3> QED BY <2>1, <3>1 DEF Inv, TypeOK
  <2>3. CASE ~Here.temp
    <3>1. information' = [information EXCEPT !.defined = @ \cup {Here.name}]
      BY <2>3 DEF EnterProcedure
    <3>2. information \in Information
      BY DEF Inv, TypeOK
    <3> QED BY <1>2, <2>1, <3>1, <3>2 DEF Information
  <2> QED BY <2>2, <2>3
<1>5. CASE Here.temp
  <2>1. UNCHANGED <<is_inside_procedure, procedure_name>>
    BY <1>5 DEF EnterProcedure
  <2>2. TypeOK'
    BY <1>1, <1>4, <2>1, VisitTypes DEF Inv, TypeOK
  <2>3. VisitorGoesOn
    BY <1>2, <1>4, <1>5, <2>1 DEF VisitorGoesOn, Added, Inv, VisitorTellsWalk
  <2> QED BY <1>1, <2>2, <2>3, GoingOnKeepsInv
<1>6. CASE ~Here.temp
  <2>1. is_inside_procedure' = TRUE /\ procedure_name' = Here.name
    BY <1>6 DEF EnterProcedure
  <2>2. TypeOK'
    BY <1>1, <1>2, <1>4, <2>1, VisitTypes DEF Inv, TypeOK
  <2>3. VisitorGoesOn
    BY <1>2, <1>3, <1>4, <1>6, <2>1 DEF VisitorGoesOn, Added, Inv, VisitorTellsWalk
  <2> QED BY <1>1, <2>2, <2>3, GoingOnKeepsInv
<1> QED BY <1>5, <1>6

\* A body ends, and the visitor is inside none.
LEMMA LeaveProcedureKeepsInv ==
  ASSUME Inv, LeaveProcedure PROVE Inv'
<1>1. Visit("leave") /\ "leave" \in Ops
  BY DEF LeaveProcedure, Ops
<1>2. /\ Here.op = "leave" /\ ended = "no" /\ at > 0
      /\ unread # << >> /\ at \in DOMAIN script[File]
  BY <1>1, NodeHere, VisitTypes DEF Visit
<1>3. UNCHANGED <<procedure_artifacts_map, information, temporary_tables, procedure_name, ended>>
  BY DEF LeaveProcedure
<1>4. is_inside_procedure' = FALSE
  <2>1. CASE Here.temp
    <3>1. \A p \in Functions : ~Inside(script[File], at, p)
      BY <1>2, <2>1, FileHere, TempLeaveIsOutside DEF Here
    <3>2. is_inside_procedure = FALSE
      BY <1>2, <3>1 DEF Inv, TypeOK, VisitorTellsWalk
    <3> QED BY <2>1, <3>2 DEF LeaveProcedure
  <2>2. CASE ~Here.temp
    BY <2>2 DEF LeaveProcedure
  <2> QED BY <2>1, <2>2
<1>5. TypeOK'
  BY <1>1, <1>3, <1>4, VisitTypes DEF Inv, TypeOK
<1>6. VisitorGoesOn
  BY <1>2, <1>3, <1>4 DEF VisitorGoesOn, Added, Inv, VisitorTellsWalk
<1> QED BY <1>1, <1>5, <1>6, GoingOnKeepsInv

-----------------------------------------------------------------------------
(* Between the files.                                                      *)

\* A new visitor has seen nothing.
LEMMA OpenFileKeepsInv ==
  ASSUME Inv, OpenFile PROVE Inv'
<1> DEFINE s == script[File]
<1>1. /\ unread # << >> /\ at = 0 /\ at' = 1 /\ ended = "no"
      /\ UNCHANGED <<script, warning_as_error, unread, procedure_artifacts_map, resolved, ended>>
      /\ information' = NoInformation /\ temporary_tables' = {}
      /\ is_inside_procedure' = FALSE /\ procedure_name' = NoName
  BY DEF OpenFile, FreshVisitor, input
<1>2. s \in Seq(Node) /\ script'[File'] = s /\ Past' = Past
  BY <1>1, FileHere DEF File, Past
<1>3. NoInformation \in Information
  BY DEF NoInformation, Information
<1>4. TypeOK'
  BY <1>1, <1>3 DEF Inv, TypeOK
<1>5. 1 <= Len(s) + 1 /\ 1..(1 - 1) = {}
  BY <1>2
<1>6. /\ TemporaryBefore(s, 1) = {} /\ CreatedBefore(Past, s, 1) = {}
      /\ \A op \in {"insert", "update", "drop"} : TargetsBefore(s, 1, op) = {}
      /\ \A p \in Functions : ~Inside(s, 1, p)
      /\ \A p \in Functions : \A t \in Tables : ~BodyCreates(s, 1, p, t)
  BY <1>5 DEF TemporaryBefore, CreatedBefore, TargetsBefore, Inside, BodyCreates
<1>7. VisitorTellsWalk'
  BY <1>1, <1>2, <1>5, <1>6 DEF VisitorTellsWalk, NoInformation
<1>8. MapTellsBodies'
  BY <1>1, <1>2, <1>6 DEF Inv, MapTellsBodies
<1> QED BY <1>4, <1>7, <1>8 DEF Inv

\* What is noted when a file has been walked to its end.
LEMMA FileIsWalked ==
  ASSUME Inv, CloseFile
  PROVE  /\ unread # << >> /\ File \in Files
         /\ script[File] \in Seq(Node) /\ at = Len(script[File]) + 1
         /\ UNCHANGED <<script, warning_as_error, procedure_artifacts_map, ended>>
         /\ resolved \in Seq([file : Files, info : Information])
         /\ ended = "no" /\ at' = 0
         /\ \E info \in Information :
              /\ resolved' = Append(resolved, [file |-> File, info |-> info])
              /\ info.created = information.created
              /\ info.inserted = information.inserted
              /\ info.updated = information.updated
              /\ info.dropped = information.dropped
<1> DEFINE s == script[File]
           info == [information EXCEPT !.referenced = TablesOf(s) \ temporary_tables]
<1>1. at > 0 /\ at > Len(s) /\ ended = "no" /\ at' = 0
  BY DEF CloseFile
<1>2. unread # << >> /\ at <= Len(s) + 1
  BY <1>1 DEF Inv, VisitorTellsWalk
<1>3. File \in Files /\ s \in Seq(Node)
  BY <1>2, FileHere
<1>4. at = Len(s) + 1
  BY <1>1, <1>2, <1>3 DEF Inv, TypeOK
<1>5. TablesOf(s) \subseteq Tables
  <2>1. \A i \in DOMAIN s : s[i] \in Node
    BY <1>3
  <2>2. \A i \in DOMAIN s : TablesIn(s[i]) \subseteq Tables
    BY <2>1 DEF TablesIn, Node
  <2> QED BY <2>2 DEF TablesOf
<1>6. /\ info \in Information
      /\ info.created = information.created /\ info.inserted = information.inserted
      /\ info.updated = information.updated /\ info.dropped = information.dropped
  BY <1>5 DEF Information, Inv, TypeOK
<1>7. resolved' = Append(resolved, [file |-> File, info |-> info])
  BY DEF CloseFile
<1>8. /\ UNCHANGED <<script, warning_as_error, procedure_artifacts_map, ended>>
      /\ resolved \in Seq([file : Files, info : Information])
  BY DEF CloseFile, input, Inv, TypeOK
<1>9. \E i \in Information :
        /\ resolved' = Append(resolved, [file |-> File, info |-> i])
        /\ i.created = information.created
        /\ i.inserted = information.inserted
        /\ i.updated = information.updated
        /\ i.dropped = information.dropped
  <2> HIDE DEF info
  <2> QED BY <1>6, <1>7
<1> QED BY <1>1, <1>2, <1>3, <1>4, <1>8, <1>9

\* A file that is noted joins the scripts of the past, and no other does.
LEMMA PastGrows ==
  ASSUME Inv, CloseFile
  PROVE  /\ Past' = Past \cup {script[File]}
         /\ Len(resolved') = Len(resolved) + 1
         /\ resolved'[Len(resolved) + 1].file = File
         /\ \A k \in DOMAIN resolved : resolved'[k] = resolved[k]
<1>1. PICK info \in Information : resolved' = Append(resolved, [file |-> File, info |-> info])
  BY FileIsWalked
<1>2. script' = script /\ resolved \in Seq([file : Files, info : Information]) /\ File \in Files
  BY FileIsWalked
<1>3. DOMAIN resolved' = DOMAIN resolved \cup {Len(resolved) + 1}
  BY <1>1, <1>2
<1>4. /\ resolved'[Len(resolved) + 1] = [file |-> File, info |-> info]
      /\ \A k \in DOMAIN resolved : resolved'[k] = resolved[k]
  BY <1>1, <1>2
<1>5. Past' = {script[resolved'[k].file] : k \in DOMAIN resolved \cup {Len(resolved) + 1}}
  BY <1>2, <1>3 DEF Past
<1> QED BY <1>1, <1>2, <1>4, <1>5 DEF Past

\* The map of the current file becomes that of the files read before.
LEMMA CloseFileKeepsInv ==
  ASSUME Inv, CloseFile PROVE Inv'
<1> DEFINE s == script[File]
<1>1. /\ at = Len(s) + 1 /\ at' = 0 /\ s \in Seq(Node)
      /\ UNCHANGED <<script, warning_as_error, procedure_artifacts_map, ended>>
  BY FileIsWalked
<1>2. Past' = Past \cup {s}
  BY PastGrows
<1>3. resolved' \in Seq([file : Files, info : Information])
  <2>1. PICK info \in Information : resolved' = Append(resolved, [file |-> File, info |-> info])
    BY FileIsWalked
  <2> QED BY <2>1, FileIsWalked
<1>4. unread' \in Seq(Files)
  BY FileIsWalked DEF CloseFile, Inv, TypeOK
<1>5. TypeOK'
  BY <1>1, <1>3, <1>4 DEF CloseFile, visitor, Inv, TypeOK
<1>6. VisitorTellsWalk'
  BY <1>1 DEF VisitorTellsWalk
<1>7. at > 0
  BY <1>1
<1>8. \A p \in Functions : \A t \in Tables :
        t \in procedure_artifacts_map[p] <=> CreatedEarlier(Past, p, t) \/ BodyCreates(s, at, p, t)
  BY <1>7 DEF Inv, MapTellsBodies
<1>9. \A p \in Functions : \A t \in Tables :
        CreatedEarlier(Past \cup {s}, p, t) <=>
          CreatedEarlier(Past, p, t) \/ BodyCreates(s, Len(s) + 1, p, t)
  BY DEF CreatedEarlier
<1>10. MapTellsBodies'
  <2>1. \A p \in Functions : \A t \in Tables :
          t \in procedure_artifacts_map'[p] <=> CreatedEarlier(Past', p, t)
    BY <1>1, <1>2, <1>8, <1>9
  <2> QED BY <1>1, <2>1 DEF MapTellsBodies
<1> QED BY <1>5, <1>6, <1>10 DEF Inv

\* Nothing is known before the first file.
LEMMA InitInv ==
  ASSUME Init PROVE Inv
<1>1. TypeOK
  <2>1. information \in Information
    BY DEF Init, NoInformation, Information
  <2>2. resolved \in Seq([file : Files, info : Information])
    BY DEF Init
  <2> QED BY <2>1, <2>2, ScriptsAssumption DEF Init, TypeOK
<1>2. Past = {}
  BY DEF Init, Past
<1> QED BY <1>1, <1>2 DEF Init, Inv, VisitorTellsWalk, MapTellsBodies, CreatedEarlier

\* A script that alphadag cannot read, and steps that change nothing.
LEMMA GivingUpKeepsInv ==
  ASSUME Inv, ScriptError \/ UNCHANGED vars PROVE Inv'
<1>1. /\ UNCHANGED <<script, warning_as_error, unread, at, procedure_artifacts_map, information,
                     temporary_tables, is_inside_procedure, procedure_name, resolved>>
      /\ ended' \in {"error", ended}
  BY DEF ScriptError, vars, input, visitor
<1>2. TypeOK'
  BY <1>1 DEF Inv, TypeOK
<1>3. Past' = Past /\ File' = File
  BY <1>1 DEF Past, File
<1>4. VisitorTellsWalk'
  BY <1>1, <1>3 DEF Inv, VisitorTellsWalk
<1>5. MapTellsBodies'
  BY <1>1, <1>3 DEF Inv, MapTellsBodies
<1> QED BY <1>2, <1>4, <1>5 DEF Inv

-----------------------------------------------------------------------------
(* The theorems.                                                           *)

\* The visitor always knows what the nodes that it has passed say, and the
\* static map what the bodies of procedures passed so far create.
THEOREM Invariance == Spec => []Inv
<1>1. Init => Inv
  BY InitInv
<1>2. Inv /\ [Next]_vars => Inv'
  <2> SUFFICES ASSUME Inv, [Next]_vars PROVE Inv'
    OBVIOUS
  <2>1. CASE OpenFile
    BY <2>1, OpenFileKeepsInv
  <2>2. CASE CreateTable
    BY <2>2, CreateTableKeepsInv
  <2>3. CASE InsertIntoTable
    BY <2>3, InsertIntoTableKeepsInv
  <2>4. CASE UpdateTable
    BY <2>4, UpdateTableKeepsInv
  <2>5. CASE DropTable
    BY <2>5, DropTableKeepsInv
  <2>6. CASE OtherStatement
    BY <2>6, OtherStatementKeepsInv
  <2>7. CASE CreateFunction \/ DropFunction
    BY <2>7, FunctionStatementKeepsInv
  <2>8. CASE Call
    BY <2>8, CallKeepsInv
  <2>9. CASE EnterProcedure
    BY <2>9, EnterProcedureKeepsInv
  <2>10. CASE LeaveProcedure
    BY <2>10, LeaveProcedureKeepsInv
  <2>11. CASE CloseFile
    BY <2>11, CloseFileKeepsInv
  <2>12. CASE ScriptError \/ UNCHANGED vars
    BY <2>12, GivingUpKeepsInv
  <2>13. CASE Terminated
    BY <2>13, GivingUpKeepsInv DEF Terminated
  <2> QED BY <2>1, <2>2, <2>3, <2>4, <2>5, <2>6, <2>7, <2>8, <2>9, <2>10, <2>11, <2>12, <2>13
          DEF Next
<1> QED BY <1>1, <1>2, PTL DEF Spec

\* The nodes of the file that is noted, as the properties and as the invariant
\* count them.
LEMMA ArtifactsBefore ==
  ASSUME Inv, CloseFile, NEW p \in Functions, NEW t \in Tables,
         NEW i \in DOMAIN script[File], NEW m, m = Len(resolved) + 1
  PROVE  ArtifactBefore(p, t, m, i)' <=>
           CreatedEarlier(Past, p, t) \/ BodyCreates(script[File], i, p, t)
<1> DEFINE InFile(s, j) == CreatesAt(s, j, t) /\ InBodyOf(s, j, p)
<1>1. /\ Len(resolved') = m /\ resolved'[m].file = File
      /\ \A k \in DOMAIN resolved : resolved'[k] = resolved[k]
      /\ script' = script /\ script[File] \in Seq(Node)
      /\ resolved \in Seq([file : Files, info : Information])
  BY PastGrows, FileIsWalked
<1>2. DOMAIN resolved = 1..Len(resolved) /\ Len(resolved) \in Nat
  BY <1>1
<1>3. \A k \in DOMAIN resolved : script[resolved[k].file] \in Seq(Node)
  <2>1. \A f \in Files : script[f] \in Seq(Node)
    BY ScriptsAssumption DEF Inv, TypeOK
  <2>2. \A k \in DOMAIN resolved : resolved[k] \in [file : Files, info : Information]
    <3> DEFINE R == [file : Files, info : Information]
    <3>1. resolved \in Seq(R)
      BY <1>1
    <3> HIDE DEF R
    <3>2. \A k \in DOMAIN resolved : resolved[k] \in R
      BY <3>1
    <3> QED BY <3>2 DEF R
  <2>3. \A k \in DOMAIN resolved : resolved[k].file \in Files
    BY <2>2
  <2> QED BY <2>1, <2>3
<1>4. 1..m = DOMAIN resolved \cup {m} /\ m \notin DOMAIN resolved /\ \A k \in DOMAIN resolved : k < m
  BY <1>2
<1>5. ArtifactBefore(p, t, m, i)' <=>
        \E k \in 1..m : \E j \in DOMAIN script[resolved'[k].file] :
          (k < m \/ j < i) /\ InFile(script[resolved'[k].file], j)
  <2>1. ArtifactBefore(p, t, m, i)' <=>
          \E k \in 1..m : \E j \in DOMAIN script'[resolved'[k].file] :
            (k < m \/ j < i) /\ InFile(script'[resolved'[k].file], j)
    BY DEF ArtifactBefore, CreatesAt, InBodyOf
  <2> HIDE DEF InFile
  <2> QED BY <1>1, <2>1
<1>6. (\E k \in DOMAIN resolved : \E j \in DOMAIN script[resolved[k].file] :
         InFile(script[resolved[k].file], j))
      <=> CreatedEarlier(Past, p, t)
  <2>1. \A k \in DOMAIN resolved :
          BodyCreates(script[resolved[k].file], Len(script[resolved[k].file]) + 1, p, t) <=>
            \E j \in DOMAIN script[resolved[k].file] : InFile(script[resolved[k].file], j)
    <3>1. \A s \in Seq(Node) : 1..((Len(s) + 1) - 1) = DOMAIN s
      OBVIOUS
    <3> QED BY <1>3, <3>1 DEF BodyCreates
  <2> QED BY <2>1 DEF CreatedEarlier, Past
<1>7. (\E j \in DOMAIN script[File] : j < i /\ InFile(script[File], j))
      <=> BodyCreates(script[File], i, p, t)
  <2>1. 1..(i - 1) = {j \in DOMAIN script[File] : j < i}
    BY <1>1
  <2> QED BY <2>1 DEF BodyCreates
<1> HIDE DEF InFile
<1>8. (\E k \in 1..m : \E j \in DOMAIN script[resolved'[k].file] :
          (k < m \/ j < i) /\ InFile(script[resolved'[k].file], j))
      <=> \/ \E k \in DOMAIN resolved : \E j \in DOMAIN script[resolved[k].file] :
               InFile(script[resolved[k].file], j)
          \/ \E j \in DOMAIN script[File] : j < i /\ InFile(script[File], j)
  <2>1. ~(m < m)
    BY <1>2
  <2> QED BY <1>1, <1>4, <2>1
<1> QED BY <1>5, <1>6, <1>7, <1>8

\* Only the end of a walk notes a file.
LEMMA NothingNoted ==
  ASSUME [Next]_vars, ~CloseFile
  PROVE  UNCHANGED <<script, warning_as_error, resolved>>
<1>1. CASE OpenFile
  BY <1>1 DEF OpenFile, input
<1>2. CASE ScriptError \/ Terminated \/ UNCHANGED vars
  BY <1>2 DEF ScriptError, Terminated, vars, input
<1>3. CASE \E op \in Ops : Visit(op)
  BY <1>3 DEF Visit, input
<1>4. {"create", "insert", "update", "drop", "query", "create_function", "drop_function", "call",
       "enter", "leave"} \subseteq Ops
  BY DEF Ops
<1>5. CASE CreateTable \/ InsertIntoTable \/ UpdateTable \/ DropTable \/ OtherStatement
  BY <1>3, <1>4, <1>5
     DEF CreateTable, InsertIntoTable, UpdateTable, SideEffect, DropTable, OtherStatement
<1>6. CASE CreateFunction \/ DropFunction \/ Call \/ EnterProcedure \/ LeaveProcedure
  BY <1>3, <1>4, <1>6 DEF CreateFunction, DropFunction, Call, EnterProcedure, LeaveProcedure
<1> QED BY <1>1, <1>2, <1>5, <1>6 DEF Next

\* What the m-th file creates is what the property says.
CreatedExactly(m) ==
  LET s == script[resolved[m].file]
  IN  \A t \in Tables :
        t \in resolved[m].info.created <=>
          \E i \in DOMAIN s :
            \/ CreatesAt(s, i, t) /\ \A p \in Functions : ~InBodyOf(s, i, p)
            \/ s[i].op = "call" /\ ArtifactBefore(s[i].name, t, m, i)

\* A file says what it creates, and that is not changed by those noted after it.
LEMMA CreatedStays ==
  ASSUME NEW m \in Nat, UNCHANGED script, \A k \in 1..m : resolved'[k] = resolved[k],
         m > 0, CreatedExactly(m)
  PROVE  CreatedExactly(m)'
<1>1. resolved'[m] = resolved[m] /\ script' = script
  OBVIOUS
<1>2. ASSUME NEW p, NEW t, NEW i
      PROVE  ArtifactBefore(p, t, m, i)' <=> ArtifactBefore(p, t, m, i)
  BY DEF ArtifactBefore, CreatesAt, InBodyOf
<1>3. CreatedExactly(m)' <=>
        \A t \in Tables :
          t \in resolved'[m].info.created <=>
            \E i \in DOMAIN script'[resolved'[m].file] :
              \/ /\ CreatesAt(script'[resolved'[m].file], i, t)
                 /\ \A p \in Functions : ~InBodyOf(script'[resolved'[m].file], i, p)
              \/ /\ script'[resolved'[m].file][i].op = "call"
                 /\ ArtifactBefore(script[resolved[m].file][i].name, t, m, i)'
  BY <1>1 DEF CreatedExactly, CreatesAt, InBodyOf
<1> QED BY <1>1, <1>2, <1>3 DEF CreatedExactly

\* The file that is noted creates what the visitor has collected.
LEMMA CreatedNoted ==
  ASSUME Inv, CloseFile, NEW m, m = Len(resolved) + 1, NEW s, s = script[File]
  PROVE  CreatedExactly(m)'
<1>1. /\ s \in Seq(Node) /\ at = Len(s) + 1 /\ script' = script
      /\ resolved \in Seq([file : Files, info : Information])
  BY FileIsWalked
<1>2. resolved'[m].file = File
  BY PastGrows
<1>3. resolved'[m].info.created = CreatedBefore(Past, s, Len(s) + 1)
  <2>1. PICK info \in Information :
          /\ resolved' = Append(resolved, [file |-> File, info |-> info])
          /\ info.created = information.created
    BY FileIsWalked
  <2>2. resolved'[m] = [file |-> File, info |-> info]
    BY <1>1, <2>1
  <2>3. information.created = CreatedBefore(Past, s, at)
    BY <1>1 DEF Inv, VisitorTellsWalk
  <2> QED BY <1>1, <2>1, <2>2, <2>3
<1>4. 1..((Len(s) + 1) - 1) = DOMAIN s
  BY <1>1
<1>5. \A i \in DOMAIN s : s[i].op = "call" => s[i].name \in Functions
  <2>1. \A i \in DOMAIN s : s[i] \in Node
    BY <1>1
  <2> QED BY <2>1 DEF Node, Targets
<1>6. \A i \in DOMAIN s : \A t \in Tables : s[i].op = "call" =>
        (ArtifactBefore(s[i].name, t, m, i)' <=>
           CreatedEarlier(Past, s[i].name, t) \/ BodyCreates(s, i, s[i].name, t))
  <2>1. ASSUME NEW i \in DOMAIN s, NEW t \in Tables, NEW q \in Functions
        PROVE  ArtifactBefore(q, t, m, i)' <=>
                 CreatedEarlier(Past, q, t) \/ BodyCreates(s, i, q, t)
    BY ArtifactsBefore
  <2> QED BY <1>5, <2>1
<1>7. CreatedExactly(m)' <=>
        \A t \in Tables :
          t \in resolved'[m].info.created <=>
            \E i \in DOMAIN s :
              \/ CreatesAt(s, i, t) /\ \A p \in Functions : ~InBodyOf(s, i, p)
              \/ s[i].op = "call" /\ ArtifactBefore(s[i].name, t, m, i)'
  BY <1>1, <1>2 DEF CreatedExactly, CreatesAt, InBodyOf
<1> QED BY <1>3, <1>4, <1>6, <1>7 DEF CreatedBefore

\* The files noted so far stay noted, and what the walk has collected is noted.
LEMMA FilesNoted ==
  ASSUME Inv, [Next]_vars
  PROVE  /\ UNCHANGED <<script, warning_as_error>>
         /\ Len(resolved) \in Nat /\ DOMAIN resolved = 1..Len(resolved)
         /\ \A k \in DOMAIN resolved : resolved'[k] = resolved[k]
         /\ ~CloseFile => DOMAIN resolved' = DOMAIN resolved
         /\ CloseFile => DOMAIN resolved' = DOMAIN resolved \cup {Len(resolved) + 1}
<1>1. resolved \in Seq([file : Files, info : Information])
  BY DEF Inv, TypeOK
<1>2. Len(resolved) \in Nat /\ DOMAIN resolved = 1..Len(resolved)
  BY <1>1
<1>3. CASE CloseFile
  <2>1. PICK info \in Information : resolved' = Append(resolved, [file |-> File, info |-> info])
    BY <1>3, FileIsWalked
  <2>2. File \in Files
    BY <1>3, FileIsWalked
  <2>3. DOMAIN resolved' = DOMAIN resolved \cup {Len(resolved) + 1}
    BY <1>1, <1>2, <2>1, <2>2
  <2> QED BY <1>2, <1>3, <2>3, PastGrows, FileIsWalked
<1>4. CASE ~CloseFile
  BY <1>2, <1>4, NothingNoted
<1> QED BY <1>3, <1>4

\* CreatedIsExact is kept by every step from a state that has the invariant.
LEMMA CreatedIsKept ==
  ASSUME Inv, CreatedIsExact, [Next]_vars
  PROVE  CreatedIsExact'
<1>1. \A m \in DOMAIN resolved : CreatedExactly(m)
  BY DEF CreatedIsExact, CreatedExactly
<1>2. ASSUME NEW m \in DOMAIN resolved'
      PROVE  CreatedExactly(m)'
  <2>1. CASE m \in DOMAIN resolved
    <3>1. m \in Nat /\ m > 0 /\ \A k \in 1..m : k \in DOMAIN resolved
      BY <2>1, FilesNoted
    <3>2. UNCHANGED script /\ \A k \in 1..m : resolved'[k] = resolved[k]
      BY <3>1, FilesNoted
    <3> QED BY <1>1, <2>1, <3>1, <3>2, CreatedStays
  <2>2. CASE m \notin DOMAIN resolved
    <3>1. CloseFile /\ m = Len(resolved) + 1
      BY <1>2, <2>2, FilesNoted
    <3> QED BY <3>1, CreatedNoted
  <2> QED BY <2>1, <2>2
<1>3. \A m \in DOMAIN resolved' : CreatedExactly(m)'
  BY <1>2
<1> QED BY <1>3 DEF CreatedIsExact, CreatedExactly

\* Each file is noted with the tables that its statements create outside
\* procedures and those of the bodies, walked by then, of what it calls.
THEOREM CreatesExactly == Spec => []CreatedIsExact
<1>1. Init => CreatedIsExact
  BY DEF Init, CreatedIsExact
<1>2. Inv /\ CreatedIsExact /\ [Next]_vars => CreatedIsExact'
  BY CreatedIsKept
<1> QED BY <1>1, <1>2, Invariance, PTL DEF Spec

\* What the m-th file fills, changes and drops is what the property says.
TargetsExactly(m) ==
  LET s == script[resolved[m].file]
  IN  /\ resolved[m].info.inserted = TargetsBefore(s, Len(s) + 1, "insert")
      /\ resolved[m].info.updated = TargetsBefore(s, Len(s) + 1, "update")
      /\ resolved[m].info.dropped = TargetsBefore(s, Len(s) + 1, "drop")

\* The nodes of a file are those before its end.
LEMMA TargetsAreThose ==
  ASSUME Inv
  PROVE  SideEffectsAreOwn <=> \A m \in DOMAIN resolved : TargetsExactly(m)
<1>1. \A m \in DOMAIN resolved : script[resolved[m].file] \in Seq(Node)
  <2>1. \A f \in Files : script[f] \in Seq(Node)
    BY ScriptsAssumption DEF Inv, TypeOK
  <2>2. \A m \in DOMAIN resolved : resolved[m] \in [file : Files, info : Information]
    <3> DEFINE R == [file : Files, info : Information]
    <3>1. resolved \in Seq(R)
      BY DEF Inv, TypeOK
    <3> HIDE DEF R
    <3>2. \A m \in DOMAIN resolved : resolved[m] \in R
      BY <3>1
    <3> QED BY <3>2 DEF R
  <2> QED BY <2>1, <2>2
<1>2. ASSUME NEW s \in Seq(Node), NEW op \in {"insert", "update", "drop"}
      PROVE  TargetsBefore(s, Len(s) + 1, op) =
               {t \in Tables :
                 \E i \in DOMAIN s :
                   /\ s[i].op = op /\ s[i].name = t
                   /\ \A j \in 1..(i - 1) : ~(s[j].op = "create" /\ s[j].temp /\ s[j].name = t)}
  <2>1. 1..((Len(s) + 1) - 1) = DOMAIN s
    OBVIOUS
  <2> QED BY <2>1 DEF TargetsBefore, TemporaryBefore
<1> QED BY <1>1, <1>2 DEF SideEffectsAreOwn, TargetsExactly

\* TargetsExactly is kept by every step from a state that has the invariant.
LEMMA TargetsAreKept ==
  ASSUME Inv, \A m \in DOMAIN resolved : TargetsExactly(m), [Next]_vars
  PROVE  (\A m \in DOMAIN resolved : TargetsExactly(m))'
<1>1. ASSUME NEW m \in DOMAIN resolved
      PROVE  TargetsExactly(m)'
  <2>1. resolved'[m] = resolved[m] /\ script' = script
    BY FilesNoted
  <2>2. TargetsExactly(m)
    BY <1>1
  <2> QED BY <2>1, <2>2 DEF TargetsExactly, TargetsBefore, TemporaryBefore
<1>2. ASSUME CloseFile, NEW m, m = Len(resolved) + 1, NEW s, s = script[File]
      PROVE  TargetsExactly(m)'
  <2>1. /\ s \in Seq(Node) /\ at = Len(s) + 1 /\ script' = script
        /\ resolved \in Seq([file : Files, info : Information])
    BY <1>2, FileIsWalked
  <2>2. resolved'[m].file = File
    BY <1>2, PastGrows
  <2>3. PICK info \in Information :
          /\ resolved' = Append(resolved, [file |-> File, info |-> info])
          /\ info.inserted = information.inserted
          /\ info.updated = information.updated
          /\ info.dropped = information.dropped
    BY <1>2, FileIsWalked
  <2>4. resolved'[m].info = info
    BY <1>2, <2>1, <2>3
  <2>5. /\ information.inserted = TargetsBefore(s, Len(s) + 1, "insert")
        /\ information.updated = TargetsBefore(s, Len(s) + 1, "update")
        /\ information.dropped = TargetsBefore(s, Len(s) + 1, "drop")
    BY <1>2, <2>1 DEF Inv, VisitorTellsWalk
  <2>6. script'[resolved'[m].file] = s
    BY <1>2, <2>1, <2>2
  <2>7. LET r == script'[resolved'[m].file]
        IN  TargetsExactly(m)' <=>
              /\ resolved'[m].info.inserted = TargetsBefore(r, Len(r) + 1, "insert")
              /\ resolved'[m].info.updated = TargetsBefore(r, Len(r) + 1, "update")
              /\ resolved'[m].info.dropped = TargetsBefore(r, Len(r) + 1, "drop")
    BY DEF TargetsExactly, TargetsBefore, TemporaryBefore
  <2> QED BY <2>3, <2>4, <2>5, <2>6, <2>7
<1>3. ASSUME NEW m \in DOMAIN resolved'
      PROVE  TargetsExactly(m)'
  <2>1. CASE m \in DOMAIN resolved
    BY <1>1, <2>1
  <2>2. CASE m \notin DOMAIN resolved
    <3>1. CloseFile /\ m = Len(resolved) + 1
      BY <1>3, <2>2, FilesNoted
    <3> QED BY <1>2, <3>1
  <2> QED BY <2>1, <2>2
<1> QED BY <1>3

\* Targets are noted while no temporary table has their name, and no file is
\* noted with what another one fills, changes or drops.
THEOREM TargetsAreOwn == Spec => []SideEffectsAreOwn
<1> DEFINE Exactly == \A m \in DOMAIN resolved : TargetsExactly(m)
<1>1. Init => Exactly
  BY DEF Init
<1>2. Inv /\ Exactly /\ [Next]_vars => Exactly'
  BY TargetsAreKept
<1>3. Inv /\ Exactly => SideEffectsAreOwn
  BY TargetsAreThose
<1> HIDE DEF Exactly
<1> QED BY <1>1, <1>2, <1>3, Invariance, PTL DEF Spec

\* What the first half of WarningsAreErrors says, and what the second says.
NoStrangeTargets ==
  warning_as_error =>
    \A m \in DOMAIN resolved :
      LET info == resolved[m].info
      IN  info.inserted \cup info.updated \subseteq info.created

WarnedOverOwn ==
  ended = "warning" =>
    /\ warning_as_error
    /\ LET s == script[File] IN
         \E i \in DOMAIN s :
           /\ s[i].op \in {"insert", "update"}
           /\ \A j \in 1..(i - 1) :
                CreatesAt(s, j, s[i].name) => \E p \in Functions : InBodyOf(s, j, p)

\* A file that is noted has passed the check at each of its targets.
LEMMA NoStrangeTargetsIsKept ==
  ASSUME Inv, NoStrangeTargets, [Next]_vars
  PROVE  NoStrangeTargets'
<1>1. ASSUME CloseFile, NEW m, m = Len(resolved) + 1, warning_as_error
      PROVE  resolved'[m].info.inserted \cup resolved'[m].info.updated
               \subseteq resolved'[m].info.created
  <2>1. PICK info \in Information :
          /\ resolved' = Append(resolved, [file |-> File, info |-> info])
          /\ info.created = information.created
          /\ info.inserted = information.inserted
          /\ info.updated = information.updated
    BY <1>1, FileIsWalked
  <2>2. /\ resolved \in Seq([file : Files, info : Information]) /\ File \in Files
        /\ ended = "no" /\ at > 0
    BY <1>1, FileIsWalked DEF CloseFile
  <2>3. resolved'[m].info = info
    BY <1>1, <2>1, <2>2
  <2>4. information.inserted \cup information.updated \subseteq information.created
    BY <1>1, <2>2 DEF Inv, VisitorTellsWalk
  <2> QED BY <2>1, <2>3, <2>4
<1>2. ASSUME NEW m \in DOMAIN resolved', warning_as_error
      PROVE  resolved'[m].info.inserted \cup resolved'[m].info.updated
               \subseteq resolved'[m].info.created
  <2>1. CASE m \in DOMAIN resolved
    BY <1>2, <2>1, FilesNoted DEF NoStrangeTargets
  <2>2. CASE m \notin DOMAIN resolved
    <3>1. CloseFile /\ m = Len(resolved) + 1
      BY <1>2, <2>2, FilesNoted
    <3> QED BY <1>1, <1>2, <3>1
  <2> QED BY <2>1, <2>2
<1> QED BY <1>2, FilesNoted DEF NoStrangeTargets

\* A warning ends the reading at a target that the script has not created.
LEMMA TargetIsWarned ==
  ASSUME Inv, NEW op \in {"insert", "update"}, NEW field, SideEffect(op, field),
         ended' = "warning"
  PROVE  WarnedOverOwn'
<1>1. Visit(op) /\ op \in Ops
  BY DEF SideEffect, Ops
<1>2. /\ unread # << >> /\ at \in DOMAIN script[File] /\ at > 0 /\ ended = "no"
      /\ Here.op = op /\ Here.name \in Tables \cup {NoName}
      /\ Here = script[File][at] /\ script[File] \in Seq(Node)
  BY <1>1, NodeHere, FileHere DEF Visit, Targets, Here
<1>3. Here.name \notin temporary_tables \cup {NoName}
  BY <1>2 DEF SideEffect
<1>4. warning_as_error /\ Here.name \notin information.created
  BY <1>3 DEF SideEffect
<1>5. Here.name \notin CreatedBefore(Past, script[File], at)
  BY <1>2, <1>4 DEF Inv, VisitorTellsWalk
<1>6. \A j \in 1..(at - 1) :
        CreatesAt(script[File], j, Here.name) => \E p \in Functions : InBodyOf(script[File], j, p)
  BY <1>2, <1>3, <1>5 DEF CreatedBefore
<1>7. script' = script /\ unread' = unread /\ warning_as_error' = warning_as_error /\ File' = File
  BY <1>1 DEF Visit, input, File
<1> QED BY <1>2, <1>4, <1>6, <1>7 DEF WarnedOverOwn, CreatesAt, InBodyOf

\* Only a target ends the reading with a warning, and then nothing moves.
LEMMA WarnedOverOwnIsKept ==
  ASSUME Inv, WarnedOverOwn, [Next]_vars
  PROVE  WarnedOverOwn'
<1> SUFFICES ASSUME ended' = "warning" PROVE WarnedOverOwn'
  BY DEF WarnedOverOwn
<1>1. CASE InsertIntoTable \/ UpdateTable
  BY <1>1, TargetIsWarned DEF InsertIntoTable, UpdateTable
<1>2. CASE Terminated \/ UNCHANGED vars
  <2>1. UNCHANGED <<script, warning_as_error, unread, ended>>
    BY <1>2 DEF Terminated, vars, input
  <2>2. File' = File
    BY <2>1 DEF File
  <2> QED BY <2>1, <2>2 DEF WarnedOverOwn, CreatesAt, InBodyOf
<1>3. CASE OpenFile \/ CloseFile \/ ScriptError
  BY <1>3 DEF OpenFile, CloseFile, ScriptError
<1>4. CASE CreateTable \/ DropTable \/ OtherStatement \/ CreateFunction \/ DropFunction
             \/ Call \/ EnterProcedure \/ LeaveProcedure
  BY <1>4 DEF CreateTable, DropTable, OtherStatement, CreateFunction, DropFunction, Call,
              EnterProcedure, LeaveProcedure, Visit
<1> QED BY <1>1, <1>2, <1>3, <1>4 DEF Next

\* When warnings are errors no file with a strange target gets through, and
\* alphadag gives up over a warning only where the current file has one.
THEOREM WarningsStop == Spec => []WarningsAreErrors
<1>1. Init => NoStrangeTargets /\ WarnedOverOwn
  BY DEF Init, NoStrangeTargets, WarnedOverOwn
<1>2. Inv /\ NoStrangeTargets /\ WarnedOverOwn /\ [Next]_vars => NoStrangeTargets' /\ WarnedOverOwn'
  BY NoStrangeTargetsIsKept, WarnedOverOwnIsKept
<1>3. NoStrangeTargets /\ WarnedOverOwn => WarningsAreErrors
  BY DEF NoStrangeTargets, WarnedOverOwn, WarningsAreErrors
<1> QED BY <1>1, <1>2, <1>3, Invariance, PTL DEF Spec
===============================================================================
