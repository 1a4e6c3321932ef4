------------------------------ MODULE MCAlphaDag ------------------------------
(***************************************************************************)
(* Bounds for AlphaDag: what a file may do with one table and with one     *)
(* function, in the combinations that IdentifierResolver can report.       *)
(***************************************************************************)
EXTENDS AlphaDag, TLC

CONSTANTS TableRoles, FunctionRoles

\* What one file does with a table.  The target of an INSERT or UPDATE is a
\* reference as well, except inside a procedure; a DROP is a reference as
\* well, except of a name that is also that of a temporary table.
AllTableRoles ==
  {{}, {"created"}, {"referenced"}, {"created", "referenced"},
   {"inserted", "referenced"}, {"updated", "referenced"}, {"inserted"},
   {"dropped"}, {"dropped", "referenced"},
   {"created", "inserted", "referenced"},
   {"created", "inserted", "updated", "referenced"}}

FewTableRoles ==
  {{}, {"created"}, {"referenced"}, {"inserted", "referenced"}}

AllFunctionRoles == {{}, {"defined"}, {"called"}, {"defined", "called"}, {"undefined"}}

Info(tr, fr) ==
  [created    |-> {t \in Tables : "created" \in tr[t]},
   dropped    |-> {t \in Tables : "dropped" \in tr[t]},
   referenced |-> {t \in Tables : "referenced" \in tr[t]},
   inserted   |-> {t \in Tables : "inserted" \in tr[t]},
   updated    |-> {t \in Tables : "updated" \in tr[t]},
   defined    |-> {n \in Functions : "defined" \in fr[n]},
   undefined  |-> {n \in Functions : "undefined" \in fr[n]},
   called     |-> {n \in Functions : "called" \in fr[n]}]

Infos == {Info(tr, fr) : tr \in [Tables -> TableRoles], fr \in [Functions -> FunctionRoles]}

\* A file that cannot be parsed is possible; what a path that is skipped holds
\* does not matter.
Anything == {c \in [Files -> Infos \cup {None}] : \A f \in Files \ SqlFiles : c[f] = None}

Parsable == [Files -> Infos]

\* The contents of the paths range over everything, so that one order of the
\* paths stands for all.
OneOrder == {CHOOSE s \in [1..3 -> Files] : {s[i] : i \in 1..3} = Files}

\* No path at all, one path twice, a path that is skipped.
ShortArguments == {<< >>} \cup [1..2 -> Files]

Symmetry == Permutations(SqlFiles)

AllFlags == [with_tables : BOOLEAN, with_functions : BOOLEAN,
             side_effect_first : BOOLEAN, warning_as_error : BOOLEAN]

\* Warnings are errors in one setting, the one with the largest graph.
MostFlags ==
  {f \in AllFlags :
     f.warning_as_error => f.with_tables /\ f.with_functions /\ f.side_effect_first}

GraphFlags == {f \in AllFlags : ~f.warning_as_error}
===============================================================================
