----------------------------- MODULE PushdownRule -----------------------------
(***************************************************************************)
(* QflockRule, the optimizer rule that turns a scan into a query.          *)
(*                                                                         *)
(* The rule sees a project and filters over a table.  If it can handle     *)
(* them it replaces the scan by one of a JDBC relation: the filters it     *)
(* takes are written into the query, the columns the rest of the plan needs*)
(* are the scan's output, and the filters stay in the plan unless all of   *)
(* them were taken.  Spark then executes what the rule has made: the plan  *)
(* must find its columns, the server must parse the query, and the rows    *)
(* that come out must be those of the plan the rule was given.             *)
(***************************************************************************)
EXTENDS FilterExpressions

CONSTANTS Projects,      (* the projects and                               *)
          FilterSets,    (* the filters plans may have                     *)
          Table          (* the rows of the table                          *)

Leaves == {"AttributeReference", "Literal", "ScalarSubquery"}
Unary  == {"Not", "Cast", "Abs", "In", "InSet"} \cup NullTests
Binary == {"And", "Or", "EqualNullSafe", "StartsWith"} \cup Comparisons \cup Arithmetic

\* The types of the operands (a boolean has no IN or LIKE, and is not compared to
\* one), and of an IN's constants and columns.
OperandsFit(n, x) ==
  LET type(i) == TypeOf(x[i])
  IN  /\ n.op \in Connectives => \A i \in DOMAIN x : type(i) = "boolean"
      /\ n.op \in Comparisons \cup {"EqualNullSafe"} =>
           /\ type(1) = type(2)
           /\ \E i \in {1, 2} : x[i].op # "Literal"
           /\ \A i \in {1, 2} : x[i].op # "StartsWith"
      /\ n.op \in Arithmetic \cup {"Abs"} => \A i \in DOMAIN x : type(i) = "integer"
      /\ n.op = "Cast" => type(1) # "boolean" /\ x[1].op # "Literal"
      /\ n.op \in {"In", "InSet"} => type(1) # "boolean"
      /\ n.op = "StartsWith" =>
           type(1) = "string" /\ type(2) = "string" /\ x[2].op \in {"AttributeReference", "Literal"}

NodeFits(n) ==
  /\ n.op \in Leaves \cup Unary \cup Binary
  /\ n.op = "AttributeReference" => n.name \in Columns
  /\ n.op \in {"Literal", "ScalarSubquery"} => n.type \in {"integer", "string"}
  /\ n.op = "Literal" => n.value \in IF n.type = "integer" THEN Nat ELSE Strings
  /\ n.op = "Cast" => n.type \in {"integer", "boolean"}
  /\ n.op = "In" => \A x \in n.list :
       \/ x \in {Attribute(c) : c \in Columns}
       \/ x.op = "Literal" /\ x.value \in Strings \cup {Null}
  /\ n.op = "InSet" => n.list \subseteq Strings \cup {Null}

\* A tree after Spark's analysis and constant folding: a comparison, or an IN,
\* compares what is of one type, and a comparison not two constants.
IsExpression(e) ==
  /\ IsTree(e)
  /\ \A p \in DOMAIN e :
       /\ NodeFits(e[p])
       /\ Kids(e, p) = IF e[p].op \in Leaves THEN {} ELSE IF e[p].op \in Unary THEN {1} ELSE {1, 2}
       /\ OperandsFit(e[p], [i \in Kids(e, p) |-> e[Append(p, i)]])

IsFilter(f) == IsExpression(f) /\ TypeOf(f[<<>>]) = "boolean"

ASSUME RuleAssumption ==
  /\ \A exprs \in Projects : \A e \in exprs : IsExpression(e)
  /\ \A filters \in FilterSets : \A f \in filters : IsFilter(f)
  /\ \A row \in Table : \A c \in Columns :
       row[c] \in {Null} \cup IF ColumnType[c] = "integer" THEN Nat ELSE Strings

\* The empty text.
NoQuery == [columns |-> {}, where |-> {}]

VARIABLES
  location,      (* the data centre the table is stored in                 *)
  disabled,      (* the relation's option ndpdisablefilterpush             *)
  project,       (* what the plan computes: a set of expressions,          *)
  filters,       (* from the rows on which all of these are true           *)
  phase,         (* "matched", "planned", "answered" or "failed"           *)
  output,        (* the columns of the new scan,                           *)
  query,         (* its query                                              *)
  residual,      (* and the filters that stay above it                     *)
  answer         (* the rows the plan finds                                *)

ruleInput == <<location, disabled, project, filters>>
newPlan   == <<output, query, residual>>
ruleVars  == <<ruleInput, phase, newPlan, answer>>

RuleInit ==
  /\ location \in {"dc1", "dc2"}
  /\ disabled \in BOOLEAN
  /\ project \in Projects
  /\ filters \in FilterSets
  /\ phase    = "matched"
  /\ output   = {}
  /\ query    = NoQuery
  /\ residual = {}
  /\ answer   = {}

-----------------------------------------------------------------------------
(***************************************************************************)
(* Which columns the rule believes a plan to need.                         *)
(***************************************************************************)
\* getAttribute descends to the left operand ("assume right is constant").
Descended == {"Cast"} \cup Arithmetic
getAttribute(e) == Reached(e, {}, Descended)

attributeKnown(e) ==
  \A p \in getAttribute(e) : e[p].op \in Descended \cup {"AttributeReference", "Literal"}

\* The attributes of a project: none at all (Left) if one is unknown.
attrReferences ==
  IF \A e \in project : attributeKnown(e)
  THEN UNION {NamesAt(e, getAttribute(e)) : e \in project}
  ELSE {}

\* AND and OR are searched on both sides, comparisons on the left.
getFilterExpressionAttributes(e) ==
  NamesAt(e, Reached(e, {"And", "Or"},
                     {"Cast", "Not", "In", "StartsWith"} \cup Comparisons \cup NullTests))

filterAttributesKnown ==
  \A f \in filters : getFilterExpressionAttributes(f) # {}

\* Likewise, none at all if one filter has none.
filterReferences ==
  IF filterAttributesKnown
  THEN UNION {getFilterExpressionAttributes(f) : f \in filters}
  ELSE {}

-----------------------------------------------------------------------------
\* The table is remote and no filter holds a subquery.  What is unknown about
\* the attributes does not matter, as alwaysInject is true; nor does it matter
\* whether there are filters, for a table that was not injected before.
canHandlePlan ==
  /\ canHandleFilters(filters)
  /\ location = "dc2"

filtersStatus == IF disabled THEN "Invalid" ELSE validateFilters(filters)

\* Mutant of references: the columns of the filters, which need not be read.
referencesSwapped ==
  IF filtersStatus = "FullyValid" THEN filterReferences
  ELSE attrReferences \cup filterReferences

references ==
  IF filtersStatus = "FullyValid" THEN attrReferences
  ELSE attrReferences \cup filterReferences

\* Mutant of clipped: the filters that were taken are removed one by one.
clippedSingly ==
  {f \in filters : ~ validateFilterExpression(f)}

\* The filters that stay in the plan.
clipped == IF filtersStatus = "FullyValid" THEN {} ELSE filters

\* SELECT references FROM the table WHERE; the text is empty if nothing is taken.
sqlQuery ==
  IF filtersStatus = "Invalid" THEN NoQuery
  ELSE [columns |-> IF references = {} THEN Columns ELSE references,
        where   |-> buildWhereClause(filters)]

transformProject ==
  /\ phase = "matched"
  /\ canHandlePlan
  /\ output'   = references
  /\ query'    = sqlQuery
  /\ residual' = clipped
  /\ phase'    = "planned"
  /\ UNCHANGED <<ruleInput, answer>>

-----------------------------------------------------------------------------
(***************************************************************************)
(* Spark executes the plan.                                                *)
(***************************************************************************)
Selected == {row \in Table : Selects(filters, row)}

\* The rule leaves the plan alone, and Spark scans the table itself.
keepPlan ==
  /\ phase = "matched"
  /\ ~ canHandlePlan
  /\ answer' = Selected
  /\ phase'  = "answered"
  /\ UNCHANGED <<ruleInput, newPlan>>

Resolves ==
  UNION {ColumnsOf(e) : e \in project \cup residual} \subseteq output

\* spark.sql raises on the storage side if there is no query in the text.
Runs == query # NoQuery /\ \A text \in query.where : Parses(text)

\* Spark does not find a column, or the server raises.
executionFails ==
  /\ phase = "planned"
  /\ ~ (Resolves /\ Runs)
  /\ phase' = "failed"
  /\ UNCHANGED <<ruleInput, newPlan, answer>>

\* The server selects the rows, Spark applies the filters that have stayed.
execute ==
  /\ phase = "planned"
  /\ Resolves /\ Runs
  /\ answer' = {row \in Table : Answers(query.where, row) /\ Selects(residual, row)}
  /\ phase'  = "answered"
  /\ UNCHANGED <<ruleInput, newPlan>>

RuleNext == transformProject \/ keepPlan \/ executionFails \/ execute

RuleSpec == RuleInit /\ [][RuleNext]_ruleVars

-----------------------------------------------------------------------------
\* The filters stay whole or go.
RuleTypeOK ==
  /\ phase \in {"matched", "planned", "answered", "failed"}
  /\ output \subseteq Columns
  /\ query.columns \subseteq Columns
  /\ residual \in {{}, filters}
  /\ answer \subseteq Table

\* Every operand that would need brackets has them: none that is written without
\* them stands in a comparison or before IS NOT NULL.
Unbracketed == Comparisons \cup NullTests \cup {"Not", "In", "InSet", "StartsWith"}

Bracketed(f) ==
  \A p \in DOMAIN f :
    p # <<>> /\ f[Parent(p)].op \in Comparisons \cup {"IsNotNull"} => f[p].op \notin Unbracketed

\* What PushdownSQL can express of a node: casts between numbers only, no
\* apostrophes, only constants (no null) in an IN's list and no column names in that
\* of an InSet, and no wildcards in what a column starts with.
Expressible(n, x) ==
  /\ n.op = "Cast" => n.type = "integer" /\ TypeOf(x[1]) = "integer"
  /\ n.op = "Literal" => ~ HasApostrophe(n.value)
  /\ n.op = "In" => \A y \in n.list : y.op = "Literal" /\ y.value # Null
  /\ n.op = "InSet" => n.list \cap Columns = {}
  /\ n.op = "StartsWith" =>
       /\ x[2].op = "Literal"
       /\ \A m \in Begins \cup Matches : m[2] = x[2].value => m \in Begins \cap Matches

Legible(f) ==
  /\ Bracketed(f)
  /\ \A p \in DOMAIN f : Expressible(f[p], [i \in Kids(f, p) |-> f[Append(p, i)]])

\* An answer is the answer of the plan that was written: the filters may be in
\* the query, in the plan, in both or in part in each, with parts that have no text,
\* but none is lost on the way.  (For filters that are not Legible see
\* ClippedIsPushed.)
NeverWrongRows ==
  phase = "answered" /\ (\A f \in filters : Legible(f)) => answer = Selected

\* A node that PushdownSQL supports, with a text whatever is in it: it is not enough
\* that validateFilterExpression takes the filter, which looks into some nodes only.
HasText(n, x) ==
  /\ n.op \in Traversed \cup Supported
  /\ n.op = "Cast" => n.type = "integer"
  /\ n.op = "IsNull" => x[1].op = "AttributeReference"
  /\ n.op = "In" => \A y \in n.list : ~ HasApostrophe(shown(y))
  /\ n.op = "InSet" => n.list \cap Texts \subseteq Columns
  /\ n.op = "StartsWith" => ~ HasApostrophe(shown(x[2]))

SupportedThroughout(f) ==
  /\ validateFilterExpression(f)
  /\ Bracketed(f)
  /\ \A p \in DOMAIN f : HasText(f[p], [i \in Kids(f, p) |-> f[Append(p, i)]])

\* A query of plain columns and of filters supported throughout is always answered:
\* the plan the rule makes of it finds its columns, and the server can parse the
\* text.
SupportedIsAnswered ==
  /\ \A e \in project : e[<<>>].op = "AttributeReference" /\ DOMAIN e = {<<>>}
  /\ \A f \in filters : SupportedThroughout(f)
  /\ ~ disabled
  => phase # "failed"

\* The filters are clipped because the query takes all of them: the query then
\* selects the very same rows.
ClippedIsPushed ==
  phase = "planned" /\ query # NoQuery /\ residual = {} =>
    \A row \in Table :
      Runs => (Answers(query.where, row) <=> Selects(filters, row))
=============================================================================
