-------------------------- MODULE FilterExpressions --------------------------
(***************************************************************************)
(* The filters of a query: Catalyst's expression trees, what PushdownSQL   *)
(* accepts of them, the WHERE clause it writes, and what the server reads  *)
(* in that clause.                                                         *)
(*                                                                         *)
(* A tree gives a node to every position, the path of child numbers that   *)
(* leads there from the root <<>>.  What a traversal of the code reaches   *)
(* is then the set of positions all of whose ancestors it descends into.   *)
(*                                                                         *)
(* A text is modelled by its pieces, each at the position of the node it   *)
(* was written for.  Where the code writes brackets the server's parser    *)
(* sees the same tree; where it writes none the parser goes by the         *)
(* precedence of the operators.  A part that PushdownSQL has no text for   *)
(* is the empty string, and a text with such a Hole cannot be parsed.      *)
(*                                                                         *)
(* Values are whole numbers, as such in an integer column and as decimal   *)
(* text in a string column, which may also hold other Texts.               *)
(***************************************************************************)
EXTENDS Integers, Sequences, FiniteSets

CONSTANTS Columns,         (* the columns of the table                     *)
          ColumnType,      (* "integer" or "string", of each               *)
          Null,            (* SQL's null, and its unknown truth value      *)
          Texts,           (* the strings that are no decimal numbers      *)
          TextOrder,       (* <<t, u>>: the string t comes before u,       *)
          Begins,          (* t starts with u,                             *)
          Matches,         (* t LIKE 'u%', where % and _ of u are wildcards*)
          Escaped,         (* the string that '...' is once each apostrophe*)
                           (* in it was written as two escaped ones        *)
          Shown,           (* toString of a column, and of null            *)
          filterMaxDepth   (* how deep a filter may be nested              *)

Strings == Nat \cup Texts

ASSUME FilterAssumption ==
  /\ Columns # {}
  /\ ColumnType \in [Columns -> {"integer", "string"}]
  /\ Null \notin Int \cup BOOLEAN \cup Texts \cup Columns
  /\ Texts \cap Nat = {}
  /\ TextOrder \cup Begins \cup Matches \subseteq Strings \X Strings
  /\ Escaped \in [Texts -> Texts]
  /\ Shown \in [Columns \cup {Null} -> Texts]
  /\ filterMaxDepth \in Nat

-----------------------------------------------------------------------------
(***************************************************************************)
(* Expressions.                                                            *)
(***************************************************************************)
Operator(op)     == [op |-> op]
Attribute(c)     == [op |-> "AttributeReference", name |-> c]
Literal(type, v) == [op |-> "Literal", type |-> type, value |-> v]
In(list)         == [op |-> "In", list |-> list]     \* of columns and literals
Hole             == [op |-> "None"]                  \* a part without a text
Garbled          == [op |-> "Garbled"]               \* and one with an illegible text

Connectives == {"Or", "And", "Not"}
Comparisons == {"EqualTo", "LessThan"}     \* and <=, >, >=
NullTests   == {"IsNull", "IsNotNull"}
Arithmetic  == {"Add", "Divide"}           \* and Subtract, Multiply

\* The static type of a node.
TypeOf(n) ==
  CASE n.op = "AttributeReference" -> ColumnType[n.name]
    [] n.op \in {"Literal", "ScalarSubquery", "Cast"} -> n.type
    [] n.op \in Arithmetic \cup {"Abs"} -> "integer"
    [] OTHER -> "boolean"

Prefix(p, k) == SubSeq(p, 1, k)
Parent(p)    == Prefix(p, Len(p) - 1)

\* The children of a node, and so which arguments it has.
Kids(e, p) == {i \in {1, 2} : Append(p, i) \in DOMAIN e}

IsTree(e) ==
  /\ IsFiniteSet(DOMAIN e)
  /\ <<>> \in DOMAIN e
  /\ \A p \in DOMAIN e : /\ p \in Seq({1, 2})
                         /\ \A k \in 0 .. Len(p) : Prefix(p, k) \in DOMAIN e

\* The nodes a traversal reaches that descends to every child of some nodes, and
\* to the first child only of others.
Reached(e, every, first) ==
  {p \in DOMAIN e : \A k \in 1 .. Len(p) :
     LET op == e[Prefix(p, k - 1)].op IN op \in every \/ (op \in first /\ p[k] = 1)}

NamesAt(e, P) == {e[p].name : p \in {q \in P : e[q].op = "AttributeReference"}}

\* The columns an expression really reads.
ColumnsOf(e) ==
  NamesAt(e, DOMAIN e) \cup
    {x.name : x \in {y \in UNION {e[p].list : p \in {q \in DOMAIN e : e[q].op = "In"}} :
                       y.op = "AttributeReference"}}

-----------------------------------------------------------------------------
(***************************************************************************)
(* SQL's three-valued semantics and type coercion, the same in the Spark of*)
(* either side: a comparison with a number reads text as a number, one of  *)
(* text and a truth value reads it as a truth value.  A combination of     *)
(* types that Spark's analyzer rejects is Illtyped.                        *)
(***************************************************************************)
Value(type, v) == [type |-> type, v |-> v]
Illtyped       == Value("none", Null)

Both(x, y) ==
  IF FALSE \in {x, y} THEN FALSE ELSE IF Null \in {x, y} THEN Null ELSE TRUE
Negated(x) == IF x = Null THEN Null ELSE ~ x

Number(x) ==
  CASE x.type = "string" /\ x.v \in Texts -> Null
    [] x.type = "boolean" /\ x.v # Null -> IF x.v THEN 1 ELSE 0
    [] OTHER -> x.v

AsTruth(x) ==
  IF x.type = "boolean" \/ x.v = Null THEN x.v
  ELSE IF x.type = "string" /\ x.v \notin {0, 1} THEN Null ELSE x.v # 0

Sides(x, y) ==
  IF x.type = y.type THEN <<x.v, y.v>>
  ELSE IF "integer" \in {x.type, y.type} THEN <<Number(x), Number(y)>>
  ELSE <<AsTruth(x), AsTruth(y)>>

Equal(x, y) ==
  LET sides == Sides(x, y)
  IN  IF Null \in {sides[1], sides[2]} THEN Null ELSE sides[1] = sides[2]

Less(x, y) ==
  LET sides == Sides(x, y)
  IN  IF Null \in {sides[1], sides[2]} THEN Null
      ELSE IF "integer" \in {x.type, y.type} THEN sides[1] < sides[2]
      ELSE IF x.type = "string" /\ y.type = "string" THEN sides \in TextOrder
      ELSE ~ sides[1] /\ sides[2]

Within(v, list) ==
  IF v = Null THEN Null
  ELSE IF v \in list THEN TRUE ELSE IF Null \in list THEN Null ELSE FALSE

Computed(op, m, n) ==
  IF Null \in {m, n} THEN Null
  ELSE IF op = "Add" THEN m + n
  ELSE IF n = 0 THEN Null ELSE m \div n                \* the whole part will do

\* What comes of a node's arguments.
Result(n, x, row) ==
  CASE n.op = "AttributeReference" -> row[n.name]
    [] n.op \in {"Literal", "ScalarSubquery"} -> n.value
    [] n.op = "Cast"          -> IF n.type = "integer" THEN Number(x[1]) ELSE AsTruth(x[1])
    [] n.op = "Abs"           -> IF x[1].v # Null /\ x[1].v < 0 THEN - x[1].v ELSE x[1].v
    [] n.op \in Arithmetic    -> Computed(n.op, Number(x[1]), Number(x[2]))
    [] n.op = "And"           -> Both(x[1].v, x[2].v)
    [] n.op = "Or"            -> Negated(Both(Negated(x[1].v), Negated(x[2].v)))
    [] n.op = "Not"           -> Negated(x[1].v)
    [] n.op = "EqualTo"       -> Equal(x[1], x[2])
    [] n.op = "LessThan"      -> Less(x[1], x[2])
    [] n.op = "EqualNullSafe" -> x[1].v = x[2].v
    [] n.op = "IsNull"        -> x[1].v = Null
    [] n.op = "IsNotNull"     -> x[1].v # Null
    [] n.op = "In"            -> Within(x[1].v, {IF y.op = "Literal" THEN y.value
                                                 ELSE row[y.name] : y \in n.list})
    [] n.op = "InSet"         -> Within(x[1].v, n.list)
    [] n.op = "StartsWith"    -> IF Null \in {x[1].v, x[2].v} THEN Null
                                 ELSE <<x[1].v, x[2].v>> \in Begins
    [] n.op = "Like"          -> IF x[1].v = Null THEN Null
                                 ELSE <<x[1].v, n.pattern>> \in Matches

\* What the analyzer lets pass.
WellTyped(n, x) ==
  /\ \A i \in DOMAIN x : x[i].type # "none"
  /\ n.op \in Connectives => \A i \in DOMAIN x : x[i].type = "boolean"
  /\ n.op = "In" => x[1].type # "boolean"
  /\ n.op = "LessThan" => {x[1].type, x[2].type} # {"boolean", "integer"}

Apply(n, x, row) ==
  IF WellTyped(n, x) THEN Value(TypeOf(n), Result(n, x, row)) ELSE Illtyped

Values(e, row) ==
  LET val[p \in DOMAIN e] ==
        Apply(e[p], [i \in Kids(e, p) |-> val[Append(p, i)]], row)
  IN  val

Eval(e, row) == Values(e, row)[<<>>].v

\* The rows on which every filter of a set is true.
Selects(filters, row) == \A f \in filters : Eval(f, row) = TRUE

-----------------------------------------------------------------------------
(***************************************************************************)
(* PushdownSQL's companion object: which filters it takes.                 *)
(***************************************************************************)
\* Nodes whose children are looked at, and nodes that pass whatever is in them.
Traversed == Connectives \cup Comparisons \cup NullTests \cup {"StartsWith"}
                                     \* and EndsWith, Contains
Supported == {"AttributeReference", "Literal", "Cast", "In", "InSet", "Divide"}
                                     \* and Substring

\* The nodes that are looked at; the depth of one is the length of its path.
Visited(e) == Reached(e, Traversed, {})

checkHandleFilterExpression(e) ==
  \A p \in Visited(e) : Len(p) <= filterMaxDepth /\ e[p].op # "ScalarSubquery"

canHandleFilters(filters) == \A f \in filters : checkHandleFilterExpression(f)

validateFilterExpression(e) ==
  \A p \in Visited(e) : Len(p) <= filterMaxDepth /\ e[p].op \in Traversed \cup Supported

\* Mutant of validateFilters: one valid filter is enough.
validateFiltersSome(filters) ==
  IF filters = {} \/ \E f \in filters : validateFilterExpression(f)
  THEN "FullyValid" ELSE "Invalid"

validateFilters(filters) ==
  LET valid == {f \in filters : validateFilterExpression(f)}
  IN  CASE valid = filters -> "FullyValid"
        [] valid = {} /\ filters # {} -> "Invalid"
        [] OTHER -> "PartiallyValid"

-----------------------------------------------------------------------------
(***************************************************************************)
(* PushdownSQL: the text of a filter.  AND and OR, what is negated, and    *)
(* arithmetic stand in brackets; comparisons, IS NULL, IS NOT NULL, IN and *)
(* LIKE do not.                                                            *)
(***************************************************************************)
\* What the server reads of a string literal.
Quoted(v) == IF v \in Texts THEN Escaped[v] ELSE v

HasApostrophe(v) == Quoted(v) # v

\* The toString of a constant or a column, as In and LIKE have it.
shown(x) ==
  IF x.op = "AttributeReference" THEN Shown[x.name]
  ELSE IF x.value = Null THEN Shown[Null] ELSE x.value

\* Between quotes, where an apostrophe ends the literal too early.
buildInExpression(list) ==
  IF \E x \in list : HasApostrophe(shown(x)) THEN Garbled
  ELSE In({Literal("string", shown(x)) : x \in list})

\* Without quotes: a text is read as a name, which some column must have.
buildInSetExpression(hset) ==
  IF \E v \in hset : v \in Texts \ Columns THEN Garbled
  ELSE In({IF v \in Columns THEN Attribute(v) ELSE Literal("integer", v) : v \in hset})

buildLike(value) ==
  IF HasApostrophe(shown(value)) THEN Garbled
  ELSE [op |-> "Like", pattern |-> shown(value)]

\* A cast has no text of its own, literals are always quoted.  IS NULL of anything
\* but a column raises in the rule (a failed Java cast), which ends the query just
\* like a text that cannot be parsed.
buildNode(e, p) ==
  IF p # <<>> /\ e[Parent(p)].op = "IsNull" /\ e[p].op # "AttributeReference" THEN Garbled
  ELSE CASE e[p].op = "Cast"       -> Operator("Blank")
         [] e[p].op = "Literal"    -> Literal("string", Quoted(e[p].value))
         [] e[p].op = "In"         -> buildInExpression(e[p].list)
         [] e[p].op = "InSet"      -> buildInSetExpression(e[p].list)
         [] e[p].op = "StartsWith" -> buildLike(e[Append(p, 2)])
         [] e[p].op \in Connectives \cup Comparisons \cup NullTests \cup Arithmetic
                          \cup {"AttributeReference"} -> e[p]
         [] OTHER -> Hole

\* Nodes whose operands are written.  What is below a hole does not matter any more.
Written == Connectives \cup Comparisons \cup NullTests \cup Arithmetic
             \cup {"Cast", "In", "InSet"}

buildFilterExpression(e) ==
  [p \in Reached(e, Written, {"StartsWith"}) |-> buildNode(e, p)]

\* A cast has no text if its operand has none.
Textless(text) == \E p \in Reached(text, {"Blank"}, {}) : text[p] = Hole

\* The conditions of the WHERE clause, which are joined by AND; there is none for
\* a filter without any text.
buildWhereClause(filters) ==
  {text \in {buildFilterExpression(f) : f \in {g \in filters : validateFilterExpression(g)}} :
     ~ Textless(text)}

-----------------------------------------------------------------------------
(***************************************************************************)
(* What the server reads.  Between two brackets there may be a NOT, a first*)
(* operand, and what follows it: comparisons, which are taken from the left*)
(* to the right, and at the end an IS NULL, IS NOT NULL, IN or LIKE of all *)
(* that precedes.  A NOT at the beginning negates all that comes after it. *)
(* (A NOT behind a comparison is read as a call of the function `not`.)    *)
(***************************************************************************)
Predicates == NullTests \cup {"In", "Like"}

Said(not, first, rest) == [not |-> not, first |-> first, rest |-> rest]

Word(x)     == Said(FALSE, x, <<>>)
Then(n, xs) == [node |-> n, operands |-> xs]

\* What a phrase means as a whole.
Meaning(c, row) ==
  LET read[k \in 0 .. Len(c.rest)] ==
        IF k = 0 THEN c.first
        ELSE Apply(c.rest[k].node, <<read[k - 1]>> \o c.rest[k].operands, row)
      all == read[Len(c.rest)]
  IN  IF c.not THEN Apply(Operator("Not"), <<all>>, row) ELSE all

\* The phrase of a piece, from those of its operands.
Phrase(n, c, row) ==
  CASE n.op = "Blank" -> c[1]
    [] n.op = "Not"   -> Said(TRUE, Meaning(c[1], row), <<>>)
    [] n.op \in Comparisons ->
         LET operand == Meaning(Said(c[2].not, c[2].first, <<>>), row)
         IN  Said(c[1].not, c[1].first, c[1].rest \o <<Then(n, <<operand>>)>> \o c[2].rest)
    [] n.op \in Predicates -> Said(c[1].not, c[1].first, c[1].rest \o <<Then(n, <<>>)>>)
    [] OTHER -> Word(Apply(n, [i \in DOMAIN c |-> Meaning(c[i], row)], row))

Phrases(text, row) ==
  LET said[p \in DOMAIN text] ==
        Phrase(text[p], [i \in Kids(text, p) |-> said[Append(p, i)]], row)
  IN  said

Understood(text, row) == Meaning(Phrases(text, row)[<<>>], row)

\* A predicate that is not the end of what stands between two brackets.
Followed(text, p) ==
  \E k \in 1 .. Len(p) :
    /\ LET op == text[Prefix(p, k - 1)].op
       IN  op = "IsNotNull" \/ (op \in Comparisons /\ p[k] = 1)
    /\ \A j \in k + 1 .. Len(p) : text[Prefix(p, j - 1)].op \in Comparisons /\ p[j] = 2

\* The types are the same on every row.
Parses(text) ==
  /\ \A p \in DOMAIN text : text[p] \notin {Hole, Garbled}
  /\ \A p \in DOMAIN text : text[p].op \in Predicates => ~ Followed(text, p)
  /\ Understood(text, [c \in Columns |-> Null]).type = "boolean"

\* The rows the server selects by the conditions of a clause.
Answers(where, row) == \A text \in where : Understood(text, row).v = TRUE
=============================================================================
