--------------------------- MODULE MCPushdownRule ---------------------------
(***************************************************************************)
(* A table of an integer column a and a string column s, with every row of *)
(* 9, 10 and null, and the text that is just an apostrophe in s.           *)
(***************************************************************************)
EXTENDS PushdownRule

CONSTANTS a, s,                      \* the columns,
          nullShown, aShown, sShown, \* their toString, and that of null,
          quote, quotes, underscore  \* and the texts ', '' and _

MCColumns == {a, s}
MCTypes   == [c \in MCColumns |-> IF c = a THEN "integer" ELSE "string"]
MCTable   ==
  {[c \in MCColumns |-> IF c = a THEN m ELSE n] : m \in {9, 10, Null}, n \in {9, 10, Null, quote}}

\* The strings in the order of their characters; a column's name is one as well.
Ordered == <<quote, quotes, 10, 9, underscore, aShown, nullShown, s, sShown>>

MCTexts     == {Ordered[i] : i \in DOMAIN Ordered} \ {9, 10}
MCTextOrder == UNION {{<<Ordered[i], Ordered[j]>> : i \in 1 .. j - 1} : j \in DOMAIN Ordered}
MCBegins    == {<<t, t>> : t \in MCTexts \cup {9, 10}} \cup {<<quotes, quote>>}
MCMatches   == MCBegins \cup {<<t, underscore>> : t \in MCTexts \cup {9, 10}}
MCEscaped   == [t \in MCTexts |-> IF t = quote THEN quotes ELSE t]
MCShown     == [x \in MCColumns \cup {Null} |->
                  CASE x = a -> aShown [] x = s -> sShown [] OTHER -> nullShown]

\* A tree from its root and the sequence of its subtrees.
Tree(root, subtrees) ==
  [p \in {<<>>} \cup UNION {{<<i>> \o q : q \in DOMAIN subtrees[i]} : i \in DOMAIN subtrees} |->
     IF p = <<>> THEN root ELSE subtrees[Head(p)][Tail(p)]]

Node(op, subtrees) == Tree(Operator(op), subtrees)
OneOf(x, list)     == Tree(In(list), <<x>>)
OneOfSet(x, set)   == Tree([op |-> "InSet", list |-> set], <<x>>)
CastTo(type, x)    == Tree([op |-> "Cast", type |-> type], <<x>>)
Constant(type, v)  == Tree(Literal(type, v), <<>>)
Number9            == Constant("integer", 9)
Text(v)            == Constant("string", v)
Subquery(v)        == Tree([op |-> "ScalarSubquery", type |-> "integer", value |-> v], <<>>)
A == Tree(Attribute(a), <<>>)
S == Tree(Attribute(s), <<>>)
Texts9 == {Literal("string", 9)}

MCProjects ==
  {{}, {A}, {S}, {A, S}, {Node("Add", <<A, CastTo("integer", S)>>)}, {S, Node("Abs", <<A>>)}}

\* The optimizer makes an InSet only of more than ten constants; two stand for them.
Atoms ==
  { Node("EqualTo",       <<A, Number9>>),
    Node("LessThan",      <<A, Constant("integer", 10)>>),
    Node("LessThan",      <<Number9, A>>),
    Node("LessThan",      <<S, Text(9)>>),
    Node("EqualTo",       <<Node("Divide", <<A, Constant("integer", 2)>>), Constant("integer", 5)>>),
    Node("IsNull",        <<S>>),
    Node("IsNull",        <<Node("Abs", <<A>>)>>),
    Node("IsNotNull",     <<A>>),
    Node("IsNotNull",     <<Node("Or", <<Node("IsNull", <<S>>), Node("LessThan", <<A, Number9>>)>>)>>),
    OneOf(S, Texts9),
    OneOf(S, {Literal("string", quote)}),
    OneOf(Node("Abs", <<A>>), {Literal("integer", 9)}),
    OneOfSet(A, {9, Null}),
    OneOfSet(S, {10, quote}),
    Node("StartsWith",    <<S, Text(9)>>),
    Node("EqualTo",       <<CastTo("integer", Node("Abs", <<A>>)), Number9>>),
    Node("EqualNullSafe", <<S, Text(9)>>),
    Node("EqualTo",       <<A, Subquery(9)>>) }

Compound ==
  {Node("Not", <<x>>) : x \in Atoms}
    \cup {Node(op, <<x, y>>) : op \in {"And", "Or"}, x \in Atoms, y \in Atoms}

\* Filters whose text does not mean what they mean: casts, that leave no trace or no
\* text at all; constants; and operators that the parser binds in another way.
Miswritten ==
  { Node("LessThan", <<CastTo("integer", S), Number9>>),
    CastTo("boolean", Node("Abs", <<A>>)),
    Node("Not", <<OneOf(S, {Literal("string", 9), Literal("string", Null)})>>),
    OneOf(S, {Attribute(s)}),
    OneOfSet(S, {9, s}),
    Node("EqualTo",  <<S, Text(quote)>>),
    Node("StartsWith", <<S, Text(underscore)>>),
    Node("StartsWith", <<S, S>>),
    Node("IsNotNull", <<Node("Not", <<Node("EqualTo", <<A, Number9>>)>>)>>),
    Node("EqualTo",  <<Node("EqualTo", <<S, Text(9)>>), Node("LessThan", <<A, Constant("integer", 10)>>)>>),
    Node("EqualTo",  <<Node("Not", <<Node("IsNull", <<S>>)>>), Node("LessThan", <<A, Constant("integer", 10)>>)>>) }

\* Deeper than the bound on the depth allows.
Deep == Node("Not", <<Node("Not", <<Node("Not", <<Node("IsNull", <<S>>)>>)>>)>>)

MCFilterSets ==
  {{}} \cup {{x} : x \in Compound \cup Miswritten \cup {Deep}}
       \cup {{x, y} : x \in Atoms, y \in Atoms \cup {Deep}}

\* Each of these alone.
MiswrittenSets == {{x} : x \in Miswritten}
=============================================================================
