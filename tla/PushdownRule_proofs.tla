-------------------------- MODULE PushdownRule_proofs --------------------------
(***************************************************************************)
(* What is proved of PushdownRule for all tables, projects and filters.    *)
(***************************************************************************)
EXTENDS PushdownRule, FiniteSetTheorems, SequenceTheorems, WellFoundedInduction, TLAPS

SmallerPairs == {p \in Nat \X Nat : p[1] < p[2]}

LEMMA SmallerIsWellFounded == IsWellFoundedOn(SmallerPairs, Nat)
<1>1. OpToRel(<, Nat) = SmallerPairs
  BY Zenon DEF OpToRel, SmallerPairs
<1> QED
  BY NatLessThanWellFounded, <1>1, Zenon

\* Induction over the naturals: a set without a least member is empty.
LEMMA LeastNatural ==
  ASSUME NEW S \in SUBSET Nat, S # {}
  PROVE  \E n \in S : \A m \in S : n <= m
<1>1. PICK n \in S : \A m \in S : ~ (<<m, n>> \in SmallerPairs)
  BY SmallerIsWellFounded, WFMin, Zenon
<1>2. \A m \in S : m \in Nat /\ ~ (m < n)
  BY <1>1 DEF SmallerPairs
<1> QED
  BY <1>1, <1>2

-----------------------------------------------------------------------------
(***************************************************************************)
(* Positions and trees.                                                    *)
(***************************************************************************)
Position == Seq({1, 2})

LEMMA PrefixFacts ==
  ASSUME NEW p \in Position, NEW k \in 0 .. Len(p)
  PROVE  /\ Prefix(p, k) \in Position
         /\ Len(Prefix(p, k)) = k
         /\ \A j \in 1 .. k : Prefix(p, k)[j] = p[j]
         /\ \A j \in 0 .. k : Prefix(Prefix(p, k), j) = Prefix(p, j)
         /\ Prefix(p, Len(p)) = p
  BY DEF Prefix, Position

LEMMA AppendFacts ==
  ASSUME NEW p \in Position, NEW i \in {1, 2}
  PROVE  /\ Append(p, i) \in Position
         /\ Len(Append(p, i)) = Len(p) + 1
         /\ Append(p, i)[Len(p) + 1] = i
         /\ \A j \in 1 .. Len(p) : Append(p, i)[j] = p[j]
         /\ \A k \in 0 .. Len(p) : Prefix(Append(p, i), k) = Prefix(p, k)
         /\ Parent(Append(p, i)) = p
         /\ Append(p, i) # <<>>
  BY DEF Prefix, Parent, Position

LEMMA DepthBounded ==
  ASSUME NEW e, IsTree(e)
  PROVE  \E n \in Nat : \A p \in DOMAIN e : p \in Position /\ Len(p) <= n
<1>1. Cardinality(DOMAIN e) \in Nat
  BY FS_CardinalityType DEF IsTree
<1>2. ASSUME NEW p \in DOMAIN e PROVE p \in Position /\ Len(p) <= Cardinality(DOMAIN e)
  <2>1. p \in Position /\ Len(p) \in Nat
    BY DEF IsTree, Position
  <2> DEFINE f == [k \in 0 .. Len(p) |-> Prefix(p, k)]
  <2>2. \A k \in 0 .. Len(p) : f[k] \in DOMAIN e /\ Len(f[k]) = k
    BY <2>1, PrefixFacts DEF IsTree
  <2>3. f \in Injection(0 .. Len(p), DOMAIN e)
    <3>1. f \in [0 .. Len(p) -> DOMAIN e]
      BY <2>2
    <3>2. \A j, k \in 0 .. Len(p) : f[j] = f[k] => j = k
      BY <2>2
    <3> HIDE DEF f
    <3> QED
      BY <3>1, <3>2 DEF Injection, IsInjective
  <2> HIDE DEF f
  <2>4. Cardinality(0 .. Len(p)) <= Cardinality(DOMAIN e)
    BY <2>3, FS_Injection DEF IsTree
  <2>5. Cardinality(0 .. Len(p)) = Len(p) + 1
    BY <2>1, FS_Interval
  <2> QED
    BY <1>1, <2>1, <2>4, <2>5
<1> QED
  BY <1>1, <1>2

-----------------------------------------------------------------------------
(***************************************************************************)
(* Induction over a tree: what holds of a node when it holds of its        *)
(* children holds of all nodes.                                            *)
(***************************************************************************)
LEMMA BottomUp ==
  ASSUME NEW e, IsTree(e), NEW G,
         \A p \in DOMAIN e : (\A i \in Kids(e, p) : Append(p, i) \in G) => p \in G
  PROVE  \A p \in DOMAIN e : p \in G
<1>1. PICK n \in Nat : \A p \in DOMAIN e : p \in Position /\ Len(p) <= n
  BY DepthBounded
<1> DEFINE Wrong == {k \in 0 .. n : \E p \in DOMAIN e : Len(p) = n - k /\ p \notin G}
<1>2. \A k : k \in Wrong <=> k \in 0 .. n /\ \E p \in DOMAIN e : Len(p) = n - k /\ p \notin G
  OBVIOUS
<1> HIDE DEF Wrong
<1>3. Wrong = {}
  <2> SUFFICES ASSUME Wrong # {} PROVE FALSE
    OBVIOUS
  <2>1. Wrong \in SUBSET Nat
    BY <1>2
  <2>2. PICK k \in Wrong : \A m \in Wrong : k <= m
    BY <2>1, LeastNatural, Zenon
  <2>3. PICK p \in DOMAIN e : Len(p) = n - k /\ p \notin G
    BY <1>2, <2>2
  <2>4. ASSUME NEW i \in Kids(e, p) PROVE Append(p, i) \in G
    <3>1. p \in Position /\ i \in {1, 2} /\ Append(p, i) \in DOMAIN e /\ k \in 0 .. n
      BY <1>1, <1>2, <2>2 DEF Kids
    <3>2. Len(Append(p, i)) = Len(p) + 1 /\ Len(p) \in Nat
      BY <3>1, AppendFacts DEF Position
    <3>3. Len(Append(p, i)) <= n
      BY <1>1, <3>1
    <3>4. Len(Append(p, i)) = n - (k - 1) /\ k - 1 \in 0 .. n
      BY <2>3, <3>1, <3>2, <3>3
    <3>5. k - 1 \notin Wrong
      BY <2>2, <3>1
    <3> QED
      BY <1>2, <3>1, <3>4, <3>5
  <2> QED
    BY <2>3, <2>4
<1> SUFFICES ASSUME NEW p \in DOMAIN e PROVE p \in G
  OBVIOUS
<1>4. Len(p) \in 0 .. n
  BY <1>1 DEF Position
<1>5. n - Len(p) \in 0 .. n /\ Len(p) = n - (n - Len(p))
  BY <1>4
<1> QED
  BY <1>2, <1>3, <1>5

-----------------------------------------------------------------------------
(***************************************************************************)
(* The values of a tree's nodes are those of their arguments, applied, and *)
(* so it is with the phrases of a text.                                    *)
(***************************************************************************)
\* The nodes of a tree from a depth on, and their values alone.
Below(e, d) == {p \in DOMAIN e : Len(p) >= d}

Step(kind, n, x, row) == IF kind = "value" THEN Apply(n, x, row) ELSE Phrase(n, x, row)

Valued(kind, e, row, d, v) ==
  v = [p \in Below(e, d) |-> Step(kind, e[p], [i \in Kids(e, p) |-> v[Append(p, i)]], row)]

LEMMA BelowAll ==
  ASSUME NEW e, IsTree(e)
  PROVE  Below(e, 0) = DOMAIN e
<1>1. \A p \in DOMAIN e : Len(p) >= 0
  BY DEF IsTree
<1> QED
  BY <1>1 DEF Below

LEMMA ValuedAbove ==
  ASSUME NEW kind, NEW e, IsTree(e), NEW row, NEW d \in Nat, NEW v, Valued(kind, e, row, d + 1, v)
  PROVE  \E w : Valued(kind, e, row, d, w)
<1> DEFINE w == [p \in Below(e, d) |->
       IF p \in Below(e, d + 1) THEN v[p]
       ELSE Step(kind, e[p], [i \in Kids(e, p) |-> v[Append(p, i)]], row)]
<1>1. ASSUME NEW p \in Below(e, d)
      PROVE  w[p] = Step(kind, e[p], [i \in Kids(e, p) |-> v[Append(p, i)]], row)
  BY DEF Valued
<1>2. ASSUME NEW p \in Below(e, d), NEW i \in Kids(e, p)
      PROVE  w[Append(p, i)] = v[Append(p, i)]
  <2>1. p \in Position /\ Len(p) \in Nat /\ Len(p) >= d
    BY DEF Below, IsTree, Position
  <2>2. Append(p, i) \in DOMAIN e /\ i \in {1, 2}
    BY DEF Kids
  <2>3. Append(p, i) \in Below(e, d + 1) /\ Append(p, i) \in Below(e, d)
    BY <2>1, <2>2, AppendFacts DEF Below
  <2> QED
    BY <2>3
<1>3. ASSUME NEW p \in Below(e, d)
      PROVE  w[p] = Step(kind, e[p], [i \in Kids(e, p) |-> w[Append(p, i)]], row)
  <2>1. [i \in Kids(e, p) |-> w[Append(p, i)]] = [i \in Kids(e, p) |-> v[Append(p, i)]]
    BY <1>2
  <2> QED
    BY <1>1, <2>1
<1>4. w = [p \in Below(e, d) |-> w[p]]
  OBVIOUS
<1> HIDE DEF w
<1>5. w = [p \in Below(e, d) |-> Step(kind, e[p], [i \in Kids(e, p) |-> w[Append(p, i)]], row)]
  BY <1>3, <1>4
<1> QED
  BY <1>5 DEF Valued

LEMMA ValuedExists ==
  ASSUME NEW kind, NEW e, IsTree(e), NEW row
  PROVE  \E v : Valued(kind, e, row, 0, v)
<1>1. PICK n \in Nat : \A p \in DOMAIN e : p \in Position /\ Len(p) <= n
  BY DepthBounded
<1> DEFINE Missing == {k \in 0 .. n + 1 : ~ \E v : Valued(kind, e, row, n + 1 - k, v)}
<1>2. 0 \notin Missing
  <2>1. Below(e, n + 1) = {}
    BY <1>1 DEF Below, Position
  <2> DEFINE none == [p \in {} |-> 0]
  <2>2. Valued(kind, e, row, n + 1, none)
    BY <2>1 DEF Valued
  <2> HIDE DEF none
  <2>3. \E v : Valued(kind, e, row, n + 1 - 0, v)
    BY <2>2
  <2> QED
    BY <2>3
<1>3. Missing = {}
  <2> SUFFICES ASSUME Missing # {} PROVE FALSE
    OBVIOUS
  <2>1. Missing \in SUBSET Nat
    OBVIOUS
  <2>2. PICK k \in Missing : \A m \in Missing : k <= m
    BY <2>1, LeastNatural, Zenon
  <2>3. k \in 1 .. n + 1 /\ k - 1 \notin Missing /\ k - 1 \in 0 .. n + 1
    BY <1>2, <2>2
  <2>4. \E v : Valued(kind, e, row, n + 1 - (k - 1), v)
    BY <2>3
  <2>5. n + 1 - (k - 1) = (n + 1 - k) + 1 /\ n + 1 - k \in Nat
    BY <2>3
  <2>6. \E v : Valued(kind, e, row, n + 1 - k, v)
    BY <2>4, <2>5, ValuedAbove
  <2> QED
    BY <2>2, <2>6
<1>4. n + 1 \in 0 .. n + 1 /\ n + 1 - (n + 1) = 0
  OBVIOUS
<1>5. \E v : Valued(kind, e, row, n + 1 - (n + 1), v)
  BY <1>3, <1>4
<1> QED
  BY <1>4, <1>5

LEMMA ValuesOfArguments ==
  ASSUME NEW e, IsTree(e), NEW row
  PROVE  \A p \in DOMAIN e :
           Values(e, row)[p] =
             Apply(e[p], [i \in Kids(e, p) |-> Values(e, row)[Append(p, i)]], row)
<1> DEFINE Fits(v) ==
      v = [p \in DOMAIN e |-> Apply(e[p], [i \in Kids(e, p) |-> v[Append(p, i)]], row)]
<1>1. PICK v : Valued("value", e, row, 0, v)
  BY ValuedExists
<1>2. Fits(v)
  BY <1>1, BelowAll DEF Valued, Step
<1>3. Values(e, row) = CHOOSE w : Fits(w)
  BY DEF Values
<1>4. Fits(Values(e, row))
  <2> HIDE DEF Fits
  <2> QED
    BY <1>2, <1>3
<1> QED
  BY <1>4

LEMMA PhrasesOfOperands ==
  ASSUME NEW text, IsTree(text), NEW row
  PROVE  \A p \in DOMAIN text :
           Phrases(text, row)[p] =
             Phrase(text[p], [i \in Kids(text, p) |-> Phrases(text, row)[Append(p, i)]], row)
<1> DEFINE Fits(v) ==
      v = [p \in DOMAIN text |-> Phrase(text[p], [i \in Kids(text, p) |-> v[Append(p, i)]], row)]
<1>1. PICK v : Valued("phrase", text, row, 0, v)
  BY ValuedExists
<1>2. Fits(v)
  BY <1>1, BelowAll DEF Valued, Step
<1>3. Phrases(text, row) = CHOOSE w : Fits(w)
  BY DEF Phrases
<1>4. Fits(Phrases(text, row))
  <2> HIDE DEF Fits
  <2> QED
    BY <1>2, <1>3
<1> QED
  BY <1>4

-----------------------------------------------------------------------------
(***************************************************************************)
(* The text of a filter is a tree, of the pieces of what it has text for.  *)
(***************************************************************************)
WrittenNodes(e) == Reached(e, Written, {"StartsWith"})

LEMMA TextIsTree ==
  ASSUME NEW e, IsTree(e)
  PROVE  /\ IsTree(buildFilterExpression(e))
         /\ DOMAIN buildFilterExpression(e) = WrittenNodes(e)
         /\ WrittenNodes(e) \subseteq DOMAIN e
<1>1. DOMAIN buildFilterExpression(e) = WrittenNodes(e) /\ WrittenNodes(e) \subseteq DOMAIN e
  BY DEF buildFilterExpression, WrittenNodes, Reached
<1>2. IsFiniteSet(WrittenNodes(e))
  BY <1>1, FS_Subset DEF IsTree
<1>3. <<>> \in WrittenNodes(e)
  BY DEF WrittenNodes, Reached, IsTree
<1>4. ASSUME NEW p \in WrittenNodes(e), NEW k \in 0 .. Len(p)
      PROVE  p \in Seq({1, 2}) /\ Prefix(p, k) \in WrittenNodes(e)
  <2>1. p \in Position /\ p \in DOMAIN e /\ Prefix(p, k) \in DOMAIN e
    BY DEF WrittenNodes, Reached, IsTree, Position
  <2>2. /\ Prefix(p, k) \in Position /\ Len(Prefix(p, k)) = k /\ Len(p) \in Nat
        /\ \A j \in 1 .. k : Prefix(Prefix(p, k), j - 1) = Prefix(p, j - 1)
        /\ \A j \in 1 .. k : Prefix(p, k)[j] = p[j]
    BY <2>1, PrefixFacts DEF Position
  <2>3. \A j \in 1 .. Len(p) : LET op == e[Prefix(p, j - 1)].op
                               IN  op \in Written \/ (op \in {"StartsWith"} /\ p[j] = 1)
    BY DEF WrittenNodes, Reached
  <2>4. \A j \in 1 .. k : j \in 1 .. Len(p)
    BY <2>2
  <2> QED
    BY <2>1, <2>2, <2>3, <2>4 DEF WrittenNodes, Reached, Position
<1> QED
  BY <1>1, <1>2, <1>3, <1>4 DEF IsTree

\* The operands that are written with a node: all, but only one of a LIKE.
LEMMA WrittenKids ==
  ASSUME NEW e, IsTree(e), NEW p \in WrittenNodes(e), NEW i \in Kids(e, p),
         e[p].op \in Written \/ (e[p].op = "StartsWith" /\ i = 1)
  PROVE  Append(p, i) \in WrittenNodes(e)
<1>1. p \in Position /\ Append(p, i) \in DOMAIN e /\ i \in {1, 2} /\ Len(p) \in Nat
  BY DEF WrittenNodes, Reached, IsTree, Position, Kids
<1>2. /\ Len(Append(p, i)) = Len(p) + 1
      /\ \A k \in 0 .. Len(p) : Prefix(Append(p, i), k) = Prefix(p, k)
      /\ \A k \in 1 .. Len(p) : Append(p, i)[k] = p[k]
      /\ Append(p, i)[Len(p) + 1] = i
  BY <1>1, AppendFacts
<1>3. Prefix(p, Len(p)) = p
  BY <1>1, PrefixFacts
<1>4. ASSUME NEW k \in 1 .. Len(p) + 1
      PROVE  LET op == e[Prefix(Append(p, i), k - 1)].op
             IN  op \in Written \/ (op \in {"StartsWith"} /\ Append(p, i)[k] = 1)
  <2>1. Prefix(Append(p, i), k - 1) = Prefix(p, k - 1)
    BY <1>1, <1>2
  <2>2. CASE k = Len(p) + 1
    BY <1>1, <1>2, <1>3, <2>1, <2>2
  <2>3. CASE k \in 1 .. Len(p)
    BY <1>2, <2>1, <2>3 DEF WrittenNodes, Reached
  <2> QED
    BY <1>1, <2>2, <2>3
<1> QED
  BY <1>1, <1>2, <1>4 DEF WrittenNodes, Reached

\* What a node with a legible text has become.
Piece(e, p) ==
  CASE e[p].op = "Cast"       -> Operator("Blank")
    [] e[p].op = "Literal"    -> Literal("string", Quoted(e[p].value))
    [] e[p].op = "In"         -> In({Literal("string", shown(x)) : x \in e[p].list})
    [] e[p].op = "InSet"      ->
         In({IF v \in Columns THEN Attribute(v) ELSE Literal("integer", v) : v \in e[p].list})
    [] e[p].op = "StartsWith" -> [op |-> "Like", pattern |-> shown(e[Append(p, 2)])]
    [] OTHER -> e[p]

Readable(text) == \A p \in DOMAIN text : text[p] \notin {Hole, Garbled}

HasPiece == Connectives \cup Comparisons \cup NullTests \cup Arithmetic
              \cup {"Cast", "In", "InSet", "StartsWith", "AttributeReference", "Literal"}

LEMMA NodeWritten ==
  ASSUME NEW e, IsTree(e), Readable(buildFilterExpression(e)), NEW p \in WrittenNodes(e)
  PROVE  /\ buildFilterExpression(e)[p] = Piece(e, p)
         /\ e[p].op \in HasPiece
<1>1. /\ buildFilterExpression(e)[p] = buildNode(e, p)
      /\ buildNode(e, p) # Hole /\ buildNode(e, p) # Garbled
  BY TextIsTree DEF Readable, buildFilterExpression, WrittenNodes
<1>2. ~ (p # <<>> /\ e[Parent(p)].op = "IsNull" /\ e[p].op # "AttributeReference")
  BY <1>1 DEF buildNode
<1>3. CASE e[p].op = "Cast"
  BY <1>1, <1>2, <1>3 DEF buildNode, Piece, HasPiece, Connectives, Comparisons, NullTests, Arithmetic
<1>4. CASE e[p].op = "Literal"
  BY <1>1, <1>2, <1>4 DEF buildNode, Piece, HasPiece, Connectives, Comparisons, NullTests, Arithmetic
<1>5. CASE e[p].op = "In"
  <2>1. buildNode(e, p) = buildInExpression(e[p].list)
    BY <1>2, <1>5 DEF buildNode, Connectives, Comparisons, NullTests, Arithmetic
  <2> QED
    BY <1>1, <1>5, <2>1 DEF buildInExpression, Piece, HasPiece
<1>6. CASE e[p].op = "InSet"
  <2>1. buildNode(e, p) = buildInSetExpression(e[p].list)
    BY <1>2, <1>6 DEF buildNode, Connectives, Comparisons, NullTests, Arithmetic
  <2> QED
    BY <1>1, <1>6, <2>1 DEF buildInSetExpression, Piece, HasPiece
<1>7. CASE e[p].op = "StartsWith"
  <2>1. buildNode(e, p) = buildLike(e[Append(p, 2)])
    BY <1>2, <1>7 DEF buildNode, Connectives, Comparisons, NullTests, Arithmetic
  <2> QED
    BY <1>1, <1>7, <2>1 DEF buildLike, Piece, HasPiece
<1>8. CASE e[p].op \notin {"Cast", "Literal", "In", "InSet", "StartsWith"}
  <2>1. buildNode(e, p) = IF e[p].op \in Connectives \cup Comparisons \cup NullTests \cup Arithmetic
                                           \cup {"AttributeReference"}
                          THEN e[p] ELSE Hole
    BY <1>2, <1>8 DEF buildNode, Connectives, Comparisons, NullTests, Arithmetic
  <2>2. Piece(e, p) = e[p]
    BY <1>8 DEF Piece
  <2> QED
    BY <1>1, <2>1, <2>2 DEF HasPiece
<1> QED
  BY <1>3, <1>4, <1>5, <1>6, <1>7, <1>8

-----------------------------------------------------------------------------
(***************************************************************************)
(* The meaning of a phrase of one word, of one word negated, and of one    *)
(* word and an operator that follows it.                                   *)
(***************************************************************************)
LEMMA Tuples ==
  ASSUME NEW u, NEW w
  PROVE  /\ <<u>> = [i \in {1} |-> u]
         /\ <<u>> \o <<>> = [i \in {1} |-> u]
         /\ <<u>> \o <<w>> = [i \in {1, 2} |-> IF i = 1 THEN u ELSE w]
         /\ <<>> \o <<u>> \o <<>> = <<u>>
         /\ <<>> \o <<u>> = <<u>>
<1>1. {1} = 1 .. 1 /\ {1, 2} = 1 .. 2
  OBVIOUS
<1>2. <<u>> = [i \in 1 .. 1 |-> u]
  OBVIOUS
<1>3. <<u>> \in Seq({u, w}) /\ <<w>> \in Seq({u, w}) /\ <<u, w>> \in Seq({u, w})
  OBVIOUS
<1>4. <<u>> \o <<>> = <<u>> /\ <<>> \o <<u>> = <<u>>
  BY <1>3, ConcatEmptySeq
<1>5. <<u>> \o <<w>> = <<u, w>>
  <2>1. /\ <<u>> \o <<w>> \in Seq({u, w}) /\ Len(<<u>> \o <<w>>) = 2
        /\ \A i \in 1 .. 2 : (<<u>> \o <<w>>)[i] = IF i <= 1 THEN <<u>>[i] ELSE <<w>>[i - 1]
    BY <1>3, ConcatProperties, Len(<<u>>) = 1, Len(<<w>>) = 1
  <2> DEFINE both == <<u>> \o <<w>>
  <2>2. \A i \in 1 .. 2 : both[i] = <<u, w>>[i]
    BY <2>1
  <2>3. Len(<<u, w>>) = 2
    OBVIOUS
  <2> HIDE DEF both
  <2>4. both = <<u, w>>
    <3>1. both \in Seq({u, w}) /\ Len(both) = 2
      BY <2>1 DEF both
    <3> QED
      BY <1>3, <2>2, <2>3, <3>1, SeqEqual
  <2> QED
    BY <2>4 DEF both
<1>6. <<u, w>> = [i \in 1 .. 2 |-> IF i = 1 THEN u ELSE w]
  OBVIOUS
<1> QED
  BY <1>1, <1>2, <1>4, <1>5, <1>6

\* The words that follow the first one, read from the left.
ReadTo(c, row, f) ==
  f = [k \in 0 .. Len(c.rest) |->
         IF k = 0 THEN c.first
         ELSE Apply(c.rest[k].node, <<f[k - 1]>> \o c.rest[k].operands, row)]

LEMMA MeaningRead ==
  ASSUME NEW c, NEW row, NEW f, ReadTo(c, row, f)
  PROVE  \E g : /\ ReadTo(c, row, g)
                /\ Meaning(c, row) = IF c.not THEN Apply(Operator("Not"), <<g[Len(c.rest)]>>, row)
                                     ELSE g[Len(c.rest)]
<1> DEFINE Fits(g) ==
      g = [k \in 0 .. Len(c.rest) |->
             IF k = 0 THEN c.first
             ELSE Apply(c.rest[k].node, <<g[k - 1]>> \o c.rest[k].operands, row)]
           read == CHOOSE g : Fits(g)
<1>1. Meaning(c, row) = IF c.not THEN Apply(Operator("Not"), <<read[Len(c.rest)]>>, row)
                        ELSE read[Len(c.rest)]
  BY DEF Meaning
<1>2. Fits(f)
  BY DEF ReadTo
<1>3. Fits(read)
  <2> HIDE DEF Fits
  <2> QED
    BY <1>2
<1>4. ReadTo(c, row, read)
  BY <1>3 DEF ReadTo
<1> HIDE DEF read, Fits
<1> QED
  BY <1>1, <1>4

LEMMA MeaningOfWord ==
  ASSUME NEW x, NEW row
  PROVE  /\ Meaning(Word(x), row) = x
         /\ Meaning(Said(TRUE, x, <<>>), row) =
              Apply(Operator("Not"), [i \in {1} |-> x], row)
<1>1. ASSUME NEW c, c.first = x, c.rest = <<>>
      PROVE  Meaning(c, row) = IF c.not THEN Apply(Operator("Not"), <<x>>, row) ELSE x
  <2>1. Len(c.rest) = 0 /\ 0 .. 0 = {0}
    BY <1>1
  <2> DEFINE f == [k \in {0} |-> x]
  <2>2. ReadTo(c, row, f)
    BY <1>1, <2>1 DEF ReadTo
  <2> HIDE DEF f
  <2>3. PICK g : /\ ReadTo(c, row, g)
                 /\ Meaning(c, row) = IF c.not THEN Apply(Operator("Not"), <<g[Len(c.rest)]>>, row)
                                      ELSE g[Len(c.rest)]
    BY <2>2, MeaningRead
  <2>4. g[0] = x
    BY <1>1, <2>1, <2>3 DEF ReadTo
  <2> QED
    BY <2>1, <2>3, <2>4
<1> DEFINE w == Word(x)
           c == Said(TRUE, x, <<>>)
<1>2. w.first = x /\ w.rest = <<>> /\ w.not = FALSE /\ c.first = x /\ c.rest = <<>> /\ c.not = TRUE
  BY DEF Word, Said
<1>3. <<x>> = [i \in {1} |-> x]
  BY Tuples
<1> HIDE DEF w, c
<1>4. Meaning(w, row) = x /\ Meaning(c, row) = Apply(Operator("Not"), <<x>>, row)
  BY <1>1, <1>2
<1> QED
  BY <1>3, <1>4 DEF w, c

LEMMA MeaningOfTwo ==
  ASSUME NEW x, NEW n, NEW o, NEW row, NEW c, c = Said(FALSE, x, <<Then(n, o)>>)
  PROVE  Meaning(c, row) = Apply(n, <<x>> \o o, row)
<1>1. /\ Len(c.rest) = 1 /\ c.first = x /\ c.not = FALSE
      /\ c.rest[1].node = n /\ c.rest[1].operands = o
  BY DEF Said, Then
<1> DEFINE y == Apply(n, <<x>> \o o, row)
<1>2. \E f : f[0] = x /\ f[1] = y /\ f = [k \in 0 .. 1 |-> f[k]]
  <2> DEFINE f == [k \in 0 .. 1 |-> IF k = 0 THEN x ELSE y]
  <2>1. f[0] = x /\ f[1] = y /\ f = [k \in 0 .. 1 |-> f[k]]
    OBVIOUS
  <2> QED
    BY <2>1
<1>10. PICK f : f[0] = x /\ f[1] = y /\ f = [k \in 0 .. 1 |-> f[k]]
  BY <1>2
<1> HIDE DEF y
<1>3. \A k \in 0 .. 1 : f[k] = IF k = 0 THEN c.first
                               ELSE Apply(c.rest[k].node, <<f[k - 1]>> \o c.rest[k].operands, row)
  <2>1. f[0] = c.first
    BY <1>1, <1>10
  <2>2. f[1 - 1] = x
    BY <1>10
  <2>3. f[1] = Apply(c.rest[1].node, <<f[1 - 1]>> \o c.rest[1].operands, row)
    BY <1>1, <1>10, <2>2 DEF y
  <2>4. \A k \in 0 .. 1 : k = 0 \/ k = 1
    OBVIOUS
  <2> QED
    BY <2>1, <2>3, <2>4
<1>4. ReadTo(c, row, f)
  BY <1>1, <1>10, <1>3 DEF ReadTo
<1>5. PICK g : /\ ReadTo(c, row, g)
               /\ Meaning(c, row) = IF c.not THEN Apply(Operator("Not"), <<g[Len(c.rest)]>>, row)
                                    ELSE g[Len(c.rest)]
  BY <1>4, MeaningRead
<1>6. g[0] = x
  BY <1>1, <1>5 DEF ReadTo
<1>7. g[1] = Apply(c.rest[1].node, <<g[1 - 1]>> \o c.rest[1].operands, row)
  BY <1>1, <1>5 DEF ReadTo
<1>8. g[1] = y
  BY <1>1, <1>6, <1>7 DEF y
<1> QED
  BY <1>1, <1>5, <1>8 DEF y

-----------------------------------------------------------------------------
(***************************************************************************)
(* Where all operands that need brackets have them, the server reads the   *)
(* text as the tree it was written for.                                    *)
(***************************************************************************)
Ops == Connectives \cup Comparisons \cup NullTests \cup Arithmetic

\* The pieces of a text, by their operators.
LEMMA PieceOps ==
  ASSUME NEW e, NEW p, e[p].op \in HasPiece
  PROVE  /\ e[p].op \in Ops \cup {"AttributeReference"} => Piece(e, p) = e[p]
         /\ e[p].op = "Cast" => Piece(e, p).op = "Blank"
         /\ e[p].op = "Literal" => Piece(e, p).op = "Literal"
         /\ e[p].op \in {"In", "InSet"} => Piece(e, p).op = "In"
         /\ e[p].op = "StartsWith" => Piece(e, p).op = "Like"
BY DEF Piece, Operator, Literal, In, Ops, Connectives, Comparisons, NullTests, Arithmetic

\* The phrase of a text's piece, and those of its operands.
LEMMA PieceKids ==
  ASSUME NEW e, IsExpression(e), Readable(buildFilterExpression(e)), NEW p \in WrittenNodes(e)
  PROVE  LET text == buildFilterExpression(e)
         IN  /\ text[p] = Piece(e, p)
             /\ e[p].op \in HasPiece
             /\ \A i \in Kids(text, p) : Append(p, i) \in WrittenNodes(e) /\ i \in Kids(e, p)
             /\ e[p].op \in {"AttributeReference", "Literal"} => Kids(text, p) = {}
             /\ e[p].op \in {"Not", "Cast", "In", "InSet", "StartsWith"} \cup NullTests
                  => Kids(text, p) = {1}
             /\ e[p].op \in {"And", "Or"} \cup Comparisons \cup Arithmetic => Kids(text, p) = {1, 2}
             /\ e[p].op # "StartsWith" => Kids(text, p) = Kids(e, p)
<1> DEFINE text == buildFilterExpression(e)
<1>1. IsTree(e) /\ DOMAIN text = WrittenNodes(e) /\ WrittenNodes(e) \subseteq DOMAIN e
  BY TextIsTree DEF IsExpression
<1>2. text[p] = Piece(e, p) /\ e[p].op \in HasPiece
  BY <1>1, NodeWritten
<1>3. p \in DOMAIN e /\ Kids(e, p) = IF e[p].op \in Leaves THEN {}
                                     ELSE IF e[p].op \in Unary THEN {1} ELSE {1, 2}
  BY <1>1 DEF IsExpression
<1>4. \A i \in Kids(text, p) : Append(p, i) \in WrittenNodes(e) /\ i \in Kids(e, p)
  BY <1>1 DEF Kids
<1>5. CASE e[p].op \in Written
  <2>1. Kids(text, p) = Kids(e, p)
    BY <1>1, <1>4, <1>5, WrittenKids DEF Kids
  <2> QED
    BY <1>2, <1>3, <1>4, <1>5, <2>1 DEF Leaves, Unary, Written, Connectives, Comparisons, NullTests, Arithmetic
<1>6. CASE e[p].op \in {"AttributeReference", "Literal"}
  <2>1. Kids(text, p) = Kids(e, p) /\ Kids(e, p) = {}
    BY <1>3, <1>4, <1>6 DEF Leaves
  <2> QED
    BY <1>2, <1>4, <1>6, <2>1 DEF Connectives, Comparisons, NullTests, Arithmetic
<1>7. CASE e[p].op = "StartsWith"
  <2>1. Kids(e, p) = {1, 2}
    BY <1>3, <1>7 DEF Leaves, Unary, NullTests
  <2>2. Append(p, 1) \in WrittenNodes(e)
    BY <1>1, <1>7, <2>1, WrittenKids
  <2>3. 1 \in Kids(text, p)
    BY <1>1, <2>2 DEF Kids
  <2>4. 2 \notin Kids(text, p)
    <3> SUFFICES ASSUME 2 \in Kids(text, p) PROVE FALSE
      OBVIOUS
    <3> DEFINE q == Append(p, 2)
    <3>1. q \in WrittenNodes(e) /\ p \in Position
      BY <1>1, <1>3, <1>4 DEF IsTree, Position
    <3>2. Len(q) = Len(p) + 1 /\ q[Len(p) + 1] = 2 /\ Prefix(q, Len(p)) = Prefix(p, Len(p))
          /\ Len(p) \in Nat
      BY <3>1, AppendFacts DEF Position
    <3>3. Prefix(p, Len(p)) = p
      BY <3>1, <3>2, PrefixFacts
    <3>4. Len(p) + 1 \in 1 .. Len(q) /\ (Len(p) + 1) - 1 = Len(p)
      BY <3>2
    <3>5. e[Prefix(q, (Len(p) + 1) - 1)].op \in Written \/ q[Len(p) + 1] = 1
      BY <3>1, <3>4 DEF WrittenNodes, Reached
    <3>6. e[p].op \in Written
      BY <3>2, <3>3, <3>4, <3>5
    <3> QED
      BY <1>7, <3>6 DEF Written, Connectives, Comparisons, NullTests, Arithmetic
  <2>5. Kids(text, p) = {1}
    BY <2>3, <2>4 DEF Kids
  <2> QED
    BY <1>2, <1>4, <1>7, <2>5 DEF Connectives, Comparisons, NullTests, Arithmetic
<1> QED
  BY <1>2, <1>5, <1>6, <1>7 DEF HasPiece, Written

\* What is not loose is one word.
LEMMA OneWord ==
  ASSUME NEW e, IsExpression(e), Readable(buildFilterExpression(e)), NEW row
  PROVE  LET said == Phrases(buildFilterExpression(e), row)
         IN  \A p \in WrittenNodes(e) :
               e[p].op \notin Unbracketed => said[p] = Word(Meaning(said[p], row))
<1> DEFINE text == buildFilterExpression(e)
           W == Phrases(text, row)
           G == {p \in WrittenNodes(e) : e[p].op \notin Unbracketed => W[p] = Word(Meaning(W[p], row))}
<1>1. IsTree(text) /\ DOMAIN text = WrittenNodes(e) /\ WrittenNodes(e) \subseteq DOMAIN e
  BY TextIsTree DEF IsExpression
<1>2. ASSUME NEW p \in WrittenNodes(e), \A i \in Kids(text, p) : Append(p, i) \in G,
             e[p].op \notin Unbracketed
      PROVE  W[p] = Word(Meaning(W[p], row))
  <2>1. W[p] = Phrase(text[p], [i \in Kids(text, p) |-> W[Append(p, i)]], row)
    BY <1>1, PhrasesOfOperands
  <2>2. text[p] = Piece(e, p) /\ e[p].op \in HasPiece
        /\ (e[p].op = "Cast" => Kids(text, p) = {1})
        /\ (\A i \in Kids(text, p) : Append(p, i) \in WrittenNodes(e) /\ i \in Kids(e, p))
    BY PieceKids
  <2>3. CASE e[p].op = "Cast"
    <3>1. W[p] = W[Append(p, 1)] /\ Append(p, 1) \in G
      <4>1. text[p].op = "Blank" /\ Kids(text, p) = {1}
        BY <2>2, <2>3, PieceOps
      <4> DEFINE c == [i \in Kids(text, p) |-> W[Append(p, i)]]
      <4>2. c[1] = W[Append(p, 1)]
        BY <4>1
      <4> HIDE DEF c
      <4>3. Phrase(text[p], c, row) = c[1]
        BY <4>1 DEF Phrase, Comparisons, Predicates, NullTests
      <4> QED
        BY <1>2, <2>1, <4>1, <4>2, <4>3 DEF c
    <3>2. 1 \in Kids(e, p) /\ p \in DOMAIN e
      BY <1>1, <2>2, <2>3
    <3>3. TypeOf(e[Append(p, 1)]) # "boolean"
      <4>1. OperandsFit(e[p], [i \in Kids(e, p) |-> e[Append(p, i)]])
        BY <3>2 DEF IsExpression
      <4> QED
        BY <2>3, <3>2, <4>1 DEF OperandsFit
    <3>4. e[Append(p, 1)].op \notin Unbracketed
      BY <3>3 DEF TypeOf, Unbracketed, Comparisons, NullTests, Arithmetic
    <3> QED
      BY <3>1, <3>4
  <2>4. CASE e[p].op # "Cast"
    <3>1. text[p].op \in {"And", "Or", "AttributeReference", "Literal"} \cup Arithmetic
      BY <1>2, <2>2, <2>4, PieceOps DEF HasPiece, Unbracketed, Ops, Connectives
    <3> DEFINE c == [i \in Kids(text, p) |-> W[Append(p, i)]]
               x == Apply(text[p], [i \in DOMAIN c |-> Meaning(c[i], row)], row)
    <3> HIDE DEF c
    <3>2. Phrase(text[p], c, row) = Word(x)
      BY <3>1 DEF Phrase, Comparisons, Predicates, NullTests, Arithmetic
    <3> HIDE DEF x
    <3>3. W[p] = Word(x)
      BY <2>1, <3>2 DEF c
    <3> QED
      BY <3>3, MeaningOfWord
  <2> QED
    BY <2>3, <2>4
<1>3. \A p \in DOMAIN text : (\A i \in Kids(text, p) : Append(p, i) \in G) => p \in G
  BY <1>1, <1>2
<1> HIDE DEF G, W, text
<1>4. \A p \in DOMAIN text : p \in G
  BY <1>1, <1>3, BottomUp
<1> QED
  BY <1>1, <1>4 DEF G, W, text

\* The meaning of a piece is that of its operands, applied.
LEMMA MeaningOfPiece ==
  ASSUME NEW e, IsExpression(e), Bracketed(e), Readable(buildFilterExpression(e)),
         NEW p \in WrittenNodes(e), NEW row
  PROVE  LET text == buildFilterExpression(e)
             M(q) == Meaning(Phrases(text, row)[q], row)
         IN  M(p) = IF text[p].op = "Blank" THEN M(Append(p, 1))
                    ELSE Apply(text[p], [i \in Kids(text, p) |-> M(Append(p, i))], row)
<1> DEFINE text == buildFilterExpression(e)
           W == Phrases(text, row)
           M(q) == Meaning(W[q], row)
           n == text[p]
           K == Kids(text, p)
           c == [i \in K |-> W[Append(p, i)]]
           x == [i \in K |-> M(Append(p, i))]
<1>1. IsTree(text) /\ IsTree(e) /\ DOMAIN text = WrittenNodes(e) /\ WrittenNodes(e) \subseteq DOMAIN e
  BY TextIsTree DEF IsExpression
<1>2. W[p] = Phrase(n, c, row)
  BY <1>1, PhrasesOfOperands
<1>3. /\ n = Piece(e, p) /\ e[p].op \in HasPiece
      /\ \A i \in K : Append(p, i) \in WrittenNodes(e) /\ i \in Kids(e, p)
      /\ e[p].op \in {"Not", "Cast", "In", "InSet", "StartsWith"} \cup NullTests => K = {1}
      /\ e[p].op \in {"And", "Or"} \cup Comparisons \cup Arithmetic => K = {1, 2}
  BY PieceKids
<1>4. \A i \in K : c[i] = W[Append(p, i)] /\ x[i] = M(Append(p, i)) /\ x[i] = Meaning(c[i], row)
  OBVIOUS
<1>5. ASSUME NEW i \in K, e[Append(p, i)].op \notin Unbracketed
      PROVE  c[i] = Word(x[i])
  BY <1>3, <1>4, <1>5, OneWord
<1>6. ASSUME NEW i \in K
      PROVE  /\ Parent(Append(p, i)) = p /\ Append(p, i) # <<>> /\ Append(p, i) \in DOMAIN e
             /\ OperandsFit(e[p], [k \in Kids(e, p) |-> e[Append(p, k)]])
             /\ i \in Kids(e, p)
  BY <1>1, <1>3, AppendFacts DEF IsExpression, IsTree, Position, Kids
<1>7. ASSUME NEW i \in K, e[p].op \in Comparisons \cup NullTests \cup {"In", "InSet", "StartsWith"}
      PROVE  c[i] = Word(x[i])
  <2>1. e[Append(p, i)].op \notin Unbracketed
    <3>1. CASE e[p].op \in Comparisons \cup {"IsNotNull"}
      BY <1>6, <3>1 DEF Bracketed
    <3>2. CASE e[p].op = "IsNull"
      <4>1. text[Append(p, i)] = buildNode(e, Append(p, i)) /\ text[Append(p, i)] # Garbled
        BY <1>1, <1>3 DEF buildFilterExpression, Readable, WrittenNodes
      <4>2. e[Append(p, i)].op = "AttributeReference"
        BY <1>6, <3>2, <4>1 DEF buildNode
      <4> QED
        BY <4>2 DEF Unbracketed, Comparisons, NullTests
    <3>3. CASE e[p].op \in {"In", "InSet", "StartsWith"}
      <4>1. i = 1
        BY <1>3, <3>3
      <4>2. TypeOf(e[Append(p, i)]) # "boolean"
        BY <1>6, <3>3, <4>1 DEF OperandsFit
      <4> QED
        BY <4>2 DEF TypeOf, Unbracketed, Comparisons, NullTests, Arithmetic
    <3> QED
      BY <1>7, <3>1, <3>2, <3>3 DEF NullTests
  <2> QED
    BY <1>5, <2>1
<1> HIDE DEF c, x
<1>8. CASE n.op = "Blank"
  <2>1. e[p].op = "Cast"
    BY <1>3, <1>8, PieceOps DEF HasPiece, Ops, Connectives, Comparisons, NullTests, Arithmetic
  <2>2. Phrase(n, c, row) = c[1]
    BY <1>8 DEF Phrase, Comparisons, Predicates, NullTests
  <2>3. K = {1}
    BY <1>3, <2>1
  <2> QED
    BY <1>2, <1>4, <1>8, <2>2, <2>3
<1>9. CASE n.op = "Not"
  <2>1. e[p].op = "Not" /\ n = e[p] /\ K = {1}
    BY <1>3, <1>9, PieceOps DEF HasPiece, Ops, Connectives, Comparisons, NullTests, Arithmetic
  <2> DEFINE z == x[1]
  <2>2. Phrase(n, c, row) = Said(TRUE, z, <<>>)
    BY <1>4, <1>9, <2>1 DEF Phrase, Comparisons, Predicates, NullTests
  <2>3. M(p) = Apply(Operator("Not"), [i \in {1} |-> z], row)
    <3> HIDE DEF z
    <3>1. Meaning(Said(TRUE, z, <<>>), row) = Apply(Operator("Not"), [i \in {1} |-> z], row)
      BY MeaningOfWord
    <3> QED
      BY <1>2, <2>2, <3>1
  <2>4. [i \in {1} |-> x[1]] = x
    BY <2>1 DEF x
  <2>5. Apply(Operator("Not"), x, row) = Apply(n, x, row)
    BY <1>9 DEF Apply, WellTyped, Result, TypeOf, Operator, Connectives, Arithmetic
  <2> QED
    BY <1>9, <2>1, <2>3, <2>4, <2>5 DEF x
<1>10. CASE n.op \in Comparisons
  <2>1. e[p].op \in Comparisons /\ K = {1, 2}
    BY <1>3, <1>10, PieceOps DEF HasPiece, Ops, Connectives, Comparisons, NullTests, Arithmetic
  <2>2. c[1] = Word(x[1]) /\ c[2] = Word(x[2])
    BY <1>7, <2>1
  <2> DEFINE w == Then(n, <<x[2]>>)
  <2>3. /\ c[1].not = FALSE /\ c[1].first = x[1] /\ c[1].rest = <<>>
        /\ c[2].not = FALSE /\ c[2].first = x[2] /\ c[2].rest = <<>>
        /\ Meaning(Said(c[2].not, c[2].first, <<>>), row) = x[2]
    <3>1. /\ c[1].not = FALSE /\ c[1].first = x[1] /\ c[1].rest = <<>>
          /\ c[2].not = FALSE /\ c[2].first = x[2] /\ c[2].rest = <<>>
      BY <2>2 DEF Word, Said
    <3>2. Meaning(Word(x[2]), row) = x[2]
      BY MeaningOfWord
    <3> QED
      BY <3>1, <3>2 DEF Word
  <2>4. Phrase(n, c, row) = Said(FALSE, x[1], <<>> \o <<w>> \o <<>>)
    BY <1>10, <2>3 DEF Phrase, Comparisons, Predicates, NullTests
  <2> HIDE DEF w
  <2>5. <<>> \o <<w>> \o <<>> = <<w>>
    BY Tuples
  <2>6. Phrase(n, c, row) = Said(FALSE, x[1], <<w>>)
    BY <2>4, <2>5
  <2>7. M(p) = Apply(n, <<x[1]>> \o <<x[2]>>, row)
    <3>1. Meaning(Said(FALSE, x[1], <<Then(n, <<x[2]>>)>>), row) = Apply(n, <<x[1]>> \o <<x[2]>>, row)
      BY MeaningOfTwo
    <3> QED
      BY <1>2, <2>6, <3>1 DEF w
  <2>8. <<x[1]>> \o <<x[2]>> = [i \in {1, 2} |-> IF i = 1 THEN x[1] ELSE x[2]]
    BY Tuples
  <2>9. [i \in {1, 2} |-> IF i = 1 THEN x[1] ELSE x[2]] = x
    BY <2>1 DEF x
  <2> QED
    BY <1>10, <2>7, <2>8, <2>9 DEF x, Comparisons
<1>11. CASE n.op \in Predicates
  <2>1. e[p].op \in NullTests \cup {"In", "InSet", "StartsWith"} /\ K = {1}
    BY <1>3, <1>11, PieceOps DEF HasPiece, Ops, Connectives, Comparisons, NullTests, Arithmetic, Predicates
  <2>2. c[1] = Word(x[1])
    BY <1>7, <2>1
  <2> DEFINE w == Then(n, <<>>)
  <2>3. Phrase(n, c, row) = Said(FALSE, x[1], <<>> \o <<w>>)
    <3>1. c[1].not = FALSE /\ c[1].first = x[1] /\ c[1].rest = <<>>
      BY <2>2 DEF Word, Said
    <3> QED
      BY <1>11, <3>1 DEF Phrase, Comparisons, Predicates, NullTests
  <2> HIDE DEF w
  <2>4. <<>> \o <<w>> = <<w>>
    BY Tuples
  <2>5. Phrase(n, c, row) = Said(FALSE, x[1], <<w>>)
    BY <2>3, <2>4
  <2>6. M(p) = Apply(n, <<x[1]>> \o <<>>, row)
    <3>1. Meaning(Said(FALSE, x[1], <<Then(n, <<>>)>>), row) = Apply(n, <<x[1]>> \o <<>>, row)
      BY MeaningOfTwo
    <3> QED
      BY <1>2, <2>5, <3>1 DEF w
  <2>7. <<x[1]>> \o <<>> = [i \in {1} |-> x[1]]
    BY Tuples
  <2>8. [i \in {1} |-> x[1]] = x
    BY <2>1 DEF x
  <2> QED
    BY <1>11, <2>6, <2>7, <2>8 DEF x, Predicates, NullTests
<1>12. CASE n.op \notin {"Blank", "Not"} \cup Comparisons \cup Predicates
  <2> DEFINE y == Apply(n, [i \in DOMAIN c |-> Meaning(c[i], row)], row)
  <2>1. Phrase(n, c, row) = Word(y)
    BY <1>12 DEF Phrase
  <2>2. [i \in DOMAIN c |-> Meaning(c[i], row)] = x
    BY DEF c, x
  <2> HIDE DEF y
  <2>3. M(p) = y
    BY <1>2, <2>1, MeaningOfWord
  <2> QED
    BY <1>12, <2>2, <2>3 DEF x, y
<1> QED
  BY <1>8, <1>9, <1>10, <1>11, <1>12

-----------------------------------------------------------------------------
(***************************************************************************)
(* Types, of an expression and of its text.                                *)
(***************************************************************************)
Types == {"boolean", "integer", "string"}

LEMMA NodeType ==
  ASSUME NEW n, NodeFits(n)
  PROVE  TypeOf(n) \in Types
<1>1. n.op = "AttributeReference" => ColumnType[n.name] \in Types
  BY FilterAssumption DEF NodeFits, Types
<1> QED
  BY <1>1 DEF NodeFits, TypeOf, Types, Arithmetic

\* An expression is well typed throughout.
LEMMA ValueTypes ==
  ASSUME NEW e, IsExpression(e), NEW row
  PROVE  \A p \in DOMAIN e :
           LET x == [i \in Kids(e, p) |-> Values(e, row)[Append(p, i)]]
           IN  /\ Values(e, row)[p] = Value(TypeOf(e[p]), Result(e[p], x, row))
               /\ Values(e, row)[p].type = TypeOf(e[p])
               /\ Values(e, row)[p].v = Result(e[p], x, row)
<1> DEFINE V == Values(e, row)
           X(p) == [i \in Kids(e, p) |-> V[Append(p, i)]]
           G == {p \in DOMAIN e : V[p] = Value(TypeOf(e[p]), Result(e[p], X(p), row))}
<1>1. ASSUME NEW p \in DOMAIN e, \A i \in Kids(e, p) : Append(p, i) \in G
      PROVE  p \in G
  <2> DEFINE x == X(p)
             n == e[p]
             K == Kids(e, p)
             k == [i \in K |-> e[Append(p, i)]]
  <2>1. V[p] = Apply(n, x, row)
    BY ValuesOfArguments DEF IsExpression
  <2>2. ASSUME NEW i \in K
        PROVE  x[i].type = TypeOf(k[i]) /\ TypeOf(k[i]) \in Types
    <3>1. Append(p, i) \in G /\ Append(p, i) \in DOMAIN e
      BY <1>1 DEF Kids
    <3>2. V[Append(p, i)].type = TypeOf(e[Append(p, i)])
      BY <3>1 DEF Value
    <3>3. TypeOf(e[Append(p, i)]) \in Types
      BY <3>1, NodeType DEF IsExpression
    <3> QED
      BY <3>2, <3>3
  <2>3. DOMAIN x = K /\ DOMAIN k = K
    OBVIOUS
  <2>4. /\ NodeFits(n) /\ OperandsFit(n, k)
        /\ K = IF n.op \in Leaves THEN {} ELSE IF n.op \in Unary THEN {1} ELSE {1, 2}
    BY DEF IsExpression
  <2> HIDE DEF x, n, K, k
  <2>5. WellTyped(n, x)
    <3>1. \A i \in K : x[i].type # "none"
      BY <2>2 DEF Types
    <3>2. n.op \in Connectives => \A i \in K : x[i].type = "boolean"
      BY <2>2, <2>3, <2>4 DEF OperandsFit
    <3>3. n.op = "In" => x[1].type # "boolean"
      BY <2>2, <2>4 DEF OperandsFit, Leaves, Unary
    <3>4. n.op = "LessThan" => x[1].type = x[2].type
      BY <2>2, <2>4 DEF OperandsFit, Leaves, Unary, Comparisons, NullTests
    <3> QED
      BY <2>3, <3>1, <3>2, <3>3, <3>4 DEF WellTyped
  <2>6. V[p] = Value(TypeOf(n), Result(n, x, row))
    BY <2>1, <2>5 DEF Apply
  <2> QED
    BY <2>6 DEF n, x
<1> HIDE DEF V, X, G
<1>2. \A p \in DOMAIN e : p \in G
  BY <1>1, BottomUp DEF IsExpression
<1>3. \A t, v : Value(t, v).type = t /\ Value(t, v).v = v
  BY DEF Value
<1> QED
  BY <1>2, <1>3 DEF G, X, V

\* What is a truth value in an expression is one in its text, and nothing else is.
LEMMA TextTypes ==
  ASSUME NEW e, IsExpression(e), Bracketed(e), Readable(buildFilterExpression(e)), NEW row,
         \A p \in DOMAIN e : e[p].op = "Cast" => e[p].type = "integer"
  PROVE  LET text == buildFilterExpression(e)
             M(q) == Meaning(Phrases(text, row)[q], row)
         IN  \A p \in WrittenNodes(e) :
               /\ M(p).type \in Types
               /\ M(p).type = "boolean" <=> TypeOf(e[p]) = "boolean"
               /\ text[p].op # "Blank" =>
                    LET x == [i \in Kids(text, p) |-> M(Append(p, i))]
                    IN  M(p).type = TypeOf(text[p]) /\ M(p).v = Result(text[p], x, row)
<1> DEFINE text == buildFilterExpression(e)
           M(q) == Meaning(Phrases(text, row)[q], row)
           X(p) == [i \in Kids(text, p) |-> M(Append(p, i))]
           G == {p \in WrittenNodes(e) :
                   /\ M(p).type \in Types
                   /\ M(p).type = "boolean" <=> TypeOf(e[p]) = "boolean"
                   /\ text[p].op # "Blank" =>
                        M(p).type = TypeOf(text[p]) /\ M(p).v = Result(text[p], X(p), row)}
<1>1. IsTree(text) /\ DOMAIN text = WrittenNodes(e) /\ WrittenNodes(e) \subseteq DOMAIN e
  BY TextIsTree DEF IsExpression
<1>2. ASSUME NEW p \in WrittenNodes(e), \A i \in Kids(text, p) : Append(p, i) \in G
      PROVE  p \in G
  <2> DEFINE x == X(p)
             n == e[p]
             m == text[p]
             K == Kids(text, p)
             k == [i \in Kids(e, p) |-> e[Append(p, i)]]
  <2>1. M(p) = IF m.op = "Blank" THEN M(Append(p, 1)) ELSE Apply(m, x, row)
    BY MeaningOfPiece
  <2>2. /\ m = Piece(e, p) /\ n.op \in HasPiece
        /\ \A i \in K : Append(p, i) \in WrittenNodes(e) /\ i \in Kids(e, p)
        /\ n.op \in {"Not", "Cast", "In", "InSet", "StartsWith"} \cup NullTests => K = {1}
        /\ n.op \in {"And", "Or"} \cup Comparisons \cup Arithmetic => K = {1, 2}
    BY PieceKids
  <2>3. /\ NodeFits(n) /\ OperandsFit(n, k)
        /\ \A i \in K : k[i] = e[Append(p, i)] /\ x[i] = M(Append(p, i))
        /\ DOMAIN x = K /\ K \subseteq DOMAIN k
    BY <1>1, <2>2 DEF IsExpression
  <2>4. ASSUME NEW i \in K
        PROVE  x[i].type \in Types /\ (x[i].type = "boolean" <=> TypeOf(k[i]) = "boolean")
    BY <1>2, <2>3
  <2>5. n.op = "Cast" => n.type = "integer"
    BY <1>1
  <2>6. /\ n.op \in Ops \cup {"AttributeReference"} => m = n
        /\ n.op = "Cast" => m.op = "Blank"
        /\ n.op = "Literal" => m = Literal("string", Quoted(n.value))
        /\ n.op \in {"In", "InSet"} => m.op = "In"
        /\ n.op = "StartsWith" => m.op = "Like"
    BY <2>2, PieceOps DEF Piece
  <2> HIDE DEF M, x, n, m, K, k, text
  <2>7. CASE n.op = "Cast"
    <3>1. M(p) = x[1] /\ 1 \in K
      BY <2>1, <2>2, <2>3, <2>6, <2>7
    <3>2. TypeOf(k[1]) # "boolean" /\ TypeOf(n) = "integer"
      BY <2>3, <2>5, <2>7 DEF OperandsFit, TypeOf, Arithmetic
    <3> QED
      BY <2>4, <2>6, <2>7, <3>1, <3>2 DEF n, m
  <2>8. CASE n.op # "Cast"
    <3>1. m.op # "Blank"
      BY <2>2, <2>6, <2>8 DEF HasPiece, Ops, Connectives, Comparisons, NullTests, Arithmetic, Literal
    <3>2. TypeOf(m) \in Types /\ (TypeOf(m) = "boolean" <=> TypeOf(n) = "boolean")
      <4>1. CASE n.op = "Literal"
        BY <2>3, <2>6, <4>1 DEF NodeFits, TypeOf, Literal, Types, Arithmetic
      <4>2. CASE n.op \in {"In", "InSet", "StartsWith"}
        BY <2>6, <4>2 DEF TypeOf, Types, Arithmetic
      <4>3. CASE n.op \in Ops \cup {"AttributeReference"}
        BY <2>3, <2>6, <4>3, NodeType
      <4> QED
        BY <2>2, <2>8, <4>1, <4>2, <4>3 DEF HasPiece, Ops
    <3>3. WellTyped(m, x)
      <4>1. \A i \in DOMAIN x : x[i].type # "none"
        BY <2>3, <2>4 DEF Types
      <4>2. m.op \in Connectives => \A i \in DOMAIN x : x[i].type = "boolean"
        <5> SUFFICES ASSUME m.op \in Connectives, NEW i \in K PROVE x[i].type = "boolean"
          BY <2>3
        <5>1. n.op \in Connectives
          BY <2>2, <2>6 DEF HasPiece, Ops, Connectives, Comparisons, NullTests, Arithmetic, Literal
        <5>2. TypeOf(k[i]) = "boolean"
          BY <2>3, <5>1 DEF OperandsFit
        <5> QED
          BY <2>4, <5>2
      <4>3. m.op = "In" => x[1].type # "boolean"
        <5> SUFFICES ASSUME m.op = "In" PROVE x[1].type # "boolean"
          OBVIOUS
        <5>1. n.op \in {"In", "InSet"}
          BY <2>2, <2>6 DEF HasPiece, Ops, Connectives, Comparisons, NullTests, Arithmetic, Literal
        <5>2. TypeOf(k[1]) # "boolean" /\ 1 \in K
          BY <2>2, <2>3, <5>1 DEF OperandsFit
        <5> QED
          BY <2>4, <5>2
      <4>4. m.op = "LessThan" => (x[1].type = "boolean" <=> x[2].type = "boolean")
        <5> SUFFICES ASSUME m.op = "LessThan" PROVE x[1].type = "boolean" <=> x[2].type = "boolean"
          OBVIOUS
        <5>1. n.op = "LessThan"
          BY <2>2, <2>6 DEF HasPiece, Ops, Connectives, Comparisons, NullTests, Arithmetic, Literal
        <5>2. TypeOf(k[1]) = TypeOf(k[2]) /\ K = {1, 2}
          BY <2>2, <2>3, <5>1 DEF OperandsFit, Comparisons
        <5> QED
          BY <2>4, <5>2
      <4> QED
        BY <4>1, <4>2, <4>3, <4>4 DEF WellTyped
    <3>4. M(p) = Value(TypeOf(m), Result(m, x, row))
      BY <2>1, <3>1, <3>3 DEF Apply
    <3>5. M(p).type = TypeOf(m) /\ M(p).v = Result(m, x, row)
      BY <3>4 DEF Value
    <3> QED
      BY <3>2, <3>5 DEF n, m, x
  <2> QED
    BY <2>7, <2>8
<1> HIDE DEF text, M, X, G
<1>3. \A p \in DOMAIN text : p \in G
  BY <1>1, <1>2, BottomUp
<1> QED
  BY <1>1, <1>3 DEF G, X, M, text

-----------------------------------------------------------------------------
(***************************************************************************)
(* The text of a legible filter means what the filter means.               *)
(***************************************************************************)
\* A number that is written as text is read as that number.
LEMMA NumberRead ==
  ASSUME NEW x, x.type = "integer" \/ (x.type = "string" /\ x.v \in Nat)
  PROVE  Number(x) = x.v
BY FilterAssumption DEF Number

\* Two operands of one type, one of them perhaps a constant, which is text now.
LEMMA ComparedAlike ==
  ASSUME NEW x1, NEW x2, NEW y1, NEW y2, NEW l1 \in BOOLEAN, NEW l2 \in BOOLEAN,
         NEW T \in Types,
         y1.type = T, y2.type = T, x1.v = y1.v, x2.v = y2.v, ~ (l1 /\ l2),
         x1.type = IF l1 THEN "string" ELSE T,
         x2.type = IF l2 THEN "string" ELSE T,
         l1 => T = "string" \/ (T = "integer" /\ y1.v \in Nat),
         l2 => T = "string" \/ (T = "integer" /\ y2.v \in Nat)
  PROVE  Equal(x1, x2) = Equal(y1, y2) /\ Less(x1, x2) = Less(y1, y2)
<1>1. Sides(y1, y2) = <<y1.v, y2.v>>
  BY DEF Sides
<1>2. Sides(x1, x2) = <<x1.v, x2.v>>
  <2>1. CASE T = "integer" /\ (l1 \/ l2)
    <3>1. Number(x1) = x1.v /\ Number(x2) = x2.v
      BY <2>1, NumberRead
    <3> QED
      BY <2>1, <3>1 DEF Sides
  <2>2. CASE ~ (T = "integer" /\ (l1 \/ l2))
    <3>1. x1.type = x2.type
      BY <2>2
    <3> QED
      BY <3>1 DEF Sides
  <2> QED
    BY <2>1, <2>2
<1>3. Sides(x1, x2) = Sides(y1, y2)
  BY <1>1, <1>2
<1>4. Equal(x1, x2) = Equal(y1, y2)
  BY <1>3 DEF Equal
<1>5. /\ "integer" \in {x1.type, x2.type} <=> T = "integer"
      /\ T = "integer" \/ (x1.type = "string" /\ x2.type = "string" <=> T = "string")
  BY DEF Types
<1>6. /\ "integer" \in {y1.type, y2.type} <=> T = "integer"
      /\ T = "integer" \/ (y1.type = "string" /\ y2.type = "string" <=> T = "string")
  OBVIOUS
<1>9. Less(x1, x2) = Less(y1, y2)
  <2>1. CASE T = "integer"
    BY <1>3, <1>5, <1>6, <2>1 DEF Less
  <2>2. CASE T = "string"
    BY <1>3, <1>5, <1>6, <2>2 DEF Less
  <2>3. CASE T = "boolean"
    BY <1>3, <1>5, <1>6, <2>3 DEF Less
  <2> QED
    BY <2>1, <2>2, <2>3 DEF Types
<1> QED
  BY <1>4, <1>9

\* What a written node makes of operands of the same values.
LEMMA ResultKept ==
  ASSUME NEW e, IsExpression(e), NEW p \in DOMAIN e, NEW row, NEW x, NEW y, NEW k,
         k = [i \in Kids(e, p) |-> e[Append(p, i)]],
         NodeFits(e[p]), OperandsFit(e[p], k), Expressible(e[p], k),
         e[p].op \in HasPiece \ {"Cast"},
         \A i \in Kids(e, p) : i = 1 \/ e[p].op # "StartsWith" =>
           /\ x[i].v = y[i].v
           /\ x[i].type = IF k[i].op = "Literal" THEN "string" ELSE TypeOf(k[i]),
         \A i \in Kids(e, p) : /\ y[i].type = TypeOf(k[i])
                               /\ k[i].op = "Literal" => y[i].v = k[i].value
                               /\ NodeFits(k[i])
  PROVE  Result(Piece(e, p), x, row) = Result(e[p], y, row)
<1> DEFINE n == e[p]
           K == Kids(e, p)
<1>1. K = IF n.op \in Leaves THEN {} ELSE IF n.op \in Unary THEN {1} ELSE {1, 2}
  BY DEF IsExpression
<1>2. n.op \in Ops \cup {"AttributeReference"} => Piece(e, p) = n
  BY PieceOps
<1>3. ASSUME NEW i \in K, n.op \in Arithmetic
      PROVE  Number(x[i]) = y[i].v /\ Number(y[i]) = y[i].v
  <2>1. TypeOf(k[i]) = "integer" /\ n.op # "StartsWith"
    BY <1>3 DEF OperandsFit, Arithmetic
  <2>2. x[i].type = "integer" \/ (x[i].type = "string" /\ x[i].v \in Nat)
    BY <2>1 DEF NodeFits, TypeOf, Arithmetic
  <2>3. x[i].v = y[i].v /\ y[i].type = "integer"
    BY <2>1
  <2> QED
    BY <2>2, <2>3, NumberRead
<1>4. CASE n.op = "AttributeReference"
  BY <1>2, <1>4 DEF Result, Arithmetic
<1>5. CASE n.op = "Literal"
  <2>1. Piece(e, p) = Literal("string", n.value)
    BY <1>5 DEF Piece, Expressible, HasApostrophe
  <2>2. Piece(e, p).op = "Literal" /\ Piece(e, p).value = n.value
    BY <2>1 DEF Literal
  <2> QED
    BY <1>5, <2>2 DEF Result, Arithmetic
<1>6. CASE n.op \in {"And", "Or"}
  <2>1. K = {1, 2} /\ x[1].v = y[1].v /\ x[2].v = y[2].v /\ Piece(e, p) = n
    BY <1>1, <1>2, <1>6 DEF Leaves, Unary, NullTests, Ops, Connectives
  <2> QED
    BY <1>6, <2>1 DEF Result, Arithmetic
<1>7. CASE n.op \in {"Not"} \cup NullTests
  <2>1. K = {1} /\ x[1].v = y[1].v /\ Piece(e, p) = n
    BY <1>1, <1>2, <1>7 DEF Leaves, Unary, NullTests, Ops, Connectives
  <2> QED
    BY <1>7, <2>1 DEF Result, Arithmetic, NullTests
<1>8. CASE n.op \in Arithmetic
  <2>1. K = {1, 2} /\ Piece(e, p) = n
    BY <1>1, <1>2, <1>8 DEF Leaves, Unary, NullTests, Ops, Arithmetic
  <2>2. Number(x[1]) = Number(y[1]) /\ Number(x[2]) = Number(y[2])
    BY <1>3, <1>8, <2>1
  <2> QED
    BY <1>8, <2>1, <2>2 DEF Result, Arithmetic
<1>9. CASE n.op \in Comparisons
  <2>1. K = {1, 2} /\ Piece(e, p) = n /\ n.op # "StartsWith"
    BY <1>1, <1>2, <1>9 DEF Leaves, Unary, NullTests, Ops, Comparisons
  <2> DEFINE l1 == k[1].op = "Literal"
             l2 == k[2].op = "Literal"
             T  == TypeOf(k[1])
  <2>2. TypeOf(k[2]) = T /\ ~ (l1 /\ l2)
    BY <1>9, <2>1 DEF OperandsFit, Comparisons
  <2>3. T \in Types /\ l1 \in BOOLEAN /\ l2 \in BOOLEAN
    BY <2>1, NodeType
  <2>4. ASSUME NEW i \in {1, 2}, k[i].op = "Literal"
        PROVE  T = "string" \/ (T = "integer" /\ y[i].v \in Nat)
    BY <2>1, <2>2, <2>4 DEF NodeFits, TypeOf, Arithmetic
  <2>5. Equal(x[1], x[2]) = Equal(y[1], y[2]) /\ Less(x[1], x[2]) = Less(y[1], y[2])
    <3>1. /\ y[1].type = T /\ y[2].type = T /\ x[1].v = y[1].v /\ x[2].v = y[2].v
          /\ x[1].type = IF l1 THEN "string" ELSE T
          /\ x[2].type = IF l2 THEN "string" ELSE T
      BY <2>1, <2>2
    <3>2. /\ l1 => T = "string" \/ (T = "integer" /\ y[1].v \in Nat)
          /\ l2 => T = "string" \/ (T = "integer" /\ y[2].v \in Nat)
      BY <2>4
    <3> HIDE DEF l1, l2, T
    <3> QED
      BY <2>2, <2>3, <3>1, <3>2, ComparedAlike
  <2> QED
    BY <1>9, <2>1, <2>5 DEF Result, Arithmetic, Comparisons
<1>10. CASE n.op = "In"
  <2> DEFINE S == {Literal("string", shown(z)) : z \in n.list}
  <2>1. Piece(e, p) = In(S) /\ K = {1} /\ x[1].v = y[1].v
    BY <1>1, <1>10 DEF Piece, Leaves, Unary
  <2>2. Piece(e, p).op = "In" /\ Piece(e, p).list = S
    BY <2>1 DEF In
  <2>3. \A z \in n.list : z.op = "Literal" /\ z.value # Null /\ shown(z) = z.value
    BY <1>10 DEF Expressible, shown
  <2>4. \A v : Literal("string", v).op = "Literal" /\ Literal("string", v).value = v
    BY DEF Literal
  <2>5. {IF z.op = "Literal" THEN z.value ELSE row[z.name] : z \in S}
          = {IF z.op = "Literal" THEN z.value ELSE row[z.name] : z \in n.list}
    BY <2>3, <2>4
  <2> HIDE DEF S
  <2> QED
    BY <1>10, <2>1, <2>2, <2>5 DEF Result, Arithmetic
<1>11. CASE n.op = "InSet"
  <2> DEFINE S == {IF v \in Columns THEN Attribute(v) ELSE Literal("integer", v) : v \in n.list}
  <2>1. Piece(e, p) = In(S) /\ K = {1} /\ x[1].v = y[1].v
    BY <1>1, <1>11 DEF Piece, Leaves, Unary
  <2>2. Piece(e, p).op = "In" /\ Piece(e, p).list = S
    BY <2>1 DEF In
  <2>3. \A v \in n.list : v \notin Columns
    BY <1>11 DEF Expressible
  <2>4. \A v : Literal("integer", v).op = "Literal" /\ Literal("integer", v).value = v
    BY DEF Literal
  <2>5. {IF z.op = "Literal" THEN z.value ELSE row[z.name] : z \in S} = n.list
    <3> DEFINE h(z) == IF z.op = "Literal" THEN z.value ELSE row[z.name]
    <3>1. \A v \in n.list : Literal("integer", v) \in S /\ h(Literal("integer", v)) = v
      BY <2>3, <2>4
    <3>2. \A z \in S : h(z) \in n.list
      BY <2>3, <2>4
    <3> HIDE DEF S
    <3>3. {h(z) : z \in S} = n.list
      BY <3>1, <3>2
    <3> QED
      BY <3>3
  <2> HIDE DEF S
  <2> QED
    BY <1>11, <2>1, <2>2, <2>5 DEF Result, Arithmetic
<1>12. CASE n.op = "StartsWith"
  <2>1. K = {1, 2} /\ x[1].v = y[1].v
    BY <1>1, <1>12 DEF Leaves, Unary, NullTests
  <2>2. /\ k[2].op = "Literal" /\ y[2].v = k[2].value /\ k[2] = e[Append(p, 2)]
        /\ k[2].value # Null
        /\ \A m \in Begins \cup Matches : m[2] = k[2].value => m \in Begins \cap Matches
    <3>1. k[2].op = "Literal" /\ NodeFits(k[2])
      BY <1>12, <2>1 DEF Expressible
    <3>2. k[2].value \in Strings /\ Null \notin Strings
      BY <3>1, FilterAssumption DEF NodeFits, Strings
    <3> QED
      BY <1>12, <2>1, <3>1, <3>2 DEF Expressible
  <2>3. shown(k[2]) = k[2].value
    BY <2>2 DEF shown
  <2>4. Piece(e, p) = [op |-> "Like", pattern |-> k[2].value]
    BY <1>12, <2>2, <2>3 DEF Piece
  <2>5. <<y[1].v, k[2].value>> \in Begins <=> <<y[1].v, k[2].value>> \in Matches
    BY <2>2
  <2>6. Result(n, y, row) = IF y[1].v = Null THEN Null ELSE <<y[1].v, k[2].value>> \in Begins
    BY <1>12, <2>2 DEF Result, Arithmetic
  <2>7. Result(Piece(e, p), x, row) =
          IF x[1].v = Null THEN Null ELSE <<x[1].v, k[2].value>> \in Matches
    BY <2>4 DEF Result, Arithmetic
  <2> QED
    BY <2>1, <2>5, <2>6, <2>7
<1> QED
  BY <1>4, <1>5, <1>6, <1>7, <1>8, <1>9, <1>10, <1>11, <1>12 DEF HasPiece, Connectives

LEMMA TextKeepsValues ==
  ASSUME NEW e, IsExpression(e), Legible(e), Readable(buildFilterExpression(e)), NEW row
  PROVE  Understood(buildFilterExpression(e), row).v = Eval(e, row)
<1> DEFINE text == buildFilterExpression(e)
           M(q) == Meaning(Phrases(text, row)[q], row)
           V(q) == Values(e, row)[q]
           X(p) == [i \in Kids(text, p) |-> M(Append(p, i))]
           Y(p) == [i \in Kids(e, p) |-> V(Append(p, i))]
           G == {p \in WrittenNodes(e) :
                   /\ M(p).v = V(p).v
                   /\ M(p).type = IF e[p].op = "Literal" THEN "string" ELSE TypeOf(e[p])}
<1>1. /\ IsTree(text) /\ DOMAIN text = WrittenNodes(e) /\ WrittenNodes(e) \subseteq DOMAIN e
      /\ IsTree(e) /\ Bracketed(e)
  BY TextIsTree DEF IsExpression, Legible
<1>2. ASSUME NEW p \in WrittenNodes(e), \A i \in Kids(text, p) : Append(p, i) \in G
      PROVE  p \in G
  <2> DEFINE x == X(p)
             y == Y(p)
             n == e[p]
             m == text[p]
             K == Kids(text, p)
             k == [i \in Kids(e, p) |-> e[Append(p, i)]]
  <2>1. /\ m = Piece(e, p) /\ n.op \in HasPiece
        /\ \A i \in K : Append(p, i) \in WrittenNodes(e) /\ i \in Kids(e, p)
        /\ n.op \in {"Not", "Cast", "In", "InSet", "StartsWith"} \cup NullTests => K = {1}
        /\ n.op # "StartsWith" => K = Kids(e, p)
    BY PieceKids
  <2>2. /\ NodeFits(n) /\ OperandsFit(n, k) /\ Expressible(n, k)
        /\ \A i \in Kids(e, p) : k[i] = e[Append(p, i)] /\ y[i] = V(Append(p, i)) /\ Append(p, i) \in DOMAIN e
        /\ \A i \in K : x[i] = M(Append(p, i))
    BY <1>1, <2>1 DEF IsExpression, Legible, Kids
  <2>3. ASSUME NEW i \in K
        PROVE  /\ x[i].v = y[i].v
               /\ x[i].type = IF k[i].op = "Literal" THEN "string" ELSE TypeOf(k[i])
    BY <1>2, <2>1, <2>2
  <2>4. ASSUME NEW i \in Kids(e, p)
        PROVE  /\ y[i].type = TypeOf(k[i])
               /\ k[i].op = "Literal" => y[i].v = k[i].value
               /\ NodeFits(k[i])
    <3> DEFINE q == Append(p, i)
               z == [l \in Kids(e, q) |-> Values(e, row)[Append(q, l)]]
    <3>1. q \in DOMAIN e /\ k[i] = e[q] /\ y[i] = Values(e, row)[q]
      BY <2>2
    <3>2. Values(e, row)[q].type = TypeOf(e[q]) /\ Values(e, row)[q].v = Result(e[q], z, row)
      BY <3>1, ValueTypes
    <3> HIDE DEF q, z, y, k
    <3>3. e[q].op = "Literal" => Result(e[q], z, row) = e[q].value
      BY DEF Result, Arithmetic
    <3> QED
      BY <3>1, <3>2, <3>3 DEF IsExpression
  <2>5. /\ V(p).type = TypeOf(n) /\ V(p).v = Result(n, y, row)
    BY <1>1, ValueTypes
  <2>6. /\ M(p).type \in Types
        /\ m.op # "Blank" => M(p).type = TypeOf(m) /\ M(p).v = Result(m, x, row)
    <3>1. \A q \in DOMAIN e : e[q].op = "Cast" => e[q].type = "integer"
      BY DEF Legible, Expressible
    <3> QED
      BY <1>1, <3>1, TextTypes
  <2>7. M(p) = IF m.op = "Blank" THEN M(Append(p, 1)) ELSE Apply(m, x, row)
    BY <1>1, MeaningOfPiece
  <2> HIDE DEF M, V, x, y, n, m, K, k, text
  <2>8. CASE n.op = "Cast"
    <3>1. m.op = "Blank" /\ K = {1} /\ 1 \in Kids(e, p)
      BY <2>1, <2>8, PieceOps DEF n
    <3>2. M(p) = x[1]
      BY <2>2, <2>7, <3>1
    <3>3. n.type = "integer" /\ TypeOf(k[1]) = "integer" /\ k[1].op # "Literal"
      BY <2>2, <2>8 DEF Expressible, OperandsFit
    <3>4. y[1].type = "integer" /\ x[1].v = y[1].v /\ x[1].type = "integer"
      BY <2>3, <2>4, <3>1, <3>3
    <3>5. V(p).v = y[1].v /\ TypeOf(n) = "integer"
      BY <2>5, <2>8, <3>3, <3>4, NumberRead DEF Result, TypeOf, Arithmetic
    <3> QED
      BY <2>8, <3>2, <3>4, <3>5 DEF G, n
  <2>9. CASE n.op # "Cast"
    <3>1. Result(m, x, row) = Result(n, y, row)
      <4>1. \A i \in Kids(e, p) : i = 1 \/ n.op # "StartsWith" =>
               /\ x[i].v = y[i].v
               /\ x[i].type = IF k[i].op = "Literal" THEN "string" ELSE TypeOf(k[i])
        BY <2>1, <2>3
      <4>2. n.op \in HasPiece \ {"Cast"}
        BY <2>1, <2>9
      <4>3. k = [i \in Kids(e, p) |-> e[Append(p, i)]] /\ p \in DOMAIN e
        BY <1>1 DEF k
      <4> QED
        BY <2>1, <2>2, <2>4, <4>1, <4>2, <4>3, ResultKept DEF n
    <3>2. m.op # "Blank" /\ TypeOf(m) = IF n.op = "Literal" THEN "string" ELSE TypeOf(n)
      <4>1. CASE n.op = "Literal"
        <5>1. m = Literal("string", Quoted(n.value))
          BY <2>1, <4>1 DEF Piece, n
        <5> QED
          BY <4>1, <5>1 DEF Literal, TypeOf, Arithmetic
      <4>2. CASE n.op \in {"In", "InSet", "StartsWith"}
        <5>1. m.op \in {"In", "Like"}
          BY <2>1, <4>2, PieceOps DEF n
        <5> QED
          BY <4>2, <5>1 DEF TypeOf, Arithmetic
      <4>3. CASE n.op \in Ops \cup {"AttributeReference"}
        <5>1. m = n
          BY <2>1, <4>3, PieceOps DEF n
        <5> QED
          BY <4>3, <5>1 DEF Ops, Connectives, Comparisons, NullTests, Arithmetic
      <4> QED
        BY <2>1, <2>9, <4>1, <4>2, <4>3 DEF HasPiece, Ops
    <3> QED
      BY <2>5, <2>6, <3>1, <3>2 DEF n
  <2> QED
    BY <2>8, <2>9
<1> HIDE DEF text, M, V, X, Y, G
<1>3. \A p \in DOMAIN text : p \in G
  BY <1>1, <1>2, BottomUp
<1>4. <<>> \in DOMAIN text
  BY <1>1 DEF IsTree
<1>5. M(<<>>).v = V(<<>>).v
  BY <1>3, <1>4 DEF G
<1> QED
  BY <1>5 DEF M, V, text, Understood, Eval

-----------------------------------------------------------------------------
(***************************************************************************)
(* The text of a filter that is supported throughout can be parsed.        *)
(***************************************************************************)
LEMMA SupportedReadable ==
  ASSUME NEW f, IsFilter(f), SupportedThroughout(f)
  PROVE  Readable(buildFilterExpression(f))
<1> DEFINE text == buildFilterExpression(f)
<1>1. IsTree(f) /\ IsTree(text) /\ DOMAIN text = WrittenNodes(f) /\ WrittenNodes(f) \subseteq DOMAIN f
  BY TextIsTree DEF IsFilter, IsExpression
<1> SUFFICES ASSUME NEW p \in WrittenNodes(f) PROVE text[p] # Hole /\ text[p] # Garbled
  BY <1>1 DEF Readable
<1> DEFINE n == f[p]
           k == [i \in Kids(f, p) |-> f[Append(p, i)]]
<1>2. /\ text[p] = buildNode(f, p) /\ HasText(n, k)
      /\ Kids(f, p) = IF n.op \in Leaves THEN {} ELSE IF n.op \in Unary THEN {1} ELSE {1, 2}
  BY <1>1 DEF buildFilterExpression, WrittenNodes, SupportedThroughout, IsFilter, IsExpression
<1>3. ~ (p # <<>> /\ f[Parent(p)].op = "IsNull" /\ n.op # "AttributeReference")
  <2> SUFFICES ASSUME p # <<>>, f[Parent(p)].op = "IsNull" PROVE n.op = "AttributeReference"
    OBVIOUS
  <2> DEFINE q == Parent(p)
             h == [i \in Kids(f, q) |-> f[Append(q, i)]]
  <2>1. p \in Position /\ Len(p) \in Nat \ {0} /\ q \in DOMAIN f
    <3>1. p \in Position /\ Len(p) \in Nat \ {0}
      BY <1>1 DEF IsTree, Position
    <3>2. Len(p) - 1 \in 0 .. Len(p)
      BY <3>1
    <3> QED
      BY <1>1, <3>1, <3>2 DEF IsTree, Parent
  <2>2. HasText(f[q], h) /\ Kids(f, q) = {1}
    BY <2>1 DEF SupportedThroughout, IsFilter, IsExpression, Leaves, Unary, NullTests
  <2>3. Append(q, p[Len(p)]) = p /\ p[Len(p)] \in {1, 2}
    BY <2>1 DEF Parent, Prefix, Position
  <2>4. p[Len(p)] = 1
    BY <1>1, <2>2, <2>3 DEF Kids
  <2>5. h[1] = n
    BY <2>2, <2>3, <2>4
  <2> QED
    BY <2>2, <2>5 DEF HasText
<1> HIDE DEF n, k, text
<1>4. CASE n.op \in {"Cast", "Literal"}
  BY <1>2, <1>3, <1>4 DEF n, buildNode, Operator, Literal, Hole, Garbled, Connectives, Comparisons,
                          NullTests, Arithmetic
<1>5. CASE n.op = "In"
  <2>1. buildNode(f, p) = In({Literal("string", shown(x)) : x \in n.list})
    BY <1>2, <1>3, <1>5 DEF n, buildNode, buildInExpression, HasText, Connectives, Comparisons,
                            NullTests, Arithmetic
  <2> QED
    BY <1>2, <2>1 DEF In, Hole, Garbled
<1>6. CASE n.op = "InSet"
  <2>1. ~ \E v \in n.list : v \in Texts \ Columns
    BY <1>2, <1>6 DEF HasText
  <2>2. buildNode(f, p) = buildInSetExpression(n.list)
    BY <1>2, <1>3, <1>6 DEF n, buildNode, Connectives, Comparisons, NullTests, Arithmetic
  <2>3. \E S : buildNode(f, p) = In(S)
    BY <2>1, <2>2 DEF buildInSetExpression
  <2> QED
    BY <1>2, <2>3 DEF In, Hole, Garbled
<1>7. CASE n.op = "StartsWith"
  <2>1. k[2] = f[Append(p, 2)] /\ ~ HasApostrophe(shown(k[2]))
    BY <1>2, <1>7 DEF k, HasText, Leaves, Unary, NullTests
  <2>2. buildNode(f, p) = buildLike(f[Append(p, 2)])
    BY <1>2, <1>3, <1>7 DEF n, buildNode, Connectives, Comparisons, NullTests, Arithmetic
  <2>3. \E t : buildNode(f, p) = [op |-> "Like", pattern |-> t]
    BY <2>1, <2>2 DEF buildLike
  <2> QED
    BY <1>2, <2>3 DEF Hole, Garbled
<1>8. CASE n.op \in Connectives \cup Comparisons \cup NullTests \cup {"AttributeReference", "Divide"}
  <2>1. buildNode(f, p) = n
    BY <1>2, <1>3, <1>8 DEF n, buildNode, Connectives, Comparisons, NullTests, Arithmetic
  <2> QED
    BY <1>2, <1>8, <2>1 DEF Hole, Garbled, Connectives, Comparisons, NullTests
<1> QED
  BY <1>2, <1>4, <1>5, <1>6, <1>7, <1>8 DEF HasText, Traversed, Supported

LEMMA SupportedParses ==
  ASSUME NEW f, IsFilter(f), SupportedThroughout(f)
  PROVE  Parses(buildFilterExpression(f))
<1> DEFINE text == buildFilterExpression(f)
<1>1. /\ IsTree(f) /\ IsTree(text) /\ DOMAIN text = WrittenNodes(f) /\ WrittenNodes(f) \subseteq DOMAIN f
      /\ IsExpression(f) /\ Bracketed(f) /\ Readable(text)
  BY TextIsTree, SupportedReadable DEF IsFilter, IsExpression, SupportedThroughout
<1>2. ASSUME NEW p \in WrittenNodes(f)
      PROVE  /\ text[p].op \in Comparisons \cup {"IsNotNull"} => f[p].op = text[p].op
             /\ text[p].op \in Predicates => f[p].op \in Unbracketed
  <2>1. text[p] = Piece(f, p) /\ f[p].op \in HasPiece
    BY <1>1, NodeWritten
  <2> QED
    BY <2>1, PieceOps DEF HasPiece, Ops, Connectives, Comparisons, NullTests, Arithmetic, Predicates,
                          Unbracketed
<1>3. ASSUME NEW p \in WrittenNodes(f), text[p].op \in Predicates, Followed(text, p) PROVE FALSE
  <2>1. p \in Position /\ Len(p) \in Nat
    BY <1>1 DEF IsTree, Position
  <2>2. PICK k \in 1 .. Len(p) :
          /\ text[Prefix(p, k - 1)].op \in Comparisons \cup {"IsNotNull"}
          /\ \A j \in k + 1 .. Len(p) : text[Prefix(p, j - 1)].op \in Comparisons
    BY <1>3 DEF Followed
  <2> DEFINE q == Prefix(p, k)
  <2>3. /\ k \in 0 .. Len(p) /\ k - 1 \in 0 .. Len(p)
        /\ q \in WrittenNodes(f) /\ Prefix(p, k - 1) \in WrittenNodes(f)
    BY <1>1, <2>1, <2>2 DEF IsTree
  <2>4. Parent(q) = Prefix(p, k - 1) /\ q # <<>>
    <3>1. Len(q) = k /\ Prefix(q, k - 1) = Prefix(p, k - 1)
      BY <2>1, <2>2, <2>3, PrefixFacts
    <3>2. Parent(q) = Prefix(q, k - 1) /\ k # 0
      BY <2>2, <3>1 DEF Parent
    <3> QED
      BY <3>1, <3>2
  <2>5. f[Parent(q)].op \in Comparisons \cup {"IsNotNull"}
    BY <1>2, <2>2, <2>3, <2>4
  <2>6. f[q].op \notin Unbracketed
    BY <1>1, <2>3, <2>4, <2>5 DEF Bracketed
  <2>7. f[q].op \in Unbracketed
    <3>1. CASE k = Len(p)
      <4>1. q = p
        BY <2>1, <3>1, PrefixFacts
      <4> QED
        BY <1>2, <1>3, <4>1
    <3>2. CASE k # Len(p)
      <4>1. k + 1 \in k + 1 .. Len(p) /\ (k + 1) - 1 = k
        BY <2>1, <2>2, <3>2
      <4>2. text[q].op \in Comparisons
        BY <2>2, <4>1
      <4>3. f[q].op \in Comparisons
        BY <1>2, <2>3, <4>2
      <4> QED
        BY <4>3 DEF Unbracketed
    <3> QED
      BY <3>1, <3>2
  <2> QED
    BY <2>6, <2>7
<1>4. Understood(text, [c \in Columns |-> Null]).type = "boolean"
  <2> DEFINE row == [c \in Columns |-> Null]
  <2>1. \A p \in DOMAIN f : f[p].op = "Cast" => f[p].type = "integer"
    BY DEF SupportedThroughout, HasText
  <2>2. <<>> \in WrittenNodes(f) /\ TypeOf(f[<<>>]) = "boolean"
    BY <1>1 DEF IsTree, IsFilter
  <2> HIDE DEF row
  <2>3. Meaning(Phrases(text, row)[<<>>], row).type = "boolean"
    BY <1>1, <2>1, <2>2, TextTypes
  <2> QED
    BY <2>3 DEF Understood, row
<1> QED
  BY <1>1, <1>3, <1>4 DEF Parses, Readable


-----------------------------------------------------------------------------
(***************************************************************************)
(* What the query selects.                                                 *)
(***************************************************************************)
\* A filter that was taken has a text, if it does not cast to a truth value.
LEMMA ValidHasText ==
  ASSUME NEW f, IsFilter(f), Legible(f), validateFilterExpression(f)
  PROVE  ~ Textless(buildFilterExpression(f))
<1> DEFINE text == buildFilterExpression(f)
<1>1. /\ IsTree(f) /\ IsTree(text) /\ DOMAIN text = WrittenNodes(f)
      /\ <<>> \in DOMAIN f /\ TypeOf(f[<<>>]) = "boolean" /\ NodeFits(f[<<>>])
  BY TextIsTree DEF IsFilter, IsExpression, IsTree
<1>2. <<>> \in Visited(f) /\ <<>> \in WrittenNodes(f)
  BY <1>1 DEF Visited, WrittenNodes, Reached
<1>3. f[<<>>].op = "Cast" => f[<<>>].type = "integer"
  BY <1>1 DEF Legible, Expressible
<1>4. f[<<>>].op \in Traversed \cup {"In", "InSet"}
  <2>1. f[<<>>].op \in Traversed \cup Supported
    BY <1>2 DEF validateFilterExpression
  <2>2. f[<<>>].op = "AttributeReference" => TypeOf(f[<<>>]) \in {"integer", "string"}
    BY <1>1, FilterAssumption DEF TypeOf, NodeFits
  <2>3. f[<<>>].op = "Literal" => TypeOf(f[<<>>]) \in {"integer", "string"}
    BY <1>1 DEF TypeOf, NodeFits
  <2>4. f[<<>>].op = "Cast" => TypeOf(f[<<>>]) = "integer"
    BY <1>3 DEF TypeOf
  <2>5. f[<<>>].op = "Divide" => TypeOf(f[<<>>]) = "integer"
    BY DEF TypeOf, Arithmetic
  <2> QED
    BY <1>1, <2>1, <2>2, <2>3, <2>4, <2>5 DEF Supported
<1>5. text[<<>>] = buildNode(f, <<>>)
  BY <1>2 DEF buildFilterExpression, WrittenNodes
<1>6. text[<<>>] # Hole /\ text[<<>>].op # "Blank"
  BY <1>4, <1>5 DEF buildNode, buildInExpression, buildInSetExpression, buildLike, In, Hole, Garbled,
                    Traversed, Connectives, Comparisons, NullTests, Arithmetic
<1>7. ASSUME NEW p \in Reached(text, {"Blank"}, {}) PROVE p = <<>>
  <2>1. p \in Position /\ p \in DOMAIN text
    BY <1>1 DEF Reached, IsTree, Position
  <2>2. \A k \in 1 .. Len(p) : text[Prefix(p, k - 1)].op = "Blank"
    BY DEF Reached
  <2>3. Prefix(p, 0) = <<>> /\ Len(p) \in Nat
    BY <2>1 DEF Prefix, Position
  <2>4. Len(p) = 0
    <3> SUFFICES ASSUME Len(p) # 0 PROVE FALSE
      OBVIOUS
    <3>1. 1 \in 1 .. Len(p) /\ 1 - 1 = 0
      BY <2>3
    <3>2. text[Prefix(p, 1 - 1)].op = "Blank"
      BY <2>2, <3>1
    <3>3. text[<<>>].op = "Blank"
      BY <2>3, <3>1, <3>2
    <3> QED
      BY <1>6, <3>3
  <2> QED
    BY <2>1, <2>4 DEF Position
<1> QED
  BY <1>6, <1>7 DEF Textless

\* The clause never asks for more than the filters do, and when all of them were
\* taken it asks for all that they do.
LEMMA ClauseMeansFilters ==
  ASSUME NEW F, \A f \in F : IsFilter(f) /\ Legible(f),
         \A text \in buildWhereClause(F) : Parses(text), NEW row
  PROVE  /\ Selects(F, row) => Answers(buildWhereClause(F), row)
         /\ (\A f \in F : validateFilterExpression(f)) /\ Answers(buildWhereClause(F), row)
              => Selects(F, row)
<1>1. ASSUME NEW f \in F, buildFilterExpression(f) \in buildWhereClause(F)
      PROVE  Understood(buildFilterExpression(f), row).v = Eval(f, row)
  <2>1. Readable(buildFilterExpression(f))
    BY <1>1 DEF Parses, Readable
  <2> QED
    BY <2>1, TextKeepsValues DEF IsFilter
<1>2. ASSUME Selects(F, row), NEW text \in buildWhereClause(F)
      PROVE  Understood(text, row).v = TRUE
  <2>1. PICK f \in F : text = buildFilterExpression(f)
    BY DEF buildWhereClause
  <2> QED
    BY <1>1, <1>2, <2>1 DEF Selects
<1>3. ASSUME \A f \in F : validateFilterExpression(f), Answers(buildWhereClause(F), row), NEW f \in F
      PROVE  Eval(f, row) = TRUE
  <2>1. buildFilterExpression(f) \in buildWhereClause(F)
    BY <1>3, ValidHasText DEF buildWhereClause
  <2> QED
    BY <1>1, <1>3, <2>1 DEF Answers
<1> QED
  BY <1>2, <1>3 DEF Selects, Answers

LEMMA ReferencesAreColumns ==
  ASSUME project \in Projects, filters \in FilterSets
  PROVE  references \subseteq Columns
<1>1. ASSUME NEW e \in project \cup filters, NEW P \in SUBSET DOMAIN e
      PROVE  NamesAt(e, P) \subseteq Columns
  <2>1. IsExpression(e)
    BY RuleAssumption DEF IsFilter
  <2>2. \A p \in DOMAIN e : e[p].op = "AttributeReference" => e[p].name \in Columns
    BY <2>1 DEF IsExpression, NodeFits
  <2> QED
    BY <2>2 DEF NamesAt
<1>2. ASSUME NEW e, NEW every, NEW first PROVE Reached(e, every, first) \in SUBSET DOMAIN e
  BY DEF Reached
<1>3. \A e \in project : NamesAt(e, getAttribute(e)) \subseteq Columns
  BY <1>1, <1>2 DEF getAttribute
<1>4. \A f \in filters : getFilterExpressionAttributes(f) \subseteq Columns
  BY <1>1, <1>2 DEF getFilterExpressionAttributes
<1> QED
  BY <1>3, <1>4 DEF references, attrReferences, filterReferences

-----------------------------------------------------------------------------
(***************************************************************************)
(* The invariant: a planned scan is what the rule makes of its input.      *)
(***************************************************************************)
Planned == output = references /\ query = sqlQuery /\ residual = clipped

RuleInv ==
  /\ project \in Projects /\ filters \in FilterSets
  /\ RuleTypeOK
  /\ phase = "planned" => Planned
  /\ NeverWrongRows
  /\ SupportedIsAnswered

LEMMA RuleInitInv == RuleInit => RuleInv
BY DEF RuleInit, RuleInv, RuleTypeOK, NeverWrongRows, SupportedIsAnswered, NoQuery

LEMMA TransformInv == RuleInv /\ transformProject => RuleInv'
<1> SUFFICES ASSUME RuleInv, transformProject PROVE RuleInv'
  OBVIOUS
<1>1. /\ project' = project /\ filters' = filters /\ answer' = answer /\ disabled' = disabled
      /\ phase' = "planned" /\ output' = references /\ query' = sqlQuery /\ residual' = clipped
  BY DEF transformProject, ruleInput
<1>2. references \subseteq Columns
  BY ReferencesAreColumns DEF RuleInv
<1>3. sqlQuery.columns \subseteq Columns
  BY <1>2 DEF sqlQuery, NoQuery
<1>4. clipped \in {{}, filters}
  BY DEF clipped
<1>5. RuleTypeOK'
  BY <1>1, <1>2, <1>3, <1>4 DEF RuleInv, RuleTypeOK
<1>6. Planned'
  BY <1>1 DEF Planned, references, attrReferences, filterReferences, attributeKnown,
              filterAttributesKnown, filtersStatus, sqlQuery, clipped
<1>7. NeverWrongRows' /\ SupportedIsAnswered'
  BY <1>1 DEF NeverWrongRows, SupportedIsAnswered
<1> QED
  BY <1>1, <1>5, <1>6, <1>7 DEF RuleInv

LEMMA KeepInv == RuleInv /\ keepPlan => RuleInv'
<1> SUFFICES ASSUME RuleInv, keepPlan PROVE RuleInv'
  OBVIOUS
<1>1. /\ UNCHANGED <<project, filters, disabled, output, query, residual>>
      /\ phase' = "answered" /\ answer' = Selected
  BY DEF keepPlan, ruleInput, newPlan
<1>2. Selected' = Selected /\ Selected \subseteq Table
  BY <1>1 DEF Selected
<1> QED
  BY <1>1, <1>2 DEF RuleInv, RuleTypeOK, NeverWrongRows, SupportedIsAnswered

\* The answer is the plan's, whichever filters were taken.
LEMMA ExecuteInv == RuleInv /\ execute => RuleInv'
<1> SUFFICES ASSUME RuleInv, execute PROVE RuleInv'
  OBVIOUS
<1>1. /\ UNCHANGED <<project, filters, disabled, output, query, residual>>
      /\ phase' = "answered"
      /\ answer' = {row \in Table : Answers(query.where, row) /\ Selects(residual, row)}
  BY DEF execute, ruleInput, newPlan
<1>2. Planned /\ Runs
  BY DEF RuleInv, execute
<1>3. filtersStatus # "Invalid" /\ query.where = buildWhereClause(filters)
  BY <1>2 DEF Planned, Runs, sqlQuery
<1>4. ASSUME (\A f \in filters : Legible(f)), NEW row \in Table
      PROVE  Answers(query.where, row) /\ Selects(residual, row) <=> Selects(filters, row)
  <2>1. /\ Selects(filters, row) => Answers(query.where, row)
        /\ (\A f \in filters : validateFilterExpression(f)) /\ Answers(query.where, row)
              => Selects(filters, row)
    <3>1. \A f \in filters : IsFilter(f) /\ Legible(f)
      BY <1>4, RuleAssumption DEF RuleInv
    <3>2. \A text \in buildWhereClause(filters) : Parses(text)
      BY <1>2, <1>3 DEF Runs
    <3> QED
      BY <1>3, <3>1, <3>2, ClauseMeansFilters
  <2>2. CASE filtersStatus = "FullyValid"
    <3>1. residual = {}
      BY <1>2, <2>2 DEF Planned, clipped
    <3>2. \A f \in filters : validateFilterExpression(f)
      BY <2>2 DEF filtersStatus, validateFilters
    <3> QED
      BY <2>1, <3>1, <3>2 DEF Selects
  <2>3. CASE filtersStatus # "FullyValid"
    BY <1>2, <2>1, <2>3 DEF Planned, clipped
  <2> QED
    BY <2>2, <2>3
<1>5. Selected' = Selected
  BY <1>1 DEF Selected
<1>6. (\A f \in filters : Legible(f)) => answer' = Selected
  BY <1>1, <1>4 DEF Selected
<1> QED
  BY <1>1, <1>5, <1>6 DEF RuleInv, RuleTypeOK, NeverWrongRows, SupportedIsAnswered

\* A query of plain columns and supported filters finds its columns and is parsed.
LEMMA SupportedRuns ==
  ASSUME RuleInv, phase = "planned", ~ disabled,
         \A e \in project : e[<<>>].op = "AttributeReference" /\ DOMAIN e = {<<>>},
         \A f \in filters : SupportedThroughout(f)
  PROVE  Resolves /\ Runs
<1>1. Planned
  BY DEF RuleInv
<1>2. filtersStatus = "FullyValid"
  BY DEF filtersStatus, validateFilters, SupportedThroughout
<1>3. residual = {} /\ output = attrReferences
  BY <1>1, <1>2 DEF Planned, clipped, references
<1>4. ASSUME NEW e \in project
      PROVE  getAttribute(e) = {<<>>} /\ attributeKnown(e) /\ ColumnsOf(e) = NamesAt(e, {<<>>})
  <2>1. getAttribute(e) = {<<>>}
    BY DEF getAttribute, Reached
  <2>2. {p \in DOMAIN e : e[p].op = "In"} = {}
    OBVIOUS
  <2>3. ColumnsOf(e) = NamesAt(e, {<<>>})
    BY <2>2 DEF ColumnsOf
  <2> QED
    BY <2>1, <2>3 DEF attributeKnown
<1>5. attrReferences = UNION {NamesAt(e, getAttribute(e)) : e \in project}
  BY <1>4 DEF attrReferences
<1>6. \A e \in project : ColumnsOf(e) = NamesAt(e, getAttribute(e))
  BY <1>4
<1>7. Resolves
  BY <1>3, <1>5, <1>6 DEF Resolves
<1>8. query = [columns |-> IF references = {} THEN Columns ELSE references,
               where   |-> buildWhereClause(filters)]
  BY <1>1, <1>2 DEF Planned, sqlQuery
<1>9. query # NoQuery
  <2>1. query.columns # {}
    BY <1>8, FilterAssumption
  <2> QED
    BY <2>1 DEF NoQuery
<1>10. ASSUME NEW text \in query.where PROVE Parses(text)
  <2>1. PICK f \in filters : text = buildFilterExpression(f)
    BY <1>8 DEF buildWhereClause
  <2>2. IsFilter(f)
    BY RuleAssumption DEF RuleInv
  <2> QED
    BY <2>1, <2>2, SupportedParses
<1> QED
  BY <1>7, <1>9, <1>10 DEF Runs

LEMMA FailsInv == RuleInv /\ executionFails => RuleInv'
<1> SUFFICES ASSUME RuleInv, executionFails PROVE RuleInv'
  OBVIOUS
<1>1. /\ UNCHANGED <<project, filters, disabled, output, query, residual, answer>>
      /\ phase = "planned" /\ ~ (Resolves /\ Runs) /\ phase' = "failed"
  BY DEF executionFails, ruleInput, newPlan
<1>2. SupportedIsAnswered'
  BY <1>1, SupportedRuns DEF SupportedIsAnswered
<1> QED
  BY <1>1, <1>2 DEF RuleInv, RuleTypeOK, NeverWrongRows

THEOREM RuleInvariant == RuleSpec => []RuleInv
<1>1. RuleInv /\ [RuleNext]_ruleVars => RuleInv'
  <2> SUFFICES ASSUME RuleInv, [RuleNext]_ruleVars PROVE RuleInv'
    OBVIOUS
  <2>1. CASE UNCHANGED ruleVars
    BY <2>1 DEF ruleVars, ruleInput, newPlan, RuleInv, RuleTypeOK, NeverWrongRows,
                SupportedIsAnswered, Selected, Planned, references, attrReferences,
                filterReferences, filterAttributesKnown, filtersStatus, sqlQuery, clipped
  <2> QED
    BY <2>1, TransformInv, KeepInv, FailsInv, ExecuteInv DEF RuleNext
<1> QED
  BY <1>1, RuleInitInv, PTL DEF RuleSpec

\* The filters stay in the plan whole or go, and the scan and its query only name
\* columns of the table.
THEOREM RuleTypeCorrect == RuleSpec => []RuleTypeOK
BY RuleInvariant, PTL DEF RuleInv

\* However many filters there are, however deep, and whichever of them the rule
\* takes, the rows are those of the plan it was given, if the filters are Legible:
\* the server then reads in the text of each what the filter means, and one without
\* a text stays in the plan.
THEOREM RuleKeepsRows == RuleSpec => []NeverWrongRows
BY RuleInvariant, PTL DEF RuleInv

\* A query of plain columns and of filters that are supported throughout is answered:
\* each part of the text stands for something, none follows a predicate that ends a
\* phrase, and the whole is a truth value.
THEOREM SupportedQueriesAreAnswered == RuleSpec => []SupportedIsAnswered
BY RuleInvariant, PTL DEF RuleInv

\* Legible filters are clipped only for a query that selects the very same rows:
\* brackets where they are needed, and nothing in a node that PushdownSQL writes
\* otherwise, are enough for the claim the rule makes, however the filters are built.
THEOREM LegibleClippedIsPushed ==
  RuleSpec => []((\A f \in filters : Legible(f)) => ClippedIsPushed)
<1>1. RuleInv => ((\A f \in filters : Legible(f)) => ClippedIsPushed)
  <2> SUFFICES ASSUME RuleInv, \A f \in filters : Legible(f), phase = "planned",
                      query # NoQuery, residual = {}, NEW row \in Table, Runs
               PROVE  Answers(query.where, row) <=> Selects(filters, row)
    BY DEF ClippedIsPushed
  <2>1. Planned
    BY DEF RuleInv
  <2>2. query.where = buildWhereClause(filters)
    BY <2>1 DEF Planned, sqlQuery
  <2>3. \A f \in filters : IsFilter(f) /\ Legible(f)
    BY RuleAssumption DEF RuleInv
  <2>4. \A text \in buildWhereClause(filters) : Parses(text)
    BY <2>2 DEF Runs
  <2>5. \A f \in filters : validateFilterExpression(f)
    <3>1. CASE filtersStatus = "FullyValid"
      BY <3>1 DEF filtersStatus, validateFilters
    <3>2. CASE filtersStatus # "FullyValid"
      BY <2>1, <3>2 DEF Planned, clipped
    <3> QED
      BY <3>1, <3>2
  <2> QED
    BY <2>2, <2>3, <2>4, <2>5, ClauseMeansFilters
<1> QED
  BY <1>1, RuleInvariant, PTL
=============================================================================
