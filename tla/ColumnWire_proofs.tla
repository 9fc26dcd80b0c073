---------------------------- MODULE ColumnWire_proofs ----------------------------
(***************************************************************************)
(* What is proved of ColumnWire for every number of columns and rows,      *)
(* every length of strings and whatever zstd does to the lengths.          *)
(***************************************************************************)
EXTENDS ColumnWire, SequenceTheorems, TLAPS

USE WireAssumption

Sent   == [size : Nat, raw : Nat, sent : Nat]
Buffer == [memory : {"heap", "direct"}, form : {"plain", "zstd"}]

\* Where each variable stands, by phase: first the columns are encoded one after
\* the other, then the compressed ones are decoded.
WireTypes ==
  /\ rows \in 0 .. MaxRows
  /\ \E n \in 1 .. MaxColumns : columns \in [1 .. n -> Column(rows)]
  /\ wire \in Seq(Sent)
  /\ binaryRows \in Seq(Buffer)
  /\ phase \in {"encode", "decode", "open"}
  /\ decoded \in 0 .. Len(CompressedRows)
  /\ columnIndex \in 0 .. decoded

Progress ==
  /\ Len(wire) <= Len(columns)
  /\ phase = "encode" => binaryRows = <<>> /\ decoded = 0 /\ columnIndex = 0
  /\ phase # "encode" /\ rows > 0 => Len(wire) = Len(columns)
  /\ phase # "encode" => Len(binaryRows) = IF compression THEN decoded ELSE Len(wire)
  /\ phase = "open" => decoded = Len(CompressedRows)

\* The size that the client is told is that of the column at the same place.
SizesTold == \A i \in 1 .. Len(wire) : wire[i].size = DataTypeSize(columns[i])

\* The decoder's own count of the columns is right as long as it has recognised
\* each, and what it has decoded can then be read.
CountIsRight ==
  phase # "encode" =>
    /\ (\A j \in 1 .. decoded : Recognised(j)) => columnIndex = decoded
    /\ \A i \in 1 .. Len(binaryRows) :
         /\ Recognised(i) => binaryRows[i].form = "plain"
         /\ columns[i].type = "string" /\ (\A j \in 1 .. i : Recognised(j)) =>
              binaryRows[i].memory = "heap"

WireInv == WireTypes /\ Progress /\ SizesTold /\ CountIsRight

-----------------------------------------------------------------------------
LEMMA ColumnsLength ==
  ASSUME WireTypes
  PROVE  /\ Len(columns) \in 1 .. MaxColumns
         /\ columns \in [1 .. Len(columns) -> Column(rows)]
         /\ DOMAIN columns = 1 .. Len(columns)
<1>1. PICK n \in 1 .. MaxColumns : columns \in [1 .. n -> Column(rows)]
  BY DEF WireTypes
<1>2. columns \in Seq(Column(rows)) /\ Len(columns) = n
  BY <1>1
<1> QED
  BY <1>1, <1>2

LEMMA SizesAreNumbers ==
  ASSUME NEW n, NEW c \in Column(n)
  PROVE  ItemSize(c) \in Nat /\ DataTypeSize(c) \in Nat
BY DEF Column, ItemSize, DataTypeSize

LEMMA WireStarts == WireInit => WireInv
<1> SUFFICES ASSUME WireInit PROVE WireInv
  OBVIOUS
<1>1. WireTypes
  BY DEF WireInit, WireTypes, CompressedRows
<1>2. Len(columns) \in Nat
  BY <1>1, ColumnsLength
<1>3. Progress /\ SizesTold /\ CountIsRight
  BY <1>2 DEF WireInit, Progress, SizesTold, CountIsRight
<1> QED
  BY <1>1, <1>3 DEF WireInv

LEMMA EncodeStep ==
  ASSUME WireInv, Encode
  PROVE  WireInv'
<1> USE DEF WireInv
<1> DEFINE n == Len(wire)
           c == columns[n + 1]
           raw == rows * ItemSize(c)
<1>1. PICK d \in IF compression THEN Squeeze ELSE {0} :
        /\ raw + d > 0
        /\ wire' = Append(wire, [size |-> DataTypeSize(c), raw |-> raw, sent |-> raw + d])
  BY DEF Encode
<1>2. n \in Nat /\ n + 1 \in 1 .. Len(columns) /\ c \in Column(rows)
  BY ColumnsLength DEF Encode, WireTypes
<1>3. rows \in Nat /\ d \in Int /\ ItemSize(c) \in Nat /\ DataTypeSize(c) \in Nat
  BY <1>2, SizesAreNumbers DEF WireTypes
<1>4. raw \in Nat /\ raw + d \in Nat
  BY <1>1, <1>3
<1> DEFINE w == [size |-> DataTypeSize(c), raw |-> raw, sent |-> raw + d]
<1>5. w \in Sent
  BY <1>3, <1>4 DEF Sent
<1> HIDE DEF raw
<1>6. /\ wire' \in Seq(Sent) /\ Len(wire') = n + 1
      /\ \A i \in 1 .. n : wire'[i] = wire[i]
      /\ wire'[n + 1] = w
  BY <1>1, <1>5, AppendProperties DEF WireTypes
<1>7. WireTypes'
  <2>1. /\ UNCHANGED <<rows, columns, compression, binaryRows, decoded, columnIndex, phase>>
        /\ decoded = 0 /\ columnIndex = 0
    BY DEF Encode, Progress
  <2>2. CompressedRows' \in Seq(Sent) /\ Len(CompressedRows') \in Nat
    BY <1>6, <2>1 DEF CompressedRows
  <2>3. decoded' \in 0 .. Len(CompressedRows') /\ columnIndex' \in 0 .. decoded'
    BY <2>1, <2>2
  <2> QED
    BY <1>6, <2>1, <2>3 DEF WireTypes
<1>8. Progress'
  BY <1>2, <1>6 DEF Encode, Progress
<1>9. SizesTold'
  <2> SUFFICES ASSUME NEW i \in 1 .. Len(wire') PROVE wire'[i].size = DataTypeSize(columns'[i])
    BY DEF SizesTold, DataTypeSize, ItemSize
  <2>1. columns' = columns
    BY DEF Encode
  <2>2. CASE i \in 1 .. n
    BY <1>6, <2>1, <2>2 DEF SizesTold
  <2>3. CASE i = n + 1
    BY <1>6, <2>1, <2>3
  <2> QED
    BY <1>2, <1>6, <2>2, <2>3
<1>10. CountIsRight'
  BY DEF Encode, CountIsRight
<1> QED
  BY <1>7, <1>8, <1>9, <1>10

LEMMA ReceiveStep ==
  ASSUME WireInv, Receive
  PROVE  WireInv'
<1> USE DEF WireInv
<1>1. PlainRows \in Seq(Sent) /\ Len(PlainRows) \in Nat
  BY DEF PlainRows, WireTypes
<1>2. Heap("plain") \in Buffer /\ Heap("plain").form = "plain" /\ Heap("plain").memory = "heap"
  BY DEF Heap, Buffer
<1>3. /\ binaryRows' \in Seq(Buffer) /\ Len(binaryRows') = Len(PlainRows)
      /\ \A i \in 1 .. Len(PlainRows) : binaryRows'[i] = Heap("plain")
  BY <1>1, <1>2 DEF Receive
<1>4. WireTypes'
  BY <1>3 DEF WireTypes, Receive, CompressedRows, Progress
<1>5. Progress'
  BY <1>3 DEF Receive, Progress, PlainRows, CompressedRows
<1>6. SizesTold'
  BY DEF Receive, SizesTold, DataTypeSize, ItemSize
<1>7. CountIsRight'
  BY <1>1, <1>2, <1>3 DEF Receive, CountIsRight, Progress, Recognised
<1> QED
  BY <1>4, <1>5, <1>6, <1>7

LEMMA DecodeStep ==
  ASSUME WireInv, DecodeColumn
  PROVE  WireInv'
<1> USE DEF WireInv
<1> DEFINE w == CompressedRows[decoded + 1]
           b == IF w.raw = w.sent THEN Heap("zstd")
                ELSE IF columns[columnIndex + 1].type = "string" THEN Heap("plain")
                ELSE Direct("plain")
<1>1. compression /\ CompressedRows = wire
  BY DEF DecodeColumn, CompressedRows, WireTypes
<1>2. /\ decoded \in Nat /\ decoded + 1 \in 1 .. Len(wire) /\ columnIndex \in 0 .. decoded
      /\ Len(wire) \in Nat /\ Len(binaryRows) = decoded
  BY <1>1 DEF DecodeColumn, WireTypes, Progress
<1>3. b \in Buffer
  BY DEF Buffer, Heap, Direct
<1>4. binaryRows' = Append(binaryRows, b)
  BY DEF DecodeColumn
<1>5. /\ columnIndex' = IF w.raw # w.sent THEN columnIndex + 1 ELSE columnIndex
      /\ decoded' = decoded + 1
      /\ UNCHANGED <<rows, columns, compression, wire, phase>> /\ phase = "decode"
  BY DEF DecodeColumn, NextIndex
<1>6. w = wire[decoded + 1]
  BY <1>1
<1>7. /\ binaryRows' \in Seq(Buffer) /\ Len(binaryRows') = decoded + 1
      /\ \A i \in 1 .. decoded : binaryRows'[i] = binaryRows[i]
      /\ binaryRows'[decoded + 1] = b
  <2> HIDE DEF b
  <2> QED
    BY <1>2, <1>3, <1>4, AppendProperties DEF WireTypes
<1>8. WireTypes'
  <2> HIDE DEF w
  <2>1. CompressedRows' = CompressedRows
    BY <1>5 DEF CompressedRows
  <2>2. decoded' \in 0 .. Len(CompressedRows') /\ columnIndex' \in 0 .. decoded'
    BY <1>1, <1>2, <1>5, <2>1
  <2> QED
    BY <1>5, <1>7, <2>2 DEF WireTypes
<1>9. Progress'
  BY <1>1, <1>5, <1>7 DEF Progress
<1>10. SizesTold'
  BY <1>5 DEF SizesTold, DataTypeSize, ItemSize
<1>11. CountIsRight'
  <2>1. \A k : Recognised(k)' <=> Recognised(k)
    BY <1>5 DEF Recognised
  <2>2. Recognised(decoded + 1) <=> w.raw # w.sent
    BY <1>1, <1>6 DEF Recognised
  <2>3. ASSUME \A k \in 1 .. decoded + 1 : Recognised(k)
        PROVE  columnIndex = decoded /\ columnIndex' = decoded'
    <3>1. columnIndex = decoded
      BY <1>2, <1>5, <2>3 DEF CountIsRight
    <3>2. w.raw # w.sent
      BY <1>2, <2>2, <2>3
    <3> HIDE DEF w
    <3> QED
      BY <1>5, <3>1, <3>2
  <2>4. Recognised(decoded + 1) => b.form = "plain"
    BY <2>2 DEF Heap, Direct
  <2>5. ASSUME columns[decoded + 1].type = "string", \A k \in 1 .. decoded + 1 : Recognised(k)
        PROVE  b.memory = "heap"
    BY <2>3, <2>5 DEF Heap
  <2>6. ASSUME NEW i \in 1 .. decoded + 1
        PROVE  /\ Recognised(i) => binaryRows'[i].form = "plain"
               /\ columns[i].type = "string" /\ (\A k \in 1 .. i : Recognised(k)) =>
                    binaryRows'[i].memory = "heap"
    <3> HIDE DEF b
    <3>1. CASE i = decoded + 1
      BY <1>7, <2>4, <2>5, <3>1
    <3>2. CASE i \in 1 .. decoded
      BY <1>2, <1>5, <1>7, <3>2 DEF CountIsRight
    <3> QED
      BY <1>2, <3>1, <3>2
  <2> HIDE DEF b, w
  <2> QED
    BY <1>5, <1>7, <2>1, <2>3, <2>6 DEF CountIsRight
<1> QED
  BY <1>8, <1>9, <1>10, <1>11

LEMMA OpenStep ==
  ASSUME WireInv, Open
  PROVE  WireInv'
<1> USE DEF WireInv
<1>1. /\ UNCHANGED <<rows, columns, compression, wire, binaryRows, decoded, columnIndex>>
      /\ phase = "decode" /\ phase' = "open" /\ decoded = Len(CompressedRows)
  BY DEF Open
<1>2. WireTypes' /\ Progress'
  BY <1>1 DEF WireTypes, Progress, CompressedRows
<1>3. SizesTold' /\ CountIsRight'
  BY <1>1 DEF SizesTold, DataTypeSize, ItemSize, CountIsRight, Recognised, CompressedRows
<1> QED
  BY <1>2, <1>3

LEMMA WireInvariant == WireSpec => []WireInv
<1>1. ASSUME WireInv, UNCHANGED wireVars PROVE WireInv'
  BY <1>1 DEF wireVars, WireInv, WireTypes, Progress, SizesTold, DataTypeSize, ItemSize,
     CountIsRight, Recognised, CompressedRows
<1>2. WireInv /\ [WireNext]_wireVars => WireInv'
  BY <1>1, EncodeStep, ReceiveStep, DecodeStep, OpenStep DEF WireNext
<1> QED
  BY <1>2, WireStarts, PTL DEF WireSpec

-----------------------------------------------------------------------------
\* Type correctness of the encoder and of the decoder's loop.
THEOREM WireTypeCorrect == WireSpec => []WireTypeOK
<1>1. WireInv => WireTypeOK
  <2> SUFFICES ASSUME WireInv PROVE WireTypeOK
    OBVIOUS
  <2>1. \A i \in DOMAIN wire : wire[i] \in Sent
    BY DEF WireInv, WireTypes
  <2> QED
    BY <2>1 DEF WireInv, WireTypes, WireTypeOK, Sent
<1> QED
  BY <1>1, WireInvariant, PTL

\* QflockResultSet has one buffer per column of a result that has rows.
THEOREM BuffersAreColumns == WireSpec => []OneBufferPerColumn
<1>1. WireInv => OneBufferPerColumn
  BY DEF WireInv, Progress, OneBufferPerColumn, Opened, CompressedRows
<1> QED
  BY <1>1, WireInvariant, PTL

\* What exec_query has encoded, the column vectors read, item by item, in each column
\* whose own decoding goes right.
THEOREM ItemsAreReadBack == WireSpec => []ItemsSurvive
<1>1. WireInv => ItemsSurvive
  <2> SUFFICES ASSUME WireInv, Opened, NEW i \in DOMAIN columns, Intact(i)
               PROVE  ReadsItems(i)
    BY DEF ItemsSurvive
  <2>1. i \in 1 .. Len(columns) /\ columns[i] \in Column(rows) /\ columns[i].nulls = "none"
    BY ColumnsLength DEF WireInv, Intact
  <2>2. Len(wire) = Len(columns) /\ Len(binaryRows) = Len(columns)
    BY DEF WireInv, Progress, Opened, CompressedRows
  <2>3. i \in DOMAIN binaryRows
    BY <2>1, <2>2 DEF WireInv, WireTypes
  <2>4. /\ binaryRows[i].form = "plain"
        /\ columns[i].type = "string" => binaryRows[i].memory = "heap"
    BY <2>1, <2>2 DEF WireInv, CountIsRight, Opened, Intact
  <2>5. wire[i].size = DataTypeSize(columns[i])
    BY <2>1, <2>2 DEF WireInv, SizesTold
  <2>6. Width(i) = ItemSize(columns[i])
    BY <2>1, <2>5 DEF Width, ItemSize, DataTypeSize, Column, Types
  <2> QED
    BY <2>3, <2>4, <2>6 DEF ReadsItems
<1> QED
  BY <1>1, WireInvariant, PTL

\* The strings of a column have one length.
UniformStrings ==
  \A i \in DOMAIN columns : columns[i].type = "string" /\ Intact(i) =>
    \A r, q \in 1 .. rows : columns[i].len[r] = columns[i].len[q]

\* Exactly when the strings of every intact column have one length is each the string
\* of its row: every shorter one arrives padded to the longest.
THEOREM OnlyUniformStringsSurvive ==
  WireSpec => [](Opened => (StringsSurvive <=> UniformStrings))
<1>1. WireInv => (Opened => (StringsSurvive <=> UniformStrings))
  <2> SUFFICES ASSUME WireInv, Opened PROVE StringsSurvive <=> UniformStrings
    OBVIOUS
  <2>1. ASSUME NEW i \in DOMAIN columns, columns[i].type = "string"
        PROVE  /\ wire[i].size = columns[i].itemsize
               /\ columns[i] \in Column(rows)
    <3>1. i \in 1 .. Len(columns) /\ columns[i] \in Column(rows)
      BY <2>1, ColumnsLength DEF WireInv
    <3>2. wire[i].size = DataTypeSize(columns[i])
      BY <3>1 DEF WireInv, Progress, SizesTold, Opened, CompressedRows
    <3> QED
      BY <2>1, <3>1, <3>2 DEF DataTypeSize, ItemSize
  <2>2. ASSUME UniformStrings, NEW i \in DOMAIN columns, columns[i].type = "string", Intact(i),
               NEW r \in 1 .. rows
        PROVE  wire[i].size = columns[i].len[r]
    <3>1. /\ columns[i].len[r] \in 1 .. MaxLen /\ columns[i].itemsize \in 1 .. MaxLen
          /\ columns[i].len[r] <= columns[i].itemsize
          /\ columns[i].itemsize = 1 \/ \E q \in 1 .. rows : columns[i].len[q] = columns[i].itemsize
      BY <2>1, <2>2 DEF Column
    <3>2. \A q \in 1 .. rows : columns[i].len[q] = columns[i].len[r]
      BY <2>2 DEF UniformStrings
    <3> QED
      BY <2>1, <2>2, <3>1, <3>2, WireAssumption
  <2>3. StringsSurvive => UniformStrings
    BY DEF StringsSurvive, UniformStrings
  <2> QED
    BY <2>2, <2>3 DEF StringsSurvive
<1> QED
  BY <1>1, WireInvariant, PTL

=============================================================================
