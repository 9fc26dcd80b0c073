------------------------------ MODULE ColumnWire ------------------------------
(***************************************************************************)
(* How the columns of a query's result travel from the server to Spark.    *)
(*                                                                         *)
(* exec_query turns each column of the pandas result into one run of bytes *)
(* with a fixed item size, compresses it, and lists beside it the item     *)
(* size, the length and the compressed length.  QflockResultSet decodes    *)
(* the columns, in order, into buffers, and QflockJdbcColumnVector reads   *)
(* the item of a row at (row - 1) times the size its getter assumes.       *)
(*                                                                         *)
(* Bytes are not modelled one by one: a buffer holds a column's items in   *)
(* the clear or zstd's output, and a read is a position and a length.      *)
(***************************************************************************)
EXTENDS Integers, Sequences

CONSTANTS MaxColumns,   (* bound: columns of a result                      *)
          MaxRows,      (* bound: rows of a result                         *)
          MaxLen,       (* bound: the length of a string                   *)
          Squeeze       (* zstd changes a length by a member of this set   *)

ASSUME WireAssumption ==
  /\ MaxColumns \in Nat /\ MaxRows \in Nat /\ MaxLen \in Nat \ {0}
  /\ Squeeze \subseteq Int

Types == {"string", "double", "long", "integer"}

\* A column of n rows: its type, the length of each row's string (they matter
\* for strings only), numpy's item size for them, which is the longest's, and
\* whether it has a null.
Column(n) ==
  {c \in [type : Types, len : [1 .. n -> 1 .. MaxLen], itemsize : 1 .. MaxLen,
          nulls : {"none", "some"}] :
     /\ c.type # "string" => \A r \in 1 .. n : c.len[r] = 1
     /\ \A r \in 1 .. n : c.len[r] <= c.itemsize
     /\ c.itemsize = 1 \/ \E r \in 1 .. n : c.len[r] = c.itemsize}

VARIABLES
  rows,          (* numRows                                                *)
  columns,       (* the columns of the result, as the server has them      *)
  compression,   (* the server's configuration                             *)
  wire,          (* per column: columnTypeBytes, columnBytes,              *)
                 (* compressedColumnBytes                                 *)
  binaryRows,    (* the client's buffers                                   *)
  decoded,       (* compressed columns its loop has seen                   *)
  columnIndex,   (* the loop's own count of them                           *)
  phase
wireVars == <<rows, columns, compression, wire, binaryRows, decoded, columnIndex, phase>>

WireInit ==
  /\ rows \in 0 .. MaxRows
  /\ \E n \in 1 .. MaxColumns : columns \in [1 .. n -> Column(rows)]
  /\ compression \in BOOLEAN
  /\ wire = <<>>
  /\ binaryRows = <<>>
  /\ decoded = 0
  /\ columnIndex = 0
  /\ phase = "encode"

\* The bytes an item takes: pandas holds whole numbers with a null among them as
\* doubles.
ItemSize(c) ==
  CASE c.type = "string"  -> c.itemsize
    [] c.type = "integer" -> IF c.nulls = "some" THEN 8 ELSE 4
    [] OTHER -> 8

\* The size the client is told: the item's for strings, the type's for others.
DataTypeSize(c) ==
  CASE c.type = "string"  -> ItemSize(c)
    [] c.type = "integer" -> 4
    [] OTHER -> 8

\* The server encodes the next column.  A result without rows has no columns.
Encode ==
  /\ phase = "encode"
  /\ rows > 0
  /\ Len(wire) < Len(columns)
  /\ LET c   == columns[Len(wire) + 1]
         raw == rows * ItemSize(c)
     IN \E d \in IF compression THEN Squeeze ELSE {0} :
          /\ raw + d > 0
          /\ wire' = Append(wire, [size |-> DataTypeSize(c), raw |-> raw, sent |-> raw + d])
  /\ UNCHANGED <<rows, columns, compression, binaryRows, decoded, columnIndex, phase>>

\* A column goes to one of two lists.
CompressedRows == IF compression THEN wire ELSE <<>>

Heap(form)   == [memory |-> "heap", form |-> form]
Direct(form) == [memory |-> "direct", form |-> form]

\* Mutant of PlainRows: the columns that are sent compressed are among them.
PlainRowsAll == wire

PlainRows == IF compression THEN <<>> ELSE wire

\* The reply is received: Thrift reads each binary into an array of its own.
Receive ==
  /\ phase = "encode"
  /\ rows > 0 => Len(wire) = Len(columns)
  /\ phase' = "decode"
  /\ binaryRows' = [i \in 1 .. Len(PlainRows) |-> Heap("plain")]
  /\ UNCHANGED <<rows, columns, compression, wire, decoded, columnIndex>>

\* Mutants of NextIndex: it is not advanced, or advanced on both ends of the loop.
NextIndexStays(w) == columnIndex
NextIndexTwice(w) == columnIndex + 2

NextIndex(w) == IF w.raw # w.sent THEN columnIndex + 1 ELSE columnIndex

\* getColumnResults takes the next compressed column.  Different lengths mean
\* that it must be decompressed, into a direct buffer; strings are copied back
\* to an array, and which column is a string is looked up with columnIndex.
\* Equal lengths mean that it is taken as it is, and columnIndex stays.
DecodeColumn ==
  /\ phase = "decode"
  /\ decoded < Len(CompressedRows)
  /\ LET w == CompressedRows[decoded + 1]
     IN /\ binaryRows' = Append(binaryRows,
             IF w.raw = w.sent THEN Heap("zstd")
             ELSE IF columns[columnIndex + 1].type = "string" THEN Heap("plain") ELSE Direct("plain"))
        /\ columnIndex' = NextIndex(w)
  /\ decoded' = decoded + 1
  /\ UNCHANGED <<rows, columns, compression, wire, phase>>

Open ==
  /\ phase = "decode"
  /\ decoded = Len(CompressedRows)
  /\ phase' = "open"
  /\ UNCHANGED <<rows, columns, compression, wire, binaryRows, decoded, columnIndex>>

WireNext == Encode \/ Receive \/ DecodeColumn \/ Open
WireSpec == WireInit /\ [][WireNext]_wireVars

-----------------------------------------------------------------------------
\* The getter that reads column i steps over and reads this many bytes.
Width(i) ==
  CASE columns[i].type = "string"  -> wire[i].size
    [] columns[i].type = "integer" -> 4
    [] OTHER -> 8

\* Reading a row of column i with its getter yields the bytes of its item: the
\* step and the length are the item's.  Only an array can be turned into a string.
ReadsItems(i) ==
  /\ i \in DOMAIN binaryRows
  /\ binaryRows[i].form = "plain"
  /\ columns[i].type = "string" => binaryRows[i].memory = "heap"
  /\ Width(i) = ItemSize(columns[i])

-----------------------------------------------------------------------------
WireTypeOK ==
  /\ rows \in 0 .. MaxRows
  /\ \A i \in DOMAIN wire : wire[i] \in [size : Nat, raw : Nat, sent : Nat]
  /\ decoded \in 0 .. Len(CompressedRows)
  /\ columnIndex \in 0 .. decoded
  /\ phase \in {"encode", "decode", "open"}

Opened == phase = "open" /\ rows > 0

\* The decoder tells a compressed column from its two lengths, and misses the one
\* that zstd has left as long as it was.
Recognised(j) == compression => wire[j].raw # wire[j].sent

\* A column whose own decoding goes right: it is recognised, and so is each before
\* it if its type has to be looked up, and a whole number is not null.
Intact(i) ==
  /\ columns[i].nulls = "none"
  /\ Recognised(i)
  /\ columns[i].type = "string" => \A j \in 1 .. i : Recognised(j)

\* Every item of such a column is read back, with or without compression, whatever
\* the types and whatever happens to the other columns: one that is not recognised
\* (QflockResultSet.java:113) spoils itself and the strings after it, no more.
ItemsSurvive ==
  Opened => \A i \in DOMAIN columns : Intact(i) => ReadsItems(i)

\* The buffers are the columns, one for one: the column vectors address them
\* by position.
OneBufferPerColumn == Opened => Len(binaryRows) = Len(columns)

\* A string is the string of its row: "we can copy a range for each individual
\* string" (QflockResultSet.java:128-129).
StringsSurvive ==
  Opened => \A i \in DOMAIN columns : columns[i].type = "string" /\ Intact(i) =>
    \A r \in 1 .. rows : wire[i].size = columns[i].len[r]
=============================================================================
