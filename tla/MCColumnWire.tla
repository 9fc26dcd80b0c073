----------------------------- MODULE MCColumnWire -----------------------------
(***************************************************************************)
(* An instance of ColumnWire: zstd shortens, keeps or lengthens a column.  *)
(***************************************************************************)
EXTENDS ColumnWire

MCSqueeze == {-1, 0, 13}
=============================================================================
