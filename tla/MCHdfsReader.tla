----------------------------- MODULE MCHdfsReader -----------------------------
(***************************************************************************)
(* An instance of HdfsReader: a file of three bytes, two chunks and a      *)
(* footer.  The second window begins inside the first and ends behind the  *)
(* file.                                                                   *)
(***************************************************************************)
EXTENDS HdfsReader

CONSTANTS t1, t2, fa

MCStart == <<0, 1>>
MCEnd   == <<1, 2>>
=============================================================================
