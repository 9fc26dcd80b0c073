-------------------------- MODULE MCDriverConnection --------------------------
(***************************************************************************)
(* Three threads of one client, with names of their own.                   *)
(***************************************************************************)
EXTENDS DriverConnection

CONSTANTS c1, c2, c3
=============================================================================
