----------------------------- MODULE MCJdbcServer -----------------------------
(***************************************************************************)
(* An instance of JdbcServer.                                              *)
(***************************************************************************)
EXTENDS JdbcServer, TLC

CONSTANTS t1, t2, t3, ta, tb

MCGroups == [x \in Tables |-> 2]

Rows(tab, off, cnt) == [table |-> tab, offset |-> off, count |-> cnt]

\* Two clients, each with a table of its own.
OwnTables == t1 :> {Rows(ta, 0, 1), Rows(ta, 1, 1)} @@ t2 :> {Rows(tb, 1, 1)}
=============================================================================
