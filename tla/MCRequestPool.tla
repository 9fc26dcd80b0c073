---------------------------- MODULE MCRequestPool ----------------------------
(***************************************************************************)
(* Instances of RequestPool: which thread queries which table, and which   *)
(* row groups.                                                             *)
(***************************************************************************)
EXTENDS RequestPool, TLC

CONSTANTS t1, t2, t3, ta, tb,
          RowGroups     \* row groups of each file

MCGroups == [x \in Tables |-> RowGroups]

Rows(tab, off, cnt) == [table |-> tab, offset |-> off, count |-> cnt]

\* As the Spark data source asks: every client, any one row group of ta.
OneGroupEach == [t \in Threads |-> {Rows(ta, g, 1) : g \in 0 .. RowGroups - 1}]

\* t1 and t2 compete for ta with ranges of different lengths, t3 has tb alone.
TwoShareOneAlone ==
  t1 :> {Rows(ta, 0, 2)} @@ t2 :> {Rows(ta, 1, 1)} @@ t3 :> {Rows(tb, 0, 2), Rows(tb, 1, 1)}
=============================================================================
