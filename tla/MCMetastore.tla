----------------------------- MODULE MCMetastore -----------------------------
(***************************************************************************)
(* An instance of Metastore: a split, and a move back to the first center. *)
(***************************************************************************)
EXTENDS Metastore, TLC

CONSTANTS p1, p2, s1

Dir(s, g) == [size |-> s, groups |-> g]

\* The second table is the larger one.
MCLoaded == <<Dir(1, 1), Dir(2, 1)>>
MCNew    == Dir(2, 1)
MCPrograms ==
  p1 :> {[kind |-> "split", dest |-> "dc2", tables |-> {}]}
  @@ p2 :> {[kind |-> "one", dest |-> "dc1", tables |-> Tables]}
=============================================================================
