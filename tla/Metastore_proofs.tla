---------------------------- MODULE Metastore_proofs ----------------------------
(***************************************************************************)
(* What is proved of Metastore for every number of tables, tools and       *)
(* sessions, and all command lines.                                        *)
(***************************************************************************)
EXTENDS Metastore, FiniteSetTheorems, TLAPS

\* A row has no statistics, or those of the files that table t was loaded with.
AsLoaded(row, t) ==
  Known(row) => row.size = Loaded[t].size /\ row.groups = Loaded[t].groups

\* Every copy of a table whose files have not changed: in the metastore, with a
\* tool, with a session.
CopiesAsLoaded ==
  \A t \in Tables \ inserted :
    /\ AsLoaded(meta[t], t)
    /\ \A p \in Tools : AsLoaded(copy[p][t], t)
    /\ \A s \in Sessions : subject[s] = t => AsLoaded(held[s], t)
    /\ \A d \in DataCenters : files[d][t] = Loaded[t]

Sorted == {"location", "path", "done"}

\* Who is past the sort, or has passed the proxy, has statistics to write back.
WritersKnow ==
  /\ \A p \in Tools : pc[p] \in Sorted => \A t \in Tables : Known(copy[p][t])
  /\ \A s \in Sessions : stage[s] = "adding" => subject[s] \in Tables /\ Known(held[s])

\* A tool's copy is the metastore's table, unless somebody else wrote it.
Mirrors ==
  \A p \in Tools, t \in Tables :
    /\ \/ pc[p] \in Sorted
       \/ pc[p] = "reading" /\ t \notin todo[p]
    /\ t \notin foreign[p]
    => copy[p][t] = meta[t]

MovedRow(row, dest) == row.location = dest /\ row.path \in {dest, NoPath}

\* What a tool has chosen it has moved, except for the path of the table it is at.
Visited ==
  \A p \in Tools :
    /\ pc[p] \in {"connect", "reading"} => chosen[p] = {}
    /\ pc[p] = "done" => todo[p] = {}
    /\ pc[p] \in Sorted => \A t \in chosen[p] :
         /\ t \notin todo[p] => MovedRow(copy[p][t], program[p].dest)
         /\ t \in todo[p] => /\ pc[p] = "path"
                             /\ At(p, t)
                             /\ copy[p][t].location = program[p].dest

MetaInv == MetaTypeOK /\ CopiesAsLoaded /\ WritersKnow /\ Mirrors /\ Visited

\* The sort's order leaves one table to be at.
LEMMA OneAt ==
  ASSUME MetaTypeOK, NEW p \in Tools, NEW t \in Tables, NEW u \in Tables,
         At(p, t), At(p, u)
  PROVE  t = u
<1>1. Precedes(copy[p], t, u) /\ Precedes(copy[p], u, t)
  BY DEF At
<1>2. copy[p][t].size \in Nat /\ copy[p][u].size \in Nat
  BY DEF MetaTypeOK, TableRecord
<1> QED
  BY <1>1, <1>2 DEF Precedes, Tables

LEMMA NoTableIsRow == NoTable \in TableRecord
BY DEF NoTable, TableRecord, DataCenters, NoPath

LEMMA MetaStarts == MetaInit => MetaInv
<1> SUFFICES ASSUME MetaInit PROVE MetaInv
  OBVIOUS
<1>1. PICK analysed \in SUBSET {t \in Tables : Loaded[t].groups > 0} :
        meta = [t \in Tables |-> LoadedTable(t, t \in analysed)]
  BY DEF MetaInit
<1>2. ASSUME NEW t \in Tables
      PROVE  meta[t] \in TableRecord /\ AsLoaded(meta[t], t)
  <2>1. Loaded[t].size \in Nat /\ Loaded[t].groups \in Nat
    BY MetastoreAssumption DEF Directory
  <2>2. CASE t \in analysed
    BY <1>1, <2>1, <2>2 DEF LoadedTable, TableRecord, DataCenters, AsLoaded, Known
  <2>3. CASE t \notin analysed
    BY <1>1, <2>3 DEF LoadedTable, TableRecord, DataCenters, AsLoaded, Known
  <2> QED
    BY <2>2, <2>3
<1>3. meta \in [Tables -> TableRecord] /\ \A t \in Tables : AsLoaded(meta[t], t)
  BY <1>1, <1>2
<1>4. \A p \in Tools : (CHOOSE g \in Programs[p] : TRUE) \in Program
  <2> TAKE p \in Tools
  <2>1. PICK g \in Programs[p] : TRUE
    BY MetastoreAssumption
  <2>2. (CHOOSE h \in Programs[p] : TRUE) \in Programs[p]
    BY <2>1
  <2> QED
    BY <2>2, MetastoreAssumption
<1>5. MetaTypeOK
  <2>1. /\ files \in [DataCenters -> [Tables -> Directory]]
        /\ copy \in [Tools -> [Tables -> TableRecord]]
        /\ held \in [Sessions -> TableRecord]
    BY NoTableIsRow, MetastoreAssumption DEF MetaInit, Unread
  <2>2. program \in [Tools -> Program]
    BY <1>4 DEF MetaInit
  <2> QED
    BY <1>3, <2>1, <2>2 DEF MetaInit, MetaTypeOK, Running, Connected
<1>6. CopiesAsLoaded
  BY <1>3 DEF MetaInit, CopiesAsLoaded, Unread, NoTable, AsLoaded, Known, Tables
<1>7. WritersKnow /\ Mirrors /\ Visited
  BY DEF MetaInit, WritersKnow, Mirrors, Visited, Sorted
<1> QED
  BY <1>5, <1>6, <1>7 DEF MetaInv

\* A tool's change of one place in its copy, and its write of the table.
LEMMA ToolWrites ==
  ASSUME MetaInv, NEW p \in Tools, NEW t \in Tables, NEW row \in TableRecord,
         row.size = copy[p][t].size,
         row.groups = copy[p][t].groups,
         copy' = [copy EXCEPT ![p][t] = row], Write(p, t, row),
         UNCHANGED <<files, inserted, subject, held>>
  PROVE  /\ meta' \in [Tables -> TableRecord]
         /\ copy' \in [Tools -> [Tables -> TableRecord]]
         /\ foreign' \in [Tools -> SUBSET Tables]
         /\ CopiesAsLoaded'
         /\ \A u \in Tables : /\ copy'[p][u].groups = copy[p][u].groups
                              /\ copy'[p][u].size = copy[p][u].size
                              /\ u # t => copy'[p][u] = copy[p][u]
         /\ copy'[p][t] = row /\ meta'[t] = row
         /\ \A q \in Tools \ {p} : copy'[q] = copy[q]
<1> USE DEF MetaInv
<1>1. meta' \in [Tables -> TableRecord] /\ meta'[t] = row
      /\ \A u \in Tables \ {t} : meta'[u] = meta[u]
  BY DEF MetaTypeOK, Write
<1>2. foreign' \in [Tools -> SUBSET Tables]
  BY DEF MetaTypeOK, Write
<1>3. /\ copy[p] \in [Tables -> TableRecord]
      /\ copy' = [copy EXCEPT ![p] = [copy[p] EXCEPT ![t] = row]]
  BY DEF MetaTypeOK
<1>4. /\ copy' \in [Tools -> [Tables -> TableRecord]]
      /\ \A q \in Tools \ {p} : copy'[q] = copy[q]
      /\ copy'[p] = [copy[p] EXCEPT ![t] = row]
  BY <1>3 DEF MetaTypeOK
<1>5. copy'[p][t] = row /\ \A u \in Tables \ {t} : copy'[p][u] = copy[p][u]
  BY <1>3, <1>4
<1>6. t \notin inserted => AsLoaded(row, t)
  BY DEF CopiesAsLoaded, AsLoaded, Known
<1>7. CopiesAsLoaded'
  BY <1>1, <1>4, <1>5, <1>6 DEF CopiesAsLoaded, AsLoaded, Known
<1> QED
  BY <1>1, <1>2, <1>4, <1>5, <1>7

\* A tool that starts or ends.
LEMMA ForgetKeeps ==
  ASSUME MetaInv, NEW p \in Tools, NEW where \in {"connect", "stopped"},
         pc' = [pc EXCEPT ![p] = where], Forget(p), program' \in [Tools -> Program],
         \A q \in Tools \ {p} : program'[q] = program[q], starts' \in Nat,
         UNCHANGED <<meta, files, up, sessionVars, inserted>>
  PROVE  MetaInv'
<1> USE DEF MetaInv, Forget, sessionVars
<1>1. Unread \in [Tables -> TableRecord]
  BY NoTableIsRow DEF Unread
<1>2. /\ copy' \in [Tools -> [Tables -> TableRecord]]
      /\ copy'[p] = Unread
      /\ \A q \in Tools \ {p} : copy'[q] = copy[q]
  BY <1>1 DEF MetaTypeOK
<1>3. MetaTypeOK'
  BY <1>2 DEF MetaTypeOK, Running, Connected
<1>4. \A t \in Tables : ~Known(Unread[t])
  BY DEF Unread, NoTable, Known
<1>5. CopiesAsLoaded'
  BY <1>2, <1>4 DEF CopiesAsLoaded, AsLoaded, Known
<1>6. /\ pc'[p] = where
      /\ \A q \in Tools \ {p} : /\ pc'[q] = pc[q] /\ todo'[q] = todo[q]
                                /\ chosen'[q] = chosen[q] /\ foreign'[q] = foreign[q]
      /\ chosen'[p] = {}
  BY DEF MetaTypeOK
<1>7. WritersKnow' /\ Mirrors'
  BY <1>2, <1>6 DEF WritersKnow, Mirrors, Sorted
<1>8. Visited'
  BY <1>2, <1>6 DEF Visited, Sorted, At
<1> QED
  BY <1>3, <1>5, <1>7, <1>8

\* A session that is done with its table.
LEMMA AnsweredKeeps ==
  ASSUME MetaInv, NEW s \in Sessions, Answered(s), Mirrors', Visited',
         meta' \in [Tables -> TableRecord], foreign' \in [Tools -> SUBSET Tables],
         link' \in [Sessions -> {"closed", "open"}],
         \A u \in Tables \ inserted : AsLoaded(meta'[u], u),
         \A p \in Tools : pc'[p] \in Sorted => \A u \in Tables : Known(copy'[p][u]),
         UNCHANGED <<files, up, toolVars, inserted>>
  PROVE  MetaInv'
<1> USE DEF MetaInv, toolVars, Answered
<1>1. /\ held' \in [Sessions -> TableRecord]
      /\ subject'[s] = 0 /\ stage'[s] = "idle"
      /\ \A q \in Sessions \ {s} : /\ held'[q] = held[q] /\ subject'[q] = subject[q]
                                   /\ stage'[q] = stage[q]
  BY NoTableIsRow DEF MetaTypeOK
<1>2. MetaTypeOK'
  BY <1>1 DEF MetaTypeOK
<1>3. CopiesAsLoaded'
  BY <1>1 DEF CopiesAsLoaded, AsLoaded, Known, Tables
<1>4. WritersKnow'
  BY <1>1 DEF WritersKnow
<1> QED
  BY <1>2, <1>3, <1>4

LEMMA OpenMetastoreStep ==
  ASSUME MetaInv, NEW p \in Tools, OpenMetastore(p)
  PROVE  MetaInv'
<1> USE DEF MetaInv, toolVars, sessionVars, OpenMetastore
<1>1. MetaTypeOK'
  BY NoTableIsRow, MetastoreAssumption DEF MetaTypeOK, Running, Connected, Unread
<1>2. CopiesAsLoaded'
  BY DEF CopiesAsLoaded, AsLoaded, Known, MetaTypeOK, Unread, NoTable, TableRecord, Tables
<1>3. WritersKnow'
  BY DEF WritersKnow, Sorted, Known, MetaTypeOK, Running, Connected, TableRecord
<1>4. Mirrors'
  BY DEF Mirrors, Sorted, MetaTypeOK, Running, Connected
<1>5. Visited'
  BY DEF Visited, Sorted, MetaTypeOK, Running, Connected, At, Precedes
<1> QED
  BY <1>1, <1>2, <1>3, <1>4, <1>5

LEMMA ReadTableStep ==
  ASSUME MetaInv, NEW p \in Tools, NEW t \in Tables, ReadTable(p, t)
  PROVE  MetaInv'
<1> USE DEF MetaInv, toolVars, sessionVars, ReadTable
<1>1. MetaTypeOK'
  BY NoTableIsRow, MetastoreAssumption DEF MetaTypeOK, Running, Connected, Unread
<1>2. CopiesAsLoaded'
  BY DEF CopiesAsLoaded, AsLoaded, Known, MetaTypeOK, Unread, NoTable, TableRecord, Tables
<1>3. WritersKnow'
  BY DEF WritersKnow, Sorted, Known, MetaTypeOK, Running, Connected, TableRecord
<1>4. Mirrors'
  BY DEF Mirrors, Sorted, MetaTypeOK, Running, Connected
<1>5. Visited'
  BY DEF Visited, Sorted, MetaTypeOK, Running, Connected, At, Precedes
<1> QED
  BY <1>1, <1>2, <1>3, <1>4, <1>5

LEMMA SortStep ==
  ASSUME MetaInv, NEW p \in Tools, Sort(p)
  PROVE  MetaInv'
<1> USE DEF MetaInv, toolVars, sessionVars
<1>1. CASE \A t \in Tables : Known(copy[p][t])
  <2>1. /\ pc' = [pc EXCEPT ![p] = "location"] /\ todo' = [todo EXCEPT ![p] = Tables]
        /\ pc[p] = "reading" /\ todo[p] = {}
        /\ UNCHANGED <<meta, files, up, program, copy, chosen, starts, sessionVars,
                       inserted, foreign>>
    BY <1>1 DEF Sort
  <2>2. MetaTypeOK'
    BY <2>1 DEF MetaTypeOK, Running, Connected
  <2>3. CopiesAsLoaded' /\ WritersKnow'
    BY <1>1, <2>1 DEF CopiesAsLoaded, AsLoaded, Known, WritersKnow, MetaTypeOK, Sorted
  <2>4. Mirrors'
    BY <2>1 DEF Mirrors, MetaTypeOK, Sorted
  <2>5. Visited'
    BY <2>1 DEF Visited, MetaTypeOK, Sorted, At, Precedes
  <2> QED
    BY <2>2, <2>3, <2>4, <2>5
<1>2. CASE ~ \A t \in Tables : Known(copy[p][t])
  <2>1. /\ pc' = [pc EXCEPT ![p] = "stopped"] /\ Forget(p)
        /\ UNCHANGED <<meta, files, up, program, starts, sessionVars, inserted>>
    BY <1>2 DEF Sort
  <2> QED
    BY <2>1, ForgetKeeps DEF MetaTypeOK
<1> QED
  BY <1>1, <1>2

LEMMA SkipStep ==
  ASSUME MetaInv, NEW p \in Tools, NEW t \in Tables, Skip(p, t)
  PROVE  MetaInv'
<1> USE DEF MetaInv, toolVars, sessionVars, Skip
<1>1. MetaTypeOK'
  BY NoTableIsRow, MetastoreAssumption DEF MetaTypeOK, Running, Connected, Unread
<1>2. CopiesAsLoaded'
  BY DEF CopiesAsLoaded, AsLoaded, Known, MetaTypeOK, Unread, NoTable, TableRecord, Tables
<1>3. WritersKnow'
  BY DEF WritersKnow, Sorted, Known, MetaTypeOK, Running, Connected, TableRecord
<1>4. Mirrors'
  BY DEF Mirrors, Sorted, MetaTypeOK, Running, Connected
<1>5. Visited'
  BY DEF Visited, Sorted, MetaTypeOK, Running, Connected, At, Precedes
<1> QED
  BY <1>1, <1>2, <1>3, <1>4, <1>5

LEMMA AlterLocationStep ==
  ASSUME MetaInv, NEW p \in Tools, NEW t \in Tables, AlterLocation(p, t)
  PROVE  MetaInv'
<1> USE DEF MetaInv, sessionVars
<1> DEFINE row == [copy[p][t] EXCEPT !.location = program[p].dest]
<1>1. copy[p][t] \in TableRecord /\ program[p].dest \in DataCenters
  BY DEF MetaTypeOK, Program
<1>2. row \in TableRecord
  BY <1>1 DEF TableRecord
<1>3. /\ row.size = copy[p][t].size
      /\ row.groups = copy[p][t].groups /\ row.location = program[p].dest
      /\ row.path = copy[p][t].path
  BY <1>1 DEF TableRecord
<1>4. /\ pc[p] = "location" /\ pc' = [pc EXCEPT ![p] = "path"] /\ At(p, t)
      /\ chosen' = [chosen EXCEPT ![p] = @ \cup {t}] /\ UNCHANGED todo
      /\ UNCHANGED <<files, up, program, starts, sessionVars, inserted>>
  BY DEF AlterLocation
<1>5. \/ /\ copy[p][t].location # Source(p)
         /\ UNCHANGED <<meta, foreign, copy>>
      \/ /\ copy' = [copy EXCEPT ![p][t] = row]
         /\ Write(p, t, row)
  <2>1. CASE copy[p][t].location = Source(p)
    <3>1. copy' = [copy EXCEPT ![p][t].location = program[p].dest]
      BY <2>1 DEF AlterLocation
    <3>2. copy' = [copy EXCEPT ![p][t] = row]
      BY <3>1
    <3>3. copy'[p][t] = row
      BY <3>2, <1>1 DEF MetaTypeOK
    <3> QED
      BY <2>1, <3>2, <3>3 DEF AlterLocation
  <2>2. CASE copy[p][t].location # Source(p)
    BY <2>2 DEF AlterLocation
  <2> QED
    BY <2>1, <2>2
<1> HIDE DEF row
<1>6. /\ meta' \in [Tables -> TableRecord]
      /\ copy' \in [Tools -> [Tables -> TableRecord]]
      /\ foreign' \in [Tools -> SUBSET Tables]
      /\ CopiesAsLoaded'
      /\ \A u \in Tables : /\ copy'[p][u].groups = copy[p][u].groups
                           /\ copy'[p][u].size = copy[p][u].size
                           /\ u # t => copy'[p][u] = copy[p][u]
      /\ \A q \in Tools \ {p} : copy'[q] = copy[q]
  <2>1. CASE UNCHANGED <<meta, foreign, copy>>
    BY <1>4, <2>1 DEF MetaTypeOK, CopiesAsLoaded, AsLoaded
  <2>2. CASE copy' = [copy EXCEPT ![p][t] = row] /\ Write(p, t, row)
    BY <1>2, <1>3, <1>4, <2>2, ToolWrites
  <2> QED
    BY <1>5, <2>1, <2>2
<1>7. copy'[p][t].location = program[p].dest
  <2>1. CASE /\ copy[p][t].location # Source(p)
             /\ UNCHANGED copy
    BY <1>1, <2>1 DEF Source, DataCenters, TableRecord
  <2>2. CASE copy' = [copy EXCEPT ![p][t] = row]
    BY <1>3, <2>2 DEF MetaTypeOK
  <2> QED
    BY <1>5, <2>1, <2>2
<1>8. copy'[p][t].path = copy[p][t].path
  BY <1>3, <1>5 DEF MetaTypeOK
<1>9. /\ pc'[p] = "path"
      /\ \A q \in Tools \ {p} : /\ pc'[q] = pc[q] /\ todo'[q] = todo[q]
                                /\ chosen'[q] = chosen[q]
  BY <1>4 DEF MetaTypeOK
<1>10. MetaTypeOK'
  BY <1>4, <1>6 DEF MetaTypeOK, Running, Connected
<1>11. WritersKnow'
  <2>1. ASSUME NEW q \in Tools, pc'[q] \in Sorted, NEW u \in Tables
        PROVE  Known(copy'[q][u])
    <3>1. CASE q = p
      <4>1. Known(copy[p][u])
        BY <1>4 DEF WritersKnow, Sorted
      <4> QED
        BY <1>6, <3>1, <4>1 DEF Known
    <3>2. CASE q # p
      BY <1>6, <1>9, <2>1, <3>2 DEF WritersKnow
    <3> QED
      BY <3>1, <3>2
  <2>2. UNCHANGED <<stage, subject, held>>
    BY <1>4
  <2> QED
    BY <2>1, <2>2 DEF WritersKnow
<1>12. Mirrors'
  <2> SUFFICES ASSUME NEW q \in Tools, NEW u \in Tables,
                      \/ pc'[q] \in Sorted
                      \/ pc'[q] = "reading" /\ u \notin todo'[q],
                      u \notin foreign'[q]
               PROVE  copy'[q][u] = meta'[u]
    BY DEF Mirrors
  <2>1. foreign[q] \subseteq foreign'[q]
    <3>1. CASE UNCHANGED <<meta, foreign, copy>>
      BY <3>1
    <3>2. CASE Write(p, t, row)
      BY <3>2 DEF Write
    <3> QED
      BY <1>5, <3>1, <3>2
  <2>2. CASE q = p
    <3>1. copy[p][u] = meta[u]
      BY <1>4, <2>1, <2>2 DEF Mirrors, Sorted
    <3>2. CASE UNCHANGED <<meta, foreign, copy>>
      BY <2>2, <3>1, <3>2
    <3>3. CASE copy' = [copy EXCEPT ![p][t] = row] /\ Write(p, t, row)
      <4>1. copy'[p][t] = meta'[t]
        BY <3>3 DEF Write, MetaTypeOK
      <4>2. u # t => meta'[u] = meta[u]
        BY <3>3 DEF Write, MetaTypeOK
      <4> QED
        BY <1>6, <2>2, <3>1, <4>1, <4>2
    <3> QED
      BY <1>5, <3>2, <3>3
  <2>3. CASE q # p
    <3>1. copy[q][u] = meta[u]
      BY <1>9, <2>1, <2>3 DEF Mirrors
    <3>2. meta'[u] = meta[u]
      BY <1>5, <2>3 DEF Write, MetaTypeOK
    <3> QED
      BY <1>6, <2>3, <3>1, <3>2
  <2> QED
    BY <2>2, <2>3
<1>13. Visited'
  <2> SUFFICES ASSUME NEW q \in Tools
               PROVE  /\ pc'[q] \in {"connect", "reading"} => chosen'[q] = {}
                      /\ pc'[q] = "done" => todo'[q] = {}
                      /\ pc'[q] \in Sorted => \A u \in chosen'[q] :
                           /\ u \notin todo'[q] => MovedRow(copy'[q][u], program'[q].dest)
                           /\ u \in todo'[q] => /\ pc'[q] = "path"
                                                /\ At(q, u)'
                                                /\ copy'[q][u].location = program'[q].dest
    BY DEF Visited
  <2>1. CASE q # p
    BY <1>4, <1>6, <1>9, <2>1 DEF Visited, At
  <2>2. CASE q = p
    <3>1. todo'[p] = todo[p] /\ chosen'[p] = chosen[p] \cup {t}
      BY <1>4 DEF MetaTypeOK
    <3>2. At(p, t)'
      <4>1. todo[p] \subseteq Tables
        BY DEF MetaTypeOK
      <4>2. QED
        <5>1. t \in todo'[p] /\ \A u \in todo[p] : Precedes(copy[p], t, u)
          BY <1>4, <3>1 DEF At
        <5>2. \A u \in todo[p] : Precedes(copy'[p], t, u)
          BY <1>6, <4>1, <5>1 DEF Precedes
        <5> QED
          BY <3>1, <5>1, <5>2 DEF At
    <3>3. \A u \in chosen[p] : /\ u \in Tables /\ u \notin todo[p]
                               /\ MovedRow(copy[p][u], program[p].dest)
      BY <1>4 DEF Visited, Sorted, MetaTypeOK
    <3>4. t \in todo[p]
      BY <1>4 DEF At
    <3>5. \A u \in chosen[p] : MovedRow(copy'[p][u], program[p].dest)
      <4> TAKE u \in chosen[p]
      <4>1. u \in Tables /\ u # t
        BY <3>3, <3>4
      <4>2. copy'[p][u] = copy[p][u]
        BY <1>6, <4>1
      <4> QED
        BY <3>3, <4>2
    <3> QED
      BY <1>4, <1>7, <1>9, <2>2, <3>1, <3>2, <3>3, <3>4, <3>5 DEF Sorted
  <2> QED
    BY <2>1, <2>2
<1> QED
  BY <1>6, <1>10, <1>11, <1>12, <1>13

LEMMA AlterPathStep ==
  ASSUME MetaInv, NEW p \in Tools, NEW t \in Tables, AlterPath(p, t)
  PROVE  MetaInv'
<1> USE DEF MetaInv, sessionVars
<1> DEFINE row == [copy[p][t] EXCEPT !.path = program[p].dest]
<1>1. copy[p][t] \in TableRecord /\ program[p].dest \in DataCenters
  BY DEF MetaTypeOK, Program
<1>2. row \in TableRecord
  BY <1>1 DEF TableRecord
<1>3. /\ row.size = copy[p][t].size
      /\ row.groups = copy[p][t].groups /\ row.path = program[p].dest
      /\ row.location = copy[p][t].location
  BY <1>1 DEF TableRecord
<1>4. /\ pc[p] = "path" /\ pc' = [pc EXCEPT ![p] = "location"] /\ At(p, t)
      /\ todo' = [todo EXCEPT ![p] = @ \ {t}] /\ UNCHANGED chosen
      /\ UNCHANGED <<files, up, program, starts, sessionVars, inserted>>
  BY DEF AlterPath
<1>5. \/ /\ copy[p][t].path # Source(p)
         /\ UNCHANGED <<meta, foreign, copy>>
      \/ /\ copy' = [copy EXCEPT ![p][t] = row]
         /\ Write(p, t, row)
  <2>1. CASE copy[p][t].path = Source(p)
    <3>1. copy' = [copy EXCEPT ![p][t].path = program[p].dest]
      BY <2>1 DEF AlterPath
    <3>2. copy' = [copy EXCEPT ![p][t] = row]
      BY <3>1
    <3>3. copy'[p][t] = row
      BY <3>2, <1>1 DEF MetaTypeOK
    <3> QED
      BY <2>1, <3>2, <3>3 DEF AlterPath
  <2>2. CASE copy[p][t].path # Source(p)
    BY <2>2 DEF AlterPath
  <2> QED
    BY <2>1, <2>2
<1> HIDE DEF row
<1>6. /\ meta' \in [Tables -> TableRecord]
      /\ copy' \in [Tools -> [Tables -> TableRecord]]
      /\ foreign' \in [Tools -> SUBSET Tables]
      /\ CopiesAsLoaded'
      /\ \A u \in Tables : /\ copy'[p][u].groups = copy[p][u].groups
                           /\ copy'[p][u].size = copy[p][u].size
                           /\ u # t => copy'[p][u] = copy[p][u]
      /\ \A q \in Tools \ {p} : copy'[q] = copy[q]
  <2>1. CASE UNCHANGED <<meta, foreign, copy>>
    BY <1>4, <2>1 DEF MetaTypeOK, CopiesAsLoaded, AsLoaded
  <2>2. CASE copy' = [copy EXCEPT ![p][t] = row] /\ Write(p, t, row)
    BY <1>2, <1>3, <1>4, <2>2, ToolWrites
  <2> QED
    BY <1>5, <2>1, <2>2
<1>7. copy'[p][t].path = program[p].dest \/ copy'[p][t].path = NoPath
  <2>1. CASE /\ copy[p][t].path # Source(p)
             /\ UNCHANGED copy
    BY <1>1, <2>1 DEF Source, DataCenters, TableRecord
  <2>2. CASE copy' = [copy EXCEPT ![p][t] = row]
    BY <1>3, <2>2 DEF MetaTypeOK
  <2> QED
    BY <1>5, <2>1, <2>2
<1>8. copy'[p][t].location = copy[p][t].location
  BY <1>3, <1>5 DEF MetaTypeOK
<1>9. /\ pc'[p] = "location"
      /\ \A q \in Tools \ {p} : /\ pc'[q] = pc[q] /\ todo'[q] = todo[q]
                                /\ chosen'[q] = chosen[q]
  BY <1>4 DEF MetaTypeOK
<1>10. MetaTypeOK'
  BY <1>4, <1>6 DEF MetaTypeOK, Running, Connected
<1>11. WritersKnow'
  <2>1. ASSUME NEW q \in Tools, pc'[q] \in Sorted, NEW u \in Tables
        PROVE  Known(copy'[q][u])
    <3>1. CASE q = p
      <4>1. Known(copy[p][u])
        BY <1>4 DEF WritersKnow, Sorted
      <4> QED
        BY <1>6, <3>1, <4>1 DEF Known
    <3>2. CASE q # p
      BY <1>6, <1>9, <2>1, <3>2 DEF WritersKnow
    <3> QED
      BY <3>1, <3>2
  <2>2. UNCHANGED <<stage, subject, held>>
    BY <1>4
  <2> QED
    BY <2>1, <2>2 DEF WritersKnow
<1>12. Mirrors'
  <2> SUFFICES ASSUME NEW q \in Tools, NEW u \in Tables,
                      \/ pc'[q] \in Sorted
                      \/ pc'[q] = "reading" /\ u \notin todo'[q],
                      u \notin foreign'[q]
               PROVE  copy'[q][u] = meta'[u]
    BY DEF Mirrors
  <2>1. foreign[q] \subseteq foreign'[q]
    <3>1. CASE UNCHANGED <<meta, foreign, copy>>
      BY <3>1
    <3>2. CASE Write(p, t, row)
      BY <3>2 DEF Write
    <3> QED
      BY <1>5, <3>1, <3>2
  <2>2. CASE q = p
    <3>1. copy[p][u] = meta[u]
      BY <1>4, <2>1, <2>2 DEF Mirrors, Sorted
    <3>2. CASE UNCHANGED <<meta, foreign, copy>>
      BY <2>2, <3>1, <3>2
    <3>3. CASE copy' = [copy EXCEPT ![p][t] = row] /\ Write(p, t, row)
      <4>1. copy'[p][t] = meta'[t]
        BY <3>3 DEF Write, MetaTypeOK
      <4>2. u # t => meta'[u] = meta[u]
        BY <3>3 DEF Write, MetaTypeOK
      <4> QED
        BY <1>6, <2>2, <3>1, <4>1, <4>2
    <3> QED
      BY <1>5, <3>2, <3>3
  <2>3. CASE q # p
    <3>1. copy[q][u] = meta[u]
      BY <1>9, <2>1, <2>3 DEF Mirrors
    <3>2. meta'[u] = meta[u]
      BY <1>5, <2>3 DEF Write, MetaTypeOK
    <3> QED
      BY <1>6, <2>3, <3>1, <3>2
  <2> QED
    BY <2>2, <2>3
<1>13. Visited'
  <2> SUFFICES ASSUME NEW q \in Tools
               PROVE  /\ pc'[q] \in {"connect", "reading"} => chosen'[q] = {}
                      /\ pc'[q] = "done" => todo'[q] = {}
                      /\ pc'[q] \in Sorted => \A u \in chosen'[q] :
                           /\ u \notin todo'[q] => MovedRow(copy'[q][u], program'[q].dest)
                           /\ u \in todo'[q] => /\ pc'[q] = "path"
                                                /\ At(q, u)'
                                                /\ copy'[q][u].location = program'[q].dest
    BY DEF Visited
  <2>1. CASE q # p
    BY <1>4, <1>6, <1>9, <2>1 DEF Visited, At
  <2>2. CASE q = p
    <3>1. todo'[p] = todo[p] \ {t} /\ chosen'[p] = chosen[p]
      BY <1>4 DEF MetaTypeOK
    <3>2. \A u \in chosen[p] : u \in Tables /\ (u \in todo[p] => At(p, u))
      BY <1>4 DEF Visited, Sorted, MetaTypeOK
    <3>3. \A u \in chosen[p] : u \in todo[p] => u = t
      BY <1>4, <3>2, OneAt
    <3>4. t \in chosen[p] => copy[p][t].location = program[p].dest
      BY <1>4 DEF Visited, Sorted, At
    <3>5. \A u \in chosen[p] : u # t => MovedRow(copy[p][u], program[p].dest)
      BY <1>4, <3>3 DEF Visited, Sorted
    <3>6. t \in chosen[p] => MovedRow(copy'[p][t], program[p].dest)
      BY <1>7, <1>8, <3>4 DEF MovedRow
    <3>7. \A u \in chosen'[p] : u \notin todo'[p] /\ MovedRow(copy'[p][u], program[p].dest)
      <4> SUFFICES ASSUME NEW u \in chosen[p]
                   PROVE  u \notin todo'[p] /\ MovedRow(copy'[p][u], program[p].dest)
        BY <3>1
      <4>1. CASE u = t
        BY <3>1, <3>6, <4>1
      <4>2. CASE u # t
        <5>1. copy'[p][u] = copy[p][u]
          BY <1>6, <3>2, <4>2
        <5> QED
          BY <3>1, <3>3, <3>5, <4>2, <5>1
      <4> QED
        BY <4>1, <4>2
    <3> QED
      BY <1>4, <1>9, <2>2, <3>7
  <2> QED
    BY <2>1, <2>2
<1> QED
  BY <1>6, <1>10, <1>11, <1>12, <1>13

LEMMA FinishStep ==
  ASSUME MetaInv, NEW p \in Tools, Finish(p)
  PROVE  MetaInv'
<1> USE DEF MetaInv, toolVars, sessionVars, Finish
<1>1. MetaTypeOK'
  BY NoTableIsRow, MetastoreAssumption DEF MetaTypeOK, Running, Connected, Unread
<1>2. CopiesAsLoaded'
  BY DEF CopiesAsLoaded, AsLoaded, Known, MetaTypeOK, Unread, NoTable, TableRecord, Tables
<1>3. WritersKnow'
  BY DEF WritersKnow, Sorted, Known, MetaTypeOK, Running, Connected, TableRecord
<1>4. Mirrors'
  BY DEF Mirrors, Sorted, MetaTypeOK, Running, Connected
<1>5. Visited'
  BY DEF Visited, Sorted, MetaTypeOK, Running, Connected, At, Precedes
<1> QED
  BY <1>1, <1>2, <1>3, <1>4, <1>5

LEMMA StartStep ==
  ASSUME MetaInv, NEW p \in Tools, NEW g \in Programs[p], Start(p, g)
  PROVE  MetaInv'
<1>1. g \in Program
  BY MetastoreAssumption
<1>2. /\ program' \in [Tools -> Program]
      /\ \A q \in Tools \ {p} : program'[q] = program[q]
      /\ starts' \in Nat
  BY <1>1 DEF Start, MetaInv, MetaTypeOK
<1> QED
  BY <1>2, ForgetKeeps DEF Start

LEMMA StopStep ==
  ASSUME MetaInv, NEW p \in Tools, Stop(p)
  PROVE  MetaInv'
BY ForgetKeeps DEF Stop, MetaInv, MetaTypeOK

LEMMA OpenHandlerStep ==
  ASSUME MetaInv, NEW s \in Sessions, OpenHandler(s)
  PROVE  MetaInv'
<1> USE DEF MetaInv, toolVars, sessionVars, OpenHandler
<1>1. MetaTypeOK'
  BY NoTableIsRow, MetastoreAssumption DEF MetaTypeOK, Running, Connected, Unread
<1>2. CopiesAsLoaded'
  BY DEF CopiesAsLoaded, AsLoaded, Known, MetaTypeOK, Unread, NoTable, TableRecord, Tables
<1>3. WritersKnow'
  BY DEF WritersKnow, Sorted, Known, MetaTypeOK, Running, Connected, TableRecord
<1>4. Mirrors'
  BY DEF Mirrors, Sorted, MetaTypeOK, Running, Connected
<1>5. Visited'
  BY DEF Visited, Sorted, MetaTypeOK, Running, Connected, At, Precedes
<1> QED
  BY <1>1, <1>2, <1>3, <1>4, <1>5

LEMMA GetTableStep ==
  ASSUME MetaInv, NEW s \in Sessions, NEW t \in Tables, GetTable(s, t)
  PROVE  MetaInv'
<1> USE DEF MetaInv, toolVars, sessionVars, GetTable
<1>1. MetaTypeOK'
  BY NoTableIsRow, MetastoreAssumption DEF MetaTypeOK, Running, Connected, Unread
<1>2. CopiesAsLoaded'
  BY DEF CopiesAsLoaded, AsLoaded, Known, MetaTypeOK, Unread, NoTable, TableRecord, Tables
<1>3. WritersKnow'
  BY DEF WritersKnow, Sorted, Known, MetaTypeOK, Running, Connected, TableRecord
<1>4. Mirrors'
  BY DEF Mirrors, Sorted, MetaTypeOK, Running, Connected
<1>5. Visited'
  BY DEF Visited, Sorted, MetaTypeOK, Running, Connected, At, Precedes
<1> QED
  BY <1>1, <1>2, <1>3, <1>4, <1>5

LEMMA AddStatisticsStep ==
  ASSUME MetaInv, NEW s \in Sessions, AddStatistics(s)
  PROVE  MetaInv'
<1> USE DEF MetaInv, toolVars
<1> DEFINE dir == files[held[s].location][subject[s]]
           row == [held[s] EXCEPT !.size = dir.size, !.groups = dir.groups]
<1>1. /\ subject[s] \in Tables /\ stage[s] = "idle"
      /\ UNCHANGED <<meta, files, up, toolVars, link, inserted, foreign>>
  BY DEF AddStatistics, MetaTypeOK
<1>2. held[s] \in TableRecord /\ dir \in Directory
  BY <1>1 DEF MetaTypeOK, TableRecord
<1>3. row \in TableRecord /\ row.size = dir.size /\ row.groups = dir.groups
  BY <1>2 DEF TableRecord, Directory
<1>4. Mirrors' /\ Visited'
  BY <1>1 DEF Mirrors, Visited, At
<1>5. CASE dir.groups > 0
  <2>1. held' = [held EXCEPT ![s] = row] /\ stage' = [stage EXCEPT ![s] = "adding"]
        /\ UNCHANGED subject
    BY <1>5 DEF AddStatistics
  <2> HIDE DEF row
  <2>2. /\ held' \in [Sessions -> TableRecord] /\ held'[s] = row
        /\ \A q \in Sessions \ {s} : held'[q] = held[q] /\ stage'[q] = stage[q]
    BY <1>3, <2>1 DEF MetaTypeOK
  <2>3. MetaTypeOK'
    BY <1>1, <2>1, <2>2 DEF MetaTypeOK
  <2>4. subject[s] \notin inserted => dir = Loaded[subject[s]]
    BY <1>1, <1>2 DEF CopiesAsLoaded, TableRecord
  <2>5. subject[s] \notin inserted => AsLoaded(row, subject[s])
    BY <1>3, <2>4 DEF AsLoaded
  <2>6. CopiesAsLoaded'
    BY <1>1, <2>1, <2>2, <2>5 DEF CopiesAsLoaded, AsLoaded, Known
  <2>7. Known(row)
    BY <1>3, <1>5 DEF Known
  <2>8. WritersKnow'
    BY <1>1, <2>1, <2>2, <2>7 DEF WritersKnow, Known
  <2> QED
    BY <1>4, <2>3, <2>6, <2>8
<1>6. CASE ~(dir.groups > 0)
  <2>1. Answered(s)
    BY <1>6 DEF AddStatistics
  <2> QED
    BY <1>1, <1>4, <2>1, AnsweredKeeps DEF WritersKnow, CopiesAsLoaded, MetaTypeOK
<1> QED
  BY <1>5, <1>6

LEMMA ForwardAlterStep ==
  ASSUME MetaInv, NEW s \in Sessions, ForwardAlter(s)
  PROVE  MetaInv'
<1> USE DEF MetaInv, toolVars
<1> DEFINE t == subject[s]
<1>1. /\ t \in Tables /\ Write(s, t, held[s]) /\ Answered(s)
      /\ UNCHANGED <<files, up, toolVars, link, inserted>>
  BY DEF ForwardAlter, WritersKnow
<1>2. held[s] \in TableRecord
  BY DEF MetaTypeOK
<1> HIDE DEF t
<1>3. /\ meta' \in [Tables -> TableRecord] /\ meta'[t] = held[s]
      /\ \A u \in Tables \ {t} : meta'[u] = meta[u]
  BY <1>1, <1>2 DEF Write, MetaTypeOK
<1>4. \A p \in Tools : foreign'[p] = foreign[p] \cup {t}
  BY <1>1, MetastoreAssumption DEF Write
<1>5. foreign' \in [Tools -> SUBSET Tables]
  BY <1>1 DEF Write, MetaTypeOK
<1>6. t \notin inserted => AsLoaded(meta'[t], t)
  BY <1>1, <1>3 DEF CopiesAsLoaded, t
<1>7. \A u \in Tables \ inserted : AsLoaded(meta'[u], u)
  BY <1>3, <1>6 DEF CopiesAsLoaded
<1>8. Mirrors'
  BY <1>1, <1>3, <1>4 DEF Mirrors
<1>9. Visited' /\ \A p \in Tools : pc'[p] \in Sorted => \A u \in Tables : Known(copy'[p][u])
  BY <1>1 DEF Visited, At, WritersKnow
<1> QED
  BY <1>1, <1>3, <1>5, <1>7, <1>8, <1>9, AnsweredKeeps DEF MetaTypeOK

LEMMA HandlerEndsStep ==
  ASSUME MetaInv, NEW s \in Sessions, HandlerEnds(s)
  PROVE  MetaInv'
<1> USE DEF MetaInv, toolVars
<1>1. /\ Answered(s)
      /\ link' \in [Sessions -> {"closed", "open"}]
      /\ UNCHANGED <<meta, files, up, toolVars, inserted, foreign>>
  BY DEF HandlerEnds, MetaTypeOK
<1>2. Mirrors' /\ Visited' /\ meta' \in [Tables -> TableRecord]
      /\ foreign' \in [Tools -> SUBSET Tables]
  BY <1>1 DEF Mirrors, Visited, At, MetaTypeOK
<1>3. \A u \in Tables \ inserted : AsLoaded(meta'[u], u)
  BY <1>1 DEF CopiesAsLoaded
<1>4. \A p \in Tools : pc'[p] \in Sorted => \A u \in Tables : Known(copy'[p][u])
  BY <1>1 DEF WritersKnow
<1> QED
  BY <1>1, <1>2, <1>3, <1>4, AnsweredKeeps

LEMMA InsertStep ==
  ASSUME MetaInv, NEW t \in Tables, Insert(t)
  PROVE  MetaInv'
<1> USE DEF MetaInv, toolVars, sessionVars, Insert
<1>1. MetaTypeOK'
  <2>1. meta[t].location \in DataCenters
    BY DEF MetaTypeOK, TableRecord
  <2>2. PICK g \in {NewFile.groups, files[meta[t].location][t].groups} :
          files' = [files EXCEPT ![meta[t].location][t] =
                      [size |-> files[meta[t].location][t].size + NewFile.size, groups |-> g]]
    OBVIOUS
  <2>3. files[meta[t].location][t] \in Directory
    BY <2>1 DEF MetaTypeOK
  <2>4. [size |-> files[meta[t].location][t].size + NewFile.size, groups |-> g] \in Directory
    BY <2>3, MetastoreAssumption DEF Directory
  <2>5. files' \in [DataCenters -> [Tables -> Directory]]
    BY <2>1, <2>2, <2>4 DEF MetaTypeOK
  <2> QED
    BY <2>5 DEF MetaTypeOK
<1>2. CopiesAsLoaded'
  BY DEF CopiesAsLoaded, AsLoaded, Known, MetaTypeOK, Unread, NoTable, TableRecord, Tables
<1>3. WritersKnow'
  BY DEF WritersKnow, Sorted, Known, MetaTypeOK, Running, Connected, TableRecord
<1>4. Mirrors'
  BY DEF Mirrors, Sorted, MetaTypeOK, Running, Connected
<1>5. Visited'
  BY DEF Visited, Sorted, MetaTypeOK, Running, Connected, At, Precedes
<1> QED
  BY <1>1, <1>2, <1>3, <1>4, <1>5

LEMMA DownStep ==
  ASSUME MetaInv, Down
  PROVE  MetaInv'
<1> USE DEF MetaInv, toolVars, sessionVars, Down
<1>1. MetaTypeOK'
  BY NoTableIsRow, MetastoreAssumption DEF MetaTypeOK, Running, Connected, Unread
<1>2. CopiesAsLoaded'
  BY DEF CopiesAsLoaded, AsLoaded, Known, MetaTypeOK, Unread, NoTable, TableRecord, Tables
<1>3. WritersKnow'
  BY DEF WritersKnow, Sorted, Known, MetaTypeOK, Running, Connected, TableRecord
<1>4. Mirrors'
  BY DEF Mirrors, Sorted, MetaTypeOK, Running, Connected
<1>5. Visited'
  BY DEF Visited, Sorted, MetaTypeOK, Running, Connected, At, Precedes
<1> QED
  BY <1>1, <1>2, <1>3, <1>4, <1>5

LEMMA UpStep ==
  ASSUME MetaInv, Up
  PROVE  MetaInv'
<1> USE DEF MetaInv, toolVars, sessionVars, Up
<1>1. MetaTypeOK'
  BY NoTableIsRow, MetastoreAssumption DEF MetaTypeOK, Running, Connected, Unread
<1>2. CopiesAsLoaded'
  BY DEF CopiesAsLoaded, AsLoaded, Known, MetaTypeOK, Unread, NoTable, TableRecord, Tables
<1>3. WritersKnow'
  BY DEF WritersKnow, Sorted, Known, MetaTypeOK, Running, Connected, TableRecord
<1>4. Mirrors'
  BY DEF Mirrors, Sorted, MetaTypeOK, Running, Connected
<1>5. Visited'
  BY DEF Visited, Sorted, MetaTypeOK, Running, Connected, At, Precedes
<1> QED
  BY <1>1, <1>2, <1>3, <1>4, <1>5

LEMMA MetaStep == MetaInv /\ [MetaNext]_metaVars => MetaInv'
<1> SUFFICES ASSUME MetaInv, [MetaNext]_metaVars PROVE MetaInv'
  OBVIOUS
<1>1. CASE \E p \in Tools : (\E g \in Programs[p] : Start(p, g)) \/ ToolStep(p) \/ Stop(p)
  BY <1>1, StartStep, StopStep, OpenMetastoreStep, SortStep, FinishStep, ReadTableStep,
     SkipStep, AlterLocationStep, AlterPathStep DEF ToolStep
<1>2. CASE \E s \in Sessions : SessionStep(s)
  BY <1>2, OpenHandlerStep, GetTableStep, AddStatisticsStep, ForwardAlterStep,
     HandlerEndsStep DEF SessionStep
<1>3. CASE (\E t \in Tables : Insert(t)) \/ Down \/ Up
  BY <1>3, InsertStep, DownStep, UpStep
<1>4. CASE UNCHANGED metaVars
  <2>1. MetaTypeOK' /\ CopiesAsLoaded'
    BY <1>4 DEF MetaInv, metaVars, toolVars, sessionVars, MetaTypeOK, CopiesAsLoaded, AsLoaded
  <2>2. WritersKnow' /\ Mirrors' /\ Visited'
    BY <1>4 DEF MetaInv, metaVars, toolVars, sessionVars, WritersKnow, Mirrors, Visited, At
  <2> QED
    BY <2>1, <2>2 DEF MetaInv
<1> QED
  BY <1>1, <1>2, <1>3, <1>4 DEF MetaNext

LEMMA MetaAlways == MetaSpec => []MetaInv
BY MetaStarts, MetaStep, PTL DEF MetaSpec

-----------------------------------------------------------------------------
\* The variables of Metastore keep their types.
THEOREM MetaTypeCorrect == MetaSpec => []MetaTypeOK
<1>1. MetaInv => MetaTypeOK
  BY DEF MetaInv
<1> QED
  BY <1>1, MetaAlways, PTL

\* A tool that ends has moved what it chose, whatever was left half moved before
\* and whatever runs beside it.
THEOREM RunsMoveTables == MetaSpec => []DoneIsMoved
<1>1. MetaInv => DoneIsMoved
  <2> SUFFICES ASSUME MetaInv, NEW p \in Tools, pc[p] = "done",
                      NEW t \in chosen[p] \ foreign[p]
               PROVE  MovedRow(meta[t], program[p].dest)
    BY DEF DoneIsMoved, MovedRow
  <2>1. t \in Tables
    BY DEF MetaInv, MetaTypeOK
  <2>2. MovedRow(copy[p][t], program[p].dest)
    BY DEF MetaInv, Visited, Sorted
  <2>3. copy[p][t] = meta[t]
    BY <2>1 DEF MetaInv, Mirrors, Sorted
  <2> QED
    BY <2>2, <2>3
<1> QED
  BY <1>1, MetaAlways, PTL

\* Racing writers do no harm to the statistics of tables whose files stay.
THEOREM StatisticsOfLoadedFiles == MetaSpec => []LoadedStatistics
<1>1. MetaInv => LoadedStatistics
  BY DEF MetaInv, CopiesAsLoaded, AsLoaded, LoadedStatistics
<1> QED
  BY <1>1, MetaAlways, PTL

\* Nobody writes back a table without statistics.
THEOREM StatisticsAreKept == MetaSpec => StatisticsStay
<1>1. MetaInv /\ [MetaNext]_metaVars =>
        [\A t \in Tables : Known(meta[t]) => Known(meta'[t])]_metaVars
  <2> SUFFICES ASSUME MetaInv, MetaNext, NEW t \in Tables, Known(meta[t])
               PROVE  Known(meta'[t])
    BY DEF StatisticsStay
  <2>1. ASSUME NEW p \in Tools, NEW u \in Tables, AlterLocation(p, u) \/ AlterPath(p, u)
        PROVE  Known(meta'[t])
    <3>1. pc[p] \in Sorted /\ \A q \in Tables : Known(copy[p][q])
      BY <2>1 DEF AlterLocation, AlterPath, MetaInv, WritersKnow, Sorted
    <3>2. copy'[p][u].groups = copy[p][u].groups
      <4>1. \/ copy' = copy
            \/ copy' = [copy EXCEPT ![p][u].location = program[p].dest]
            \/ copy' = [copy EXCEPT ![p][u].path = program[p].dest]
        BY <2>1 DEF AlterLocation, AlterPath
      <4>2. copy[p][u] \in TableRecord /\ copy \in [Tools -> [Tables -> TableRecord]]
        BY DEF MetaInv, MetaTypeOK
      <4>3. \/ copy'[p][u] = copy[p][u]
            \/ copy'[p][u] = [copy[p][u] EXCEPT !.location = program[p].dest]
            \/ copy'[p][u] = [copy[p][u] EXCEPT !.path = program[p].dest]
        BY <4>1, <4>2
      <4> QED
        BY <4>2, <4>3 DEF TableRecord
    <3>3. \/ meta' = meta
          \/ meta' = [meta EXCEPT ![u] = copy'[p][u]]
      BY <2>1 DEF AlterLocation, AlterPath, Write
    <3> QED
      BY <3>1, <3>2, <3>3 DEF MetaInv, MetaTypeOK, Known
  <2>2. ASSUME NEW s \in Sessions, ForwardAlter(s)
        PROVE  Known(meta'[t])
    BY <2>2 DEF ForwardAlter, Write, MetaInv, WritersKnow, MetaTypeOK
  <2>3. CASE UNCHANGED meta
    BY <2>3
  <2>4. \/ UNCHANGED meta
        \/ \E p \in Tools, u \in Tables : AlterLocation(p, u) \/ AlterPath(p, u)
        \/ \E s \in Sessions : ForwardAlter(s)
    BY DEF MetaNext, ToolStep, SessionStep, Start, Stop, OpenMetastore, Sort, Finish,
           ReadTable, Skip, OpenHandler, GetTable, AddStatistics, HandlerEnds, Insert,
           Down, Up
  <2> QED
    BY <2>1, <2>2, <2>3, <2>4
<1> QED
  BY <1>1, MetaAlways, PTL DEF MetaSpec, StatisticsStay

-----------------------------------------------------------------------------
(***************************************************************************)
(* The bytes of a set of tables.                                           *)
(***************************************************************************)
LEMMA TablesFinite ==
  ASSUME NEW S \in SUBSET Tables
  PROVE  IsFiniteSet(S) /\ Cardinality(S) \in Nat
<1>1. IsFiniteSet(Tables)
  BY FS_Interval, MetastoreAssumption DEF Tables
<1> QED
  BY <1>1, FS_Subset, FS_CardinalityType

LEMMA BytesOfNone == \A c : Bytes(c, {}) = 0
<1> TAKE c
<1>1. UNION {{t} \X (1 .. c[t].size) : t \in {}} = {}
  OBVIOUS
<1> QED
  BY <1>1, FS_EmptySet DEF Bytes

LEMMA BytesOfOne ==
  ASSUME NEW t, NEW n \in Nat
  PROVE  IsFiniteSet({t} \X (1 .. n)) /\ Cardinality({t} \X (1 .. n)) = n
<1>1. IsFiniteSet({t}) /\ Cardinality({t}) = 1
  BY FS_Singleton, Zenon
<1>2. IsFiniteSet(1 .. n) /\ Cardinality(1 .. n) = n
  BY FS_Interval
<1>3. /\ IsFiniteSet({t} \X (1 .. n))
      /\ Cardinality({t} \X (1 .. n)) = Cardinality({t}) * Cardinality(1 .. n)
  BY <1>1, <1>2, FS_Product, Zenon
<1> QED
  BY <1>1, <1>2, <1>3

LEMMA BytesFinite ==
  ASSUME NEW c \in [Tables -> TableRecord], NEW S \in SUBSET Tables
  PROVE  IsFiniteSet(UNION {{t} \X (1 .. c[t].size) : t \in S}) /\ Bytes(c, S) \in Nat
<1> DEFINE part(t) == {t} \X (1 .. c[t].size)
           parts == {part(t) : t \in S}
<1>1. \A t \in S : IsFiniteSet(part(t))
  <2> TAKE t \in S
  <2>1. c[t].size \in Nat
    BY DEF TableRecord
  <2> QED
    BY <2>1, BytesOfOne
<1> HIDE DEF part
<1>2. IsFiniteSet(parts)
  <2> DEFINE f == [t \in S |-> part(t)]
  <2>1. f \in Surjection(S, parts)
    <3>1. f \in [S -> parts] /\ \A x \in parts : \E t \in S : f[t] = x
      OBVIOUS
    <3> HIDE DEF f
    <3> QED
      BY <3>1 DEF Surjection
  <2> HIDE DEF f
  <2> QED
    BY <2>1, TablesFinite, FS_Surjection
<1>3. IsFiniteSet(UNION parts)
  BY <1>1, <1>2, FS_UNION
<1> QED
  BY <1>3, FS_CardinalityType DEF Bytes, part

\* One table more.
LEMMA BytesAdd ==
  ASSUME NEW c \in [Tables -> TableRecord], NEW S \in SUBSET Tables, NEW t \in Tables \ S
  PROVE  Bytes(c, S \cup {t}) = Bytes(c, S) + c[t].size
<1> DEFINE A == UNION {{u} \X (1 .. c[u].size) : u \in S}
           B == {t} \X (1 .. c[t].size)
<1>1. UNION {{u} \X (1 .. c[u].size) : u \in S \cup {t}} = A \cup B
  OBVIOUS
<1>2. A \cap B = {}
  OBVIOUS
<1>3. c[t].size \in Nat
  BY DEF TableRecord
<1>4. IsFiniteSet(B) /\ Cardinality(B) = c[t].size
  BY <1>3, BytesOfOne
<1>5. IsFiniteSet(A) /\ Cardinality(A) = Bytes(c, S)
  BY BytesFinite DEF Bytes
<1>6. Cardinality(A) \in Nat
  BY <1>5, BytesFinite
<1> HIDE DEF A, B
<1>7. Cardinality(A \cup B) = Cardinality(A) + Cardinality(B)
  <2>1. Cardinality(A \cup B) = Cardinality(A) + Cardinality(B) - Cardinality(A \cap B)
    BY <1>4, <1>5, FS_Union, Zenon
  <2>2. Cardinality(A \cap B) = 0
    BY <1>2, FS_EmptySet, Zenon
  <2> QED
    BY <1>3, <1>4, <1>6, <2>1, <2>2
<1> QED
  BY <1>1, <1>4, <1>5, <1>7 DEF Bytes

\* Only the sizes matter.
LEMMA BytesOfSizes ==
  ASSUME NEW c, NEW d, NEW S, \A t \in S : c[t].size = d[t].size
  PROVE  Bytes(c, S) = Bytes(d, S)
<1>1. {{t} \X (1 .. c[t].size) : t \in S} = {{t} \X (1 .. d[t].size) : t \in S}
  OBVIOUS
<1> QED
  BY <1>1 DEF Bytes

-----------------------------------------------------------------------------
(***************************************************************************)
(* A split, table by table.                                                *)
(***************************************************************************)
Even(n) == n % 2 = 0

\* What a split run of the sorted tables has moved and left when the tables in
\* `left` are still to be visited.  After an even number of tables both sides
\* are level but for what the largest table is larger than those to come; after
\* an odd number the moved side is ahead, by at least any table to come.
Balance(c, left, ch) ==
  LET seen  == Tables \ left
      moved == Bytes(c, seen \cap ch)
      rest  == Bytes(c, seen \ ch)
  IN  /\ rest <= moved
      /\ seen # {} => \E t \in Tables :
           /\ moved <= rest + c[t].size
           /\ Even(Cardinality(seen)) =>
                \A u \in left : moved + c[u].size <= rest + c[t].size
      /\ ~ Even(Cardinality(seen)) => \A u \in left : rest + c[u].size <= moved

SplitRuns(p) == pc[p] \in Sorted /\ program[p].kind = "split"

\* The table of the first of the two calls is chosen, and has an even index.
Level ==
  \A p \in Tools : SplitRuns(p) =>
    /\ Balance(copy[p], todo[p], chosen[p])
    /\ pc[p] = "path" => /\ Even(Cardinality(Tables \ todo[p]))
                         /\ chosen[p] \cap todo[p] # {}

LEMMA Parity ==
  ASSUME NEW n \in Nat
  PROVE  Even(0) /\ (Even(n + 1) <=> ~ Even(n))
BY DEF Even

LEMMA SeenGrows ==
  ASSUME NEW left \in SUBSET Tables, NEW t \in left
  PROVE  /\ Tables \ (left \ {t}) = (Tables \ left) \cup {t}
         /\ Even(Cardinality(Tables \ (left \ {t}))) <=> ~ Even(Cardinality(Tables \ left))
<1>1. Tables \ (left \ {t}) = (Tables \ left) \cup {t}
  OBVIOUS
<1>2. /\ IsFiniteSet(Tables \ left) /\ Cardinality(Tables \ left) \in Nat
  BY TablesFinite
<1>3. Cardinality((Tables \ left) \cup {t}) = Cardinality(Tables \ left) + 1
  BY <1>2, FS_AddElement
<1> QED
  BY <1>1, <1>2, <1>3, Parity

\* A table of an even index is moved.
LEMMA MoveLevels ==
  ASSUME NEW c \in [Tables -> TableRecord], NEW left \in SUBSET Tables,
         NEW ch \in SUBSET Tables, NEW t \in left, t \in ch,
         \A u \in left : c[u].size <= c[t].size,
         Even(Cardinality(Tables \ left)), Balance(c, left, ch)
  PROVE  Balance(c, left \ {t}, ch)
<1> DEFINE seen  == Tables \ left
           moved == Bytes(c, seen \cap ch)
           rest  == Bytes(c, seen \ ch)
           next  == Tables \ (left \ {t})
<1>1. next = seen \cup {t} /\ ~ Even(Cardinality(next))
  BY SeenGrows
<1>2. next \cap ch = (seen \cap ch) \cup {t} /\ next \ ch = seen \ ch
  OBVIOUS
<1>3. \A u \in Tables : c[u].size \in Nat
  BY DEF TableRecord
<1>4. Bytes(c, next \cap ch) = moved + c[t].size /\ Bytes(c, next \ ch) = rest
  <2>1. t \in Tables \ (seen \cap ch)
    OBVIOUS
  <2>2. Bytes(c, (seen \cap ch) \cup {t}) = moved + c[t].size
    BY <2>1, BytesAdd
  <2> QED
    BY <1>2, <2>2
<1>5. moved \in Nat /\ rest \in Nat
  BY BytesFinite
<1>6. /\ rest <= moved
      /\ seen # {} => \E v \in Tables : \A u \in left : moved + c[u].size <= rest + c[v].size
  BY DEF Balance
<1>7. seen = {} => moved = 0
  <2>1. seen = {} => seen \cap ch = {}
    OBVIOUS
  <2> QED
    BY <2>1, BytesOfNone
<1> HIDE DEF seen, moved, rest, next
<1>8. \E v \in Tables : moved + c[t].size <= rest + c[v].size
  BY <1>3, <1>5, <1>6, <1>7
<1>9. \A u \in left : u \in Tables /\ rest + c[u].size <= moved + c[t].size
  BY <1>3, <1>5, <1>6
<1>10. rest <= moved + c[t].size
  BY <1>3, <1>5, <1>6
<1> QED
  BY <1>1, <1>4, <1>8, <1>9, <1>10 DEF Balance, next

\* A table of an odd index is left.
LEMMA LeaveLevels ==
  ASSUME NEW c \in [Tables -> TableRecord], NEW left \in SUBSET Tables,
         NEW ch \in SUBSET Tables, NEW t \in left, t \notin ch,
         \A u \in left : c[u].size <= c[t].size,
         ~ Even(Cardinality(Tables \ left)), Balance(c, left, ch)
  PROVE  Balance(c, left \ {t}, ch)
<1> DEFINE seen  == Tables \ left
           moved == Bytes(c, seen \cap ch)
           rest  == Bytes(c, seen \ ch)
           next  == Tables \ (left \ {t})
<1>1. next = seen \cup {t} /\ Even(Cardinality(next))
  BY SeenGrows
<1>2. next \cap ch = seen \cap ch /\ next \ ch = (seen \ ch) \cup {t}
  OBVIOUS
<1>3. \A u \in Tables : c[u].size \in Nat
  BY DEF TableRecord
<1>4. Bytes(c, next \cap ch) = moved /\ Bytes(c, next \ ch) = rest + c[t].size
  <2>1. t \in Tables \ (seen \ ch)
    OBVIOUS
  <2>2. Bytes(c, (seen \ ch) \cup {t}) = rest + c[t].size
    BY <2>1, BytesAdd
  <2> QED
    BY <1>2, <2>2
<1>5. moved \in Nat /\ rest \in Nat
  BY BytesFinite
<1>6. seen # {}
  <2>1. seen = {} => Cardinality(seen) = 0
    BY FS_EmptySet
  <2> QED
    BY <2>1, Parity
<1>7. PICK v \in Tables : moved <= rest + c[v].size
  BY <1>6 DEF Balance
<1>8. rest + c[t].size <= moved
  BY DEF Balance
<1> HIDE DEF seen, moved, rest, next
<1>9. /\ moved <= rest + c[t].size + c[v].size
      /\ \A u \in left : moved + c[u].size <= rest + c[t].size + c[v].size
  BY <1>3, <1>5, <1>7
<1> QED
  BY <1>1, <1>4, <1>8, <1>9 DEF Balance, next

\* Only the sizes of the copies matter, and only which of the visited are chosen.
LEMMA BalanceFrame ==
  ASSUME NEW c, NEW d, NEW left, NEW ch, NEW dh, Balance(c, left, ch), left \subseteq Tables,
         \A t \in Tables : d[t].size = c[t].size,
         (Tables \ left) \cap ch = (Tables \ left) \cap dh
  PROVE  Balance(d, left, dh)
<1> DEFINE seen == Tables \ left
<1>1. seen \ ch = seen \ dh
  OBVIOUS
<1>2. Bytes(d, seen \cap dh) = Bytes(c, seen \cap ch)
  BY BytesOfSizes
<1>3. Bytes(d, seen \ dh) = Bytes(c, seen \ ch)
  BY <1>1, BytesOfSizes
<1> QED
  BY <1>2, <1>3 DEF Balance

LEMMA BalanceStarts == \A c, ch : Balance(c, Tables, ch)
<1> TAKE c, ch
<1>1. Tables \ Tables = {} /\ {} \cap ch = {} /\ {} \ ch = {}
  OBVIOUS
<1>2. Cardinality({}) = 0
  BY FS_EmptySet
<1> QED
  BY <1>1, <1>2, BytesOfNone, Parity DEF Balance

\* A tool that writes does not change the sizes in its copy.
LEMMA SizesStay ==
  ASSUME MetaInv, NEW p \in Tools, NEW t \in Tables, AlterLocation(p, t) \/ AlterPath(p, t)
  PROVE  \A u \in Tables : copy'[p][u].size = copy[p][u].size
<1>1. \/ copy' = copy
      \/ copy' = [copy EXCEPT ![p][t].location = program[p].dest]
      \/ copy' = [copy EXCEPT ![p][t].path = program[p].dest]
  BY DEF AlterLocation, AlterPath
<1>2. copy[p][t] \in TableRecord /\ copy \in [Tools -> [Tables -> TableRecord]]
  BY DEF MetaInv, MetaTypeOK
<1>3. \A u \in Tables \ {t} : copy'[p][u] = copy[p][u]
  BY <1>1, <1>2
<1>4. \/ copy'[p][t] = copy[p][t]
      \/ copy'[p][t] = [copy[p][t] EXCEPT !.location = program[p].dest]
      \/ copy'[p][t] = [copy[p][t] EXCEPT !.path = program[p].dest]
  BY <1>1, <1>2
<1>5. copy'[p][t].size = copy[p][t].size
  BY <1>2, <1>4 DEF TableRecord
<1> QED
  BY <1>3, <1>5

LevelAt(p) ==
  /\ Balance(copy[p], todo[p], chosen[p])
  /\ pc[p] = "path" => /\ Even(Cardinality(Tables \ todo[p]))
                       /\ chosen[p] \cap todo[p] # {}

\* What a run of a tool does to its own split.
LEMMA OwnSplit ==
  ASSUME MetaInv, NEW p \in Tools, ToolStep(p), SplitRuns(p) => LevelAt(p), SplitRuns(p)'
  PROVE  LevelAt(p)'
<1> USE DEF MetaInv
<1>1. MetaTypeOK'
  <2>1. MetaNext
    BY DEF MetaNext
  <2> QED
    BY <2>1, MetaStep
<1>2. /\ copy[p] \in [Tables -> TableRecord] /\ todo[p] \in SUBSET Tables
      /\ chosen[p] \in SUBSET Tables
      /\ \A t \in Tables : copy[p][t].size \in Nat
  BY DEF MetaTypeOK, TableRecord
<1>3. CASE Sort(p)
  <2>1. pc'[p] = "location" /\ todo'[p] = Tables
    BY <1>3 DEF Sort, SplitRuns, Sorted, MetaTypeOK
  <2> QED
    BY <2>1, BalanceStarts DEF LevelAt
<1>4. CASE Finish(p)
  <2>1. /\ pc[p] = "location" /\ pc'[p] = "done"
        /\ UNCHANGED <<copy, todo, chosen, program>>
    BY <1>4 DEF Finish, MetaTypeOK
  <2> QED
    BY <2>1 DEF LevelAt, SplitRuns, Sorted
<1>5. ASSUME NEW t \in Tables, Skip(p, t) PROVE LevelAt(p)'
  <2>1. /\ pc[p] = "location" /\ pc'[p] = "location" /\ todo'[p] = todo[p] \ {t}
        /\ UNCHANGED <<copy, chosen, program>> /\ t \in todo[p]
        /\ \A u \in todo[p] : copy[p][u].size <= copy[p][t].size
    BY <1>2, <1>5 DEF Skip, MetaTypeOK, At, Precedes
  <2>2. LevelAt(p) /\ ~ Even(Cardinality(Tables \ todo[p]))
    BY <1>5, <2>1 DEF SplitRuns, Sorted, Skip, Picks, Even
  <2>3. t \notin chosen[p]
    BY <2>1 DEF Visited, Sorted
  <2>4. Balance(copy[p], todo[p] \ {t}, chosen[p])
    BY <1>2, <2>1, <2>2, <2>3, LeaveLevels DEF LevelAt
  <2> QED
    BY <2>1, <2>4 DEF LevelAt
<1>6. ASSUME NEW t \in Tables, AlterLocation(p, t) PROVE LevelAt(p)'
  <2>1. /\ pc[p] = "location" /\ pc'[p] = "path" /\ UNCHANGED <<todo, program>> /\ t \in todo[p]
        /\ chosen'[p] = chosen[p] \cup {t}
    BY <1>6 DEF AlterLocation, MetaTypeOK, At
  <2>2. LevelAt(p) /\ Even(Cardinality(Tables \ todo[p]))
    BY <1>6, <2>1 DEF SplitRuns, Sorted, AlterLocation, Picks, Even
  <2>3. \A u \in Tables : copy'[p][u].size = copy[p][u].size
    BY <1>6, SizesStay
  <2>4. Balance(copy'[p], todo[p], chosen'[p])
    BY <1>2, <2>1, <2>2, <2>3, BalanceFrame DEF LevelAt
  <2> QED
    BY <2>1, <2>2, <2>4 DEF LevelAt
<1>7. ASSUME NEW t \in Tables, AlterPath(p, t) PROVE LevelAt(p)'
  <2>1. /\ pc[p] = "path" /\ pc'[p] = "location" /\ UNCHANGED <<chosen, program>> /\ t \in todo[p]
        /\ todo'[p] = todo[p] \ {t}
        /\ \A u \in todo[p] : copy[p][u].size <= copy[p][t].size
    <3>1. At(p, t) /\ pc[p] = "path" /\ UNCHANGED <<chosen, program>>
      BY <1>7 DEF AlterPath
    <3>2. pc'[p] = "location" /\ todo'[p] = todo[p] \ {t}
      BY <1>7 DEF AlterPath, MetaTypeOK
    <3>3. t \in todo[p] /\ \A u \in todo[p] : copy[p][u].size <= copy[p][t].size
      BY <1>2, <3>1 DEF At, Precedes
    <3> QED
      BY <3>1, <3>2, <3>3
  <2>2. LevelAt(p)
    BY <2>1 DEF SplitRuns, Sorted
  <2>3. t \in chosen[p]
    <3>1. PICK u \in chosen[p] \cap todo[p] : TRUE
      BY <2>1, <2>2 DEF LevelAt
    <3>2. u \in Tables /\ At(p, u) /\ At(p, t)
      BY <1>2, <1>7, <2>1, <3>1 DEF Visited, Sorted, AlterPath
    <3>3. u = t
      BY <3>2, OneAt
    <3> QED
      BY <3>1, <3>3
  <2>4. Balance(copy[p], todo[p] \ {t}, chosen[p])
    BY <1>2, <2>1, <2>2, <2>3, MoveLevels DEF LevelAt
  <2>5. \A u \in Tables : copy'[p][u].size = copy[p][u].size
    BY <1>7, SizesStay
  <2>6. todo[p] \ {t} \subseteq Tables
    BY <1>2
  <2>7. Balance(copy'[p], todo[p] \ {t}, chosen[p])
    BY <2>4, <2>5, <2>6, BalanceFrame
  <2> QED
    BY <2>1, <2>7 DEF LevelAt
<1>8. ~ (OpenMetastore(p) \/ \E t \in Tables : ReadTable(p, t))
  BY DEF SplitRuns, Sorted, OpenMetastore, ReadTable, MetaTypeOK
<1> QED
  BY <1>3, <1>4, <1>5, <1>6, <1>7, <1>8 DEF ToolStep

\* What anybody else does leaves a split alone, or stops it.
LEMMA OtherSplit ==
  ASSUME MetaInv, NEW p \in Tools, [MetaNext]_metaVars, ~ ToolStep(p), SplitRuns(p)'
  PROVE  /\ pc'[p] = pc[p] /\ program'[p] = program[p]
         /\ copy'[p] = copy[p] /\ todo'[p] = todo[p] /\ chosen'[p] = chosen[p]
<1> USE DEF MetaInv, MetaTypeOK, toolVars, sessionVars
<1>1. ASSUME NEW q \in Tools, ToolStep(q) PROVE q # p
  BY <1>1
<1>2. CASE \E q \in Tools : ToolStep(q)
  <2>1. PICK q \in Tools : ToolStep(q) /\ q # p
    BY <1>1, <1>2
  <2> QED
    BY <2>1 DEF ToolStep, OpenMetastore, Sort, Forget, Finish, ReadTable, Skip, AlterLocation,
                AlterPath
<1>3. CASE \E q \in Tools : (\E g \in Programs[q] : Start(q, g)) \/ Stop(q)
  BY <1>3 DEF Start, Stop, Forget, SplitRuns, Sorted
<1>4. CASE Down
  BY <1>4 DEF Down, SplitRuns, Sorted
<1>5. CASE \/ \E s \in Sessions : SessionStep(s)
           \/ \E t \in Tables : Insert(t)
           \/ Up
           \/ UNCHANGED metaVars
  <2>1. UNCHANGED toolVars
    BY <1>5 DEF SessionStep, OpenHandler, GetTable, AddStatistics, ForwardAlter, HandlerEnds,
                Insert, Up, metaVars
  <2> QED
    BY <2>1
<1> QED
  BY <1>2, <1>3, <1>4, <1>5 DEF MetaNext

LEMMA LevelStep == MetaInv /\ Level /\ [MetaNext]_metaVars => Level'
<1> SUFFICES ASSUME MetaInv, Level, [MetaNext]_metaVars, NEW p \in Tools, SplitRuns(p)'
             PROVE  LevelAt(p)'
  BY DEF Level, LevelAt
<1>1. SplitRuns(p) => LevelAt(p)
  BY DEF Level, LevelAt
<1>2. CASE ToolStep(p)
  BY <1>1, <1>2, OwnSplit
<1>3. CASE ~ ToolStep(p)
  <2>1. /\ pc'[p] = pc[p] /\ program'[p] = program[p]
        /\ copy'[p] = copy[p] /\ todo'[p] = todo[p] /\ chosen'[p] = chosen[p]
    BY <1>3, OtherSplit
  <2>2. SplitRuns(p)
    BY <2>1 DEF SplitRuns
  <2> QED
    BY <1>1, <2>1, <2>2 DEF LevelAt
<1> QED
  BY <1>2, <1>3

\* Every split is even up to the largest table, however many tables there are and
\* whatever their sizes, and whoever writes the tables meanwhile.
THEOREM SplitsAreEven == MetaSpec => []SplitBalances
<1>1. MetaInit => Level
  BY DEF MetaInit, Level, SplitRuns, Sorted
<1>2. MetaInv /\ Level => SplitBalances
  <2> SUFFICES ASSUME MetaInv, Level, NEW p \in Tools, pc[p] = "done", program[p].kind = "split"
               PROVE  LET moved == Bytes(copy[p], chosen[p])
                          rest  == Bytes(copy[p], Tables \ chosen[p])
                      IN  /\ rest <= moved
                          /\ moved = 0 \/ \E t \in Tables : moved <= rest + copy[p][t].size
    BY DEF SplitBalances
  <2>1. todo[p] = {} /\ chosen[p] \subseteq Tables
    BY DEF MetaInv, Visited, MetaTypeOK
  <2>2. Balance(copy[p], {}, chosen[p])
    BY <2>1 DEF Level, SplitRuns, Sorted
  <2>3. Tables \ {} = Tables /\ Tables \cap chosen[p] = chosen[p]
    BY <2>1
  <2>4. Tables = {} => Bytes(copy[p], chosen[p]) = 0
    <3>1. Tables = {} => chosen[p] = {}
      BY <2>1
    <3> QED
      BY <3>1, BytesOfNone
  <2> QED
    BY <2>2, <2>3, <2>4 DEF Balance
<1> QED
  BY <1>1, <1>2, LevelStep, MetaAlways, PTL DEF MetaSpec
=============================================================================
