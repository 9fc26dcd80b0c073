---------------------------- MODULE RemoteScan_proofs ----------------------------
(***************************************************************************)
(* What is proved of RemoteScan for every number of row groups, rows,      *)
(* attempts and polls.                                                     *)
(***************************************************************************)
EXTENDS RemoteScan, FiniteSetTheorems, TLAPS

\* The types that ScanTypeOK leaves out.
FileType ==
  /\ \E n \in 0 .. MaxGroups : rows \in [0 .. n - 1 -> 0 .. MaxRows]
  /\ numRowGroups \in 0 .. MaxGroups

ReaderType ==
  /\ rowsReturned \in [Offsets -> Nat]
  /\ made         \in [Offsets -> Nat]
  /\ polls        \in [Offsets -> Nat]

\* Partition p is row group p.
PartitionsPlanned ==
  /\ \A p \in Tasks : partitions[p] = p
  /\ job = "planning" => Tasks = {}
  /\ job \in {"running", "finished"} => Tasks = Planned
  /\ job = "finished" => \A p \in Tasks : task[p] = "done"

\* A task that waits in a running job has an attempt left.
AttemptsLeft ==
  job \in {"planning", "running"} =>
    \A p \in Offsets : task[p] = "waiting" => attempts[p] < MaxAttempts

\* What a reader has returned is nothing or its row group, and it is the row group
\* when it has said that this was all.
GroupReturned ==
  \A p \in Offsets :
    /\ task[p] = "connected" => rowsReturned[p] = 0
    /\ task[p] = "asking" => \/ rowsReturned[p] = 0
                             \/ p \in FileGroups /\ rowsReturned[p] = rows[p]
    /\ task[p] = "told" => p \in FileGroups /\ rowsReturned[p] = rows[p]
    /\ task[p] = "done" => p \in FileGroups /\ output[p] = rows[p]

\* The connection of a reader whose row group has rows is the one it remembers.
SocketKnown ==
  \A s \in sockets :
    /\ s \in Offsets \X Nat \X Nat
    /\ s[1] \in FileGroups /\ rows[s[1]] > 0 =>
         /\ task[s[1]] \in {"asking", "connected", "told", "raised"}
         /\ task[s[1]] = "asking" => rowsReturned[s[1]] > 0
         /\ s = <<s[1], attempts[s[1]], connection[s[1]]>>

ScanInv ==
  /\ ScanTypeOK /\ FileType /\ ReaderType
  /\ PartitionsPlanned /\ AttemptsLeft /\ GroupReturned /\ SocketKnown

-----------------------------------------------------------------------------
LEMMA ScanInit_Inv ==
  ASSUME ScanInit
  PROVE  ScanInv
<1> USE ScanAssumption DEF ScanInit
<1>1. Tasks = {}
  BY DEF Tasks
<1>2. ScanTypeOK
  BY <1>1 DEF ScanTypeOK
<1>3. FileType /\ ReaderType
  BY DEF FileType, ReaderType
<1>4. PartitionsPlanned /\ AttemptsLeft /\ GroupReturned /\ SocketKnown
  BY <1>1 DEF PartitionsPlanned, AttemptsLeft, GroupReturned, SocketKnown
<1> QED
  BY <1>2, <1>3, <1>4 DEF ScanInv

LEMMA ScanStep_Inv ==
  ASSUME ScanInv, [ScanNext]_scanVars
  PROVE  ScanInv'
<1> USE ScanAssumption
<1>1. CASE UNCHANGED scanVars
  BY <1>1 DEF scanVars, readerVars, ScanInv, ScanTypeOK, FileType, ReaderType, PartitionsPlanned, AttemptsLeft,
              GroupReturned, SocketKnown, Tasks, Planned, FileGroups
<1>2. CASE Plan
  <2> USE <1>2 DEF Plan, readerVars
  <2>1. \/ job' = "failed" /\ partitions' = partitions
        \/ job' = "running" /\ Tasks' = Planned /\ \A p \in Tasks' : partitions'[p] = p
    BY DEF Tasks, Offset
  <2>2. ScanTypeOK' /\ FileType' /\ ReaderType'
    <3>1. Planned \subseteq Offsets
      BY DEF ScanInv, FileType, Planned, Offsets
    <3>2. Tasks' \subseteq Offsets
      BY <2>1, <3>1 DEF ScanInv, ScanTypeOK, Tasks
    <3>3. job' \in {"planning", "running", "finished", "failed"}
      BY <2>1
    <3>4. ScanTypeOK'
      BY <3>2, <3>3 DEF ScanInv, ScanTypeOK
    <3> QED
      BY <3>4 DEF ScanInv, FileType, ReaderType
  <2>3. PartitionsPlanned'
    BY <2>1 DEF ScanInv, PartitionsPlanned, Planned, Tasks
  <2>4. AttemptsLeft' /\ GroupReturned' /\ SocketKnown'
    BY DEF ScanInv, AttemptsLeft, GroupReturned, SocketKnown, FileGroups
  <2> QED
    BY <2>2, <2>3, <2>4 DEF ScanInv
<1>3. CASE Finish
  <2> USE <1>3 DEF Finish, readerVars
  <2>1. ScanTypeOK' /\ FileType' /\ ReaderType'
    BY DEF ScanInv, ScanTypeOK, FileType, ReaderType, Tasks
  <2>2. PartitionsPlanned' /\ AttemptsLeft' /\ GroupReturned' /\ SocketKnown'
    BY DEF ScanInv, PartitionsPlanned, Planned, Tasks, AttemptsLeft, GroupReturned, SocketKnown,
           FileGroups
  <2> QED
    BY <2>1, <2>2 DEF ScanInv
<1>4. ASSUME NEW p \in Tasks, Start(p) \/ Read(p) \/ PollAgain(p) \/ Crash(p)
      PROVE  ScanInv'
  <2>0. p \in Offsets /\ partitions[p] = p
    BY DEF ScanInv, ScanTypeOK, PartitionsPlanned
  <2>1. CASE Start(p)
    <3> USE <2>1 DEF Start
    <3>1. ScanTypeOK' /\ ReaderType'
      BY <2>0 DEF ScanInv, ScanTypeOK, ReaderType, AttemptsLeft, Tasks
    <3>5. FileType'
      BY DEF ScanInv, FileType
    <3>2. PartitionsPlanned' /\ AttemptsLeft'
      BY <2>0 DEF ScanInv, ScanTypeOK, PartitionsPlanned, Planned, Tasks, AttemptsLeft
    <3>3. GroupReturned'
      BY <2>0 DEF ScanInv, ScanTypeOK, ReaderType, GroupReturned, FileGroups
    <3>4. SocketKnown'
      BY <2>0 DEF ScanInv, ScanTypeOK, ReaderType, SocketKnown, FileGroups
    <3> QED
      BY <3>1, <3>2, <3>3, <3>4, <3>5 DEF ScanInv
  <2>2. CASE NextDone(p)
    <3> USE <2>2 DEF NextDone, BatchReturned
    <3>1. ScanTypeOK' /\ ReaderType'
      BY <2>0 DEF ScanInv, ScanTypeOK, ReaderType, Tasks
    <3>5. FileType'
      BY DEF ScanInv, FileType
    <3>2. PartitionsPlanned' /\ AttemptsLeft'
      BY <2>0 DEF ScanInv, ScanTypeOK, PartitionsPlanned, Planned, Tasks, AttemptsLeft
    <3>3. GroupReturned'
      BY <2>0 DEF ScanInv, ScanTypeOK, ReaderType, GroupReturned, FileGroups
    <3>4. SocketKnown'
      BY <2>0 DEF ScanInv, ScanTypeOK, ReaderType, SocketKnown, FileGroups
    <3> QED
      BY <3>1, <3>2, <3>3, <3>4, <3>5 DEF ScanInv
  <2>3. CASE Connect(p)
    <3> USE <2>3 DEF Connect, BatchReturned
    <3>1. ScanTypeOK' /\ ReaderType'
      BY <2>0 DEF ScanInv, ScanTypeOK, ReaderType, Tasks
    <3>5. FileType'
      BY DEF ScanInv, FileType
    <3>2. PartitionsPlanned' /\ AttemptsLeft'
      BY <2>0 DEF ScanInv, ScanTypeOK, PartitionsPlanned, Planned, Tasks, AttemptsLeft
    <3>3. GroupReturned'
      BY <2>0 DEF ScanInv, ScanTypeOK, ReaderType, GroupReturned, FileGroups
    <3>4. SocketKnown'
      BY <2>0 DEF ScanInv, ScanTypeOK, ReaderType, SocketKnown, FileGroups
    <3> QED
      BY <3>1, <3>2, <3>3, <3>4, <3>5 DEF ScanInv
  <2>4. CASE Execute(p)
    <3> USE <2>4 DEF Execute
    <3>0. rows[p] \in Nat /\ p \in FileGroups
      BY <2>0 DEF ScanInv, FileType, FileGroups
    <3>1. ScanTypeOK' /\ ReaderType'
      BY <2>0, <3>0 DEF ScanInv, ScanTypeOK, ReaderType, Tasks
    <3>5. FileType'
      BY DEF ScanInv, FileType
    <3>2. PartitionsPlanned' /\ AttemptsLeft'
      BY <2>0 DEF ScanInv, ScanTypeOK, PartitionsPlanned, Planned, Tasks, AttemptsLeft
    <3>3. GroupReturned'
      BY <2>0, <3>0 DEF ScanInv, ScanTypeOK, ReaderType, GroupReturned, FileGroups
    <3>4. SocketKnown'
      BY <2>0, <3>0 DEF ScanInv, ScanTypeOK, ReaderType, SocketKnown, GroupReturned, FileGroups
    <3> QED
      BY <3>1, <3>2, <3>3, <3>4, <3>5 DEF ScanInv
  <2>5. CASE ExecuteRaises(p) \/ PollAgain(p)
    <3> USE <2>5 DEF ExecuteRaises, PollAgain, readerVars
    <3>1. ScanTypeOK' /\ ReaderType'
      BY <2>0 DEF ScanInv, ScanTypeOK, ReaderType, Tasks
    <3>5. FileType'
      BY DEF ScanInv, FileType
    <3>2. PartitionsPlanned' /\ AttemptsLeft'
      BY <2>0 DEF ScanInv, ScanTypeOK, PartitionsPlanned, Planned, Tasks, AttemptsLeft
    <3>3. GroupReturned'
      BY <2>0 DEF ScanInv, ScanTypeOK, ReaderType, GroupReturned, FileGroups
    <3>4. SocketKnown'
      BY <2>0 DEF ScanInv, ScanTypeOK, ReaderType, SocketKnown, GroupReturned, FileGroups
    <3> QED
      BY <3>1, <3>2, <3>3, <3>4, <3>5 DEF ScanInv
  <2>6. CASE Close(p)
    <3> USE <2>6 DEF Close
    <3>1. ScanTypeOK' /\ ReaderType'
      BY <2>0 DEF ScanInv, ScanTypeOK, ReaderType, Tasks
    <3>5. FileType'
      BY DEF ScanInv, FileType
    <3>2. PartitionsPlanned' /\ AttemptsLeft'
      BY <2>0 DEF ScanInv, ScanTypeOK, PartitionsPlanned, Planned, Tasks, AttemptsLeft
    <3>3. GroupReturned'
      BY <2>0 DEF ScanInv, ScanTypeOK, ReaderType, GroupReturned, FileGroups
    <3>4. SocketKnown'
      BY <2>0 DEF ScanInv, ScanTypeOK, ReaderType, SocketKnown, Closed, FileGroups
    <3> QED
      BY <3>1, <3>2, <3>3, <3>4, <3>5 DEF ScanInv
  <2>7. CASE Crash(p)
    <3> USE <2>7 DEF Crash
    <3>1. ScanTypeOK' /\ ReaderType'
      BY <2>0 DEF ScanInv, ScanTypeOK, ReaderType, Tasks
    <3>5. FileType'
      BY DEF ScanInv, FileType
    <3>2. PartitionsPlanned' /\ AttemptsLeft'
      BY <2>0 DEF ScanInv, ScanTypeOK, PartitionsPlanned, Planned, Tasks, AttemptsLeft
    <3>3. GroupReturned'
      BY <2>0 DEF ScanInv, ScanTypeOK, ReaderType, GroupReturned, FileGroups
    <3>4. SocketKnown'
      BY <2>0 DEF ScanInv, ScanTypeOK, ReaderType, SocketKnown, FileGroups
    <3> QED
      BY <3>1, <3>2, <3>3, <3>4, <3>5 DEF ScanInv
  <2> QED
    BY <1>4, <2>1, <2>2, <2>3, <2>4, <2>5, <2>6, <2>7 DEF Read
<1> QED
  BY <1>1, <1>2, <1>3, <1>4 DEF ScanNext

LEMMA ScanAlways == ScanSpec => []ScanInv
<1>1. ScanInit => ScanInv
  BY ScanInit_Inv
<1>2. ScanInv /\ [ScanNext]_scanVars => ScanInv'
  BY ScanStep_Inv
<1> QED
  BY <1>1, <1>2, PTL DEF ScanSpec

\* The types of the variables; no task is started more often than Spark allows.
THEOREM ScanTypeCorrect == ScanSpec => []ScanTypeOK
<1>1. ScanInv => ScanTypeOK
  BY DEF ScanInv
<1> QED
  BY <1>1, ScanAlways, PTL

LEMMA FileSize ==
  ASSUME ScanInv
  PROVE  \E n \in Nat : FileGroups = 0 .. n - 1 /\ Cardinality(FileGroups) = n
<1>1. PICK n \in 0 .. MaxGroups : rows \in [0 .. n - 1 -> 0 .. MaxRows]
  BY DEF ScanInv, FileType
<1>2. FileGroups = 0 .. n - 1 /\ n \in Nat /\ 0 \in Int /\ n - 1 \in Int
  BY <1>1, ScanAssumption DEF FileGroups
<1>3. Cardinality(0 .. n - 1) = IF 0 > n - 1 THEN 0 ELSE n - 1 - 0 + 1
  BY <1>2, FS_Interval
<1> QED
  BY <1>2, <1>3

\* A finished query has every row group exactly once (QflockJdbcScan's partitions,
\* QflockJdbcVectorReader's one batch), under any pattern of failures.
THEOREM GroupsAreReadOnce == ScanSpec => []EveryGroupOnce
<1>1. ASSUME ScanInv, job = "finished", numRowGroups = Cardinality(FileGroups),
             NEW g \in FileGroups
      PROVE  Cardinality({p \in Tasks : partitions[p] = g /\ output[p] = rows[g]}) = 1
  <2>1. PICK n \in Nat : FileGroups = 0 .. n - 1 /\ Cardinality(FileGroups) = n
    BY <1>1, FileSize
  <2>2. Tasks = FileGroups
    BY <1>1, <2>1 DEF ScanInv, PartitionsPlanned, Planned
  <2>3. \A p \in Tasks : partitions[p] = p /\ output[p] = rows[p]
    BY <1>1 DEF ScanInv, ScanTypeOK, PartitionsPlanned, GroupReturned
  <2>4. {p \in Tasks : partitions[p] = g /\ output[p] = rows[g]} = {g}
    BY <2>2, <2>3
  <2> QED
    BY <2>4, FS_Singleton
<1>2. ScanInv => EveryGroupOnce
  BY <1>1 DEF EveryGroupOnce
<1> QED
  BY <1>2, ScanAlways, PTL

\* A count of row groups that is too large makes the query fail.
THEOREM NoGroupIsMadeUp == ScanSpec => []NoPhantomGroups
<1>1. ASSUME ScanInv, job = "finished"
      PROVE  numRowGroups <= Cardinality(FileGroups)
  <2>1. PICK n \in Nat : FileGroups = 0 .. n - 1 /\ Cardinality(FileGroups) = n
    BY <1>1, FileSize
  <2>2. \A p \in 0 .. numRowGroups - 1 : p \in FileGroups
    BY <1>1 DEF ScanInv, ScanTypeOK, PartitionsPlanned, Planned, GroupReturned
  <2>3. numRowGroups \in Nat
    BY <1>1, ScanAssumption DEF ScanInv, FileType
  <2> QED
    BY <2>1, <2>2, <2>3
<1>2. ScanInv => NoPhantomGroups
  BY <1>1 DEF NoPhantomGroups
<1> QED
  BY <1>2, ScanAlways, PTL

\* A reader whose row group has rows holds one connection (getResults, close).
THEOREM ReadersHoldOneConnection == ScanSpec => []OneConnection
<1>1. ASSUME ScanInv, NEW p \in Tasks, partitions[p] \in FileGroups, rows[partitions[p]] > 0
      PROVE  Cardinality({s \in sockets : s[1] = p})
               <= IF task[p] \in {"waiting", "done"} THEN 0 ELSE 1
  <2>0. p \in FileGroups /\ rows[p] > 0
    BY <1>1 DEF ScanInv, PartitionsPlanned
  <2>1. {s \in sockets : s[1] = p} \subseteq {<<p, attempts[p], connection[p]>>}
    BY <1>1, <2>0 DEF ScanInv, SocketKnown
  <2>2. CASE task[p] \in {"waiting", "done"}
    <3>1. {s \in sockets : s[1] = p} = {}
      BY <1>1, <2>0, <2>2 DEF ScanInv, SocketKnown
    <3> QED
      BY <2>2, <3>1, FS_EmptySet
  <2>3. CASE task[p] \notin {"waiting", "done"}
    <3>1. \/ {s \in sockets : s[1] = p} = {}
          \/ {s \in sockets : s[1] = p} = {<<p, attempts[p], connection[p]>>}
      BY <2>1
    <3>2. Cardinality({<<p, attempts[p], connection[p]>>}) = 1 /\ Cardinality({}) = 0
      BY FS_EmptySet, FS_Singleton, Zenon
    <3>3. Cardinality({s \in sockets : s[1] = p}) \in {0, 1}
      BY <3>1, <3>2, Zenon
    <3> QED
      BY <2>3, <3>3
  <2> QED
    BY <2>2, <2>3
<1>2. ScanInv => OneConnection
  BY <1>1 DEF OneConnection
<1> QED
  BY <1>2, ScanAlways, PTL
=============================================================================
