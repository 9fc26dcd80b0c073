------------------------------ MODULE RemoteScan ------------------------------
(***************************************************************************)
(* The compute side of a pushed-down scan: one Spark task per row group,   *)
(* each with a QflockJdbcVectorReader that sends the query for its row     *)
(* group over a connection of its own.                                     *)
(*                                                                         *)
(* The plan is made from the number of row groups the metastore tells.     *)
(* A reader has one batch: the whole answer.  It knows that it has given   *)
(* that batch by having returned rows, so a reader whose answer is empty   *)
(* does not know, and a further call of next() connects and asks again.    *)
(* Spark itself is external: it runs tasks in any order, calls next() on a *)
(* reader until it returns false (and maybe once more, MaxPolls), closes   *)
(* the reader at the end of the task, and retries a task that failed.      *)
(***************************************************************************)
EXTENDS Integers, FiniteSets

CONSTANTS MaxGroups,    (* bound: row groups of a file                     *)
          MaxRows,      (* bound: rows of a row group the query selects    *)
          MaxAttempts,  (* Spark's limit on the attempts of a task         *)
          MaxPolls      (* how often Spark may see next() return false     *)

ASSUME ScanAssumption ==
  /\ MaxGroups \in Nat /\ MaxRows \in Nat
  /\ MaxAttempts \in Nat \ {0} /\ MaxPolls \in Nat \ {0}

Offsets == 0 .. MaxGroups - 1
None    == -1

VARIABLES
  rows,          (* rows[g]: the rows the query selects in row group g     *)
  numRowGroups,  (* the metastore's idea of the number of row groups       *)
  job,           (* "planning", "running", "finished" or "failed"          *)
  partitions,    (* the row group of each partition                        *)
  task,          (* the state of the task of each partition                *)
  attempts,      (* how often it was started                               *)
  connection,    (* the reader's connection, or None                       *)
  rowsReturned,  (* rows its calls of next() have returned                 *)
  polls,         (* how often they have returned false                     *)
  sockets,       (* the connections to the server that are open            *)
  made,          (* connections the task's current attempt has made        *)
  output         (* output[p]: the rows of the successful attempt          *)

readerVars == <<connection, rowsReturned, polls, made>>
scanVars   == <<rows, numRowGroups, job, partitions, task, attempts, readerVars, sockets, output>>

FileGroups == DOMAIN rows
Tasks      == DOMAIN partitions

ScanInit ==
  /\ rows \in UNION {[0 .. n - 1 -> 0 .. MaxRows] : n \in 0 .. MaxGroups}
  /\ numRowGroups \in 0 .. MaxGroups
  /\ job          = "planning"
  /\ partitions   = <<>>
  /\ task         = [p \in Offsets |-> "waiting"]
  /\ attempts     = [p \in Offsets |-> 0]
  /\ connection   = [p \in Offsets |-> None]
  /\ rowsReturned = [p \in Offsets |-> 0]
  /\ polls        = [p \in Offsets |-> 0]
  /\ sockets      = {}
  /\ made         = [p \in Offsets |-> 0]
  /\ output       = [p \in Offsets |-> 0]

\* Mutant of Offset: every partition is the first row group.
OffsetFirst(i) == 0

\* The row group of partition i; its length is one.
Offset(i) == i

\* Mutant of Planned: `to` for `until`.
PlannedInclusive == 0 .. numRowGroups

Planned == 0 .. numRowGroups - 1

\* createPartitions divides the rows by the number of row groups first.
Plan ==
  /\ job = "planning"
  /\ IF numRowGroups = 0
     THEN job' = "failed" /\ UNCHANGED partitions
     ELSE job' = "running" /\ partitions' = [i \in Planned |-> Offset(i)]
  /\ UNCHANGED <<rows, numRowGroups, task, attempts, readerVars, sockets, output>>

\* Spark starts a task, the first time or again: the reader is a new one.
Start(p) ==
  /\ job = "running"
  /\ task[p] = "waiting"
  /\ task'         = [task EXCEPT ![p] = "asking"]
  /\ attempts'     = [attempts EXCEPT ![p] = @ + 1]
  /\ rowsReturned' = [rowsReturned EXCEPT ![p] = 0]
  /\ polls'        = [polls EXCEPT ![p] = 0]
  /\ made'         = [made EXCEPT ![p] = 0]
  /\ UNCHANGED <<rows, numRowGroups, job, partitions, connection, sockets, output>>

\* Mutant of BatchReturned: off by one.
BatchReturnedLate(p) == rowsReturned[p] > 1

BatchReturned(p) == rowsReturned[p] > 0

\* Mutant of NextDone: the batch is returned again.
NextDoneTrue(p) ==
  /\ task[p] = "asking"
  /\ BatchReturned(p)
  /\ UNCHANGED scanVars

\* next(): if the batch has been returned, that was all.
NextDone(p) ==
  /\ task[p] = "asking"
  /\ BatchReturned(p)
  /\ polls' = [polls EXCEPT ![p] = @ + 1]
  /\ task'  = [task EXCEPT ![p] = "told"]
  /\ UNCHANGED <<rows, numRowGroups, job, partitions, attempts, connection, rowsReturned, made,
                 sockets, output>>

\* Otherwise getResults connects; the option holds the new connection only.
Connect(p) ==
  /\ task[p] = "asking"
  /\ ~ BatchReturned(p)
  /\ made'       = [made EXCEPT ![p] = @ + 1]
  /\ connection' = [connection EXCEPT ![p] = made[p]]
  /\ sockets'    = sockets \cup {<<p, attempts[p], made[p]>>}
  /\ task'       = [task EXCEPT ![p] = "connected"]
  /\ UNCHANGED <<rows, numRowGroups, job, partitions, attempts, rowsReturned, polls, output>>

\* The query is executed.  The server answers with the rows of the row group,
\* all of them one batch; next() returns whether there are any.
Execute(p) ==
  /\ task[p] = "connected"
  /\ partitions[p] \in FileGroups
  /\ LET n == rows[partitions[p]]
     IN /\ rowsReturned' = [rowsReturned EXCEPT ![p] = @ + n]
        /\ polls'        = IF n = 0 THEN [polls EXCEPT ![p] = @ + 1] ELSE polls
        /\ task'         = [task EXCEPT ![p] = IF n = 0 THEN "told" ELSE "asking"]
  /\ UNCHANGED <<rows, numRowGroups, job, partitions, attempts, connection, made, sockets, output>>

\* Or it raises: at the server (for a row group the file lacks it always does),
\* or on the way.
ExecuteRaises(p) ==
  /\ task[p] = "connected"
  /\ task' = [task EXCEPT ![p] = "raised"]
  /\ UNCHANGED <<rows, numRowGroups, job, partitions, attempts, readerVars, sockets, output>>

\* Spark calls next() once more although it has returned false.
PollAgain(p) ==
  /\ task[p] = "told"
  /\ polls[p] < MaxPolls
  /\ task' = [task EXCEPT ![p] = "asking"]
  /\ UNCHANGED <<rows, numRowGroups, job, partitions, attempts, readerVars, sockets, output>>

\* The connection that close() closes.
Closed(p) == {s \in sockets : s[1] = p /\ s[2] = attempts[p] /\ s[3] = connection[p]}

\* Spark closes the reader at the end of the task.
Close(p) ==
  /\ task[p] \in {"told", "raised"}
  /\ sockets'    = sockets \ Closed(p)
  /\ connection' = [connection EXCEPT ![p] = None]
  /\ IF task[p] = "told"
     THEN /\ task'   = [task EXCEPT ![p] = "done"]
          /\ output' = [output EXCEPT ![p] = rowsReturned[p]]
          /\ UNCHANGED job
     ELSE /\ task'   = [task EXCEPT ![p] = "waiting"]
          /\ job'    = IF attempts[p] < MaxAttempts THEN job ELSE "failed"
          /\ UNCHANGED output
  /\ UNCHANGED <<rows, numRowGroups, partitions, attempts, rowsReturned, polls, made>>

\* The executor dies, and with it its sockets; nothing is closed.
Crash(p) ==
  /\ task[p] \in {"asking", "connected", "told"}
  /\ attempts[p] < MaxAttempts
  /\ sockets'    = {s \in sockets : s[1] # p}
  /\ connection' = [connection EXCEPT ![p] = None]
  /\ task'       = [task EXCEPT ![p] = "waiting"]
  /\ UNCHANGED <<rows, numRowGroups, job, partitions, attempts, rowsReturned, polls, made, output>>

Finish ==
  /\ job = "running"
  /\ \A p \in Tasks : task[p] = "done"
  /\ job' = "finished"
  /\ UNCHANGED <<rows, numRowGroups, partitions, task, attempts, readerVars, sockets, output>>

\* A step of the reader of partition p, and Spark's of the task.
Read(p) == NextDone(p) \/ Connect(p) \/ Execute(p) \/ ExecuteRaises(p) \/ Close(p)

ScanNext ==
  \/ Plan
  \/ Finish
  \/ \E p \in Tasks : Start(p) \/ Read(p) \/ PollAgain(p) \/ Crash(p)

ScanSpec == ScanInit /\ [][ScanNext]_scanVars

\* Spark starts every task and a running reader goes on.
ScanFairSpec ==
  /\ ScanSpec
  /\ WF_scanVars(Plan)
  /\ WF_scanVars(Finish)
  /\ \A p \in Offsets : WF_scanVars(p \in Tasks /\ (Start(p) \/ Read(p)))

-----------------------------------------------------------------------------
ScanTypeOK ==
  /\ job \in {"planning", "running", "finished", "failed"}
  /\ Tasks \subseteq Offsets
  /\ task \in [Offsets -> {"waiting", "asking", "connected", "told", "raised", "done"}]
  /\ attempts \in [Offsets -> 0 .. MaxAttempts]
  /\ connection \in [Offsets -> Nat \cup {None}]
  /\ output \in [Offsets -> Nat]

\* A finished query has the rows of every row group exactly once, whatever
\* failed, crashed, was retried or asked again on the way - if the metastore's
\* number of row groups is the file's.
EveryGroupOnce ==
  job = "finished" /\ numRowGroups = Cardinality(FileGroups) =>
    \A g \in FileGroups : Cardinality({p \in Tasks : partitions[p] = g /\ output[p] = rows[g]}) = 1

\* A metastore that counts too many row groups makes the query fail; it never
\* makes it return something.
NoPhantomGroups == job = "finished" => numRowGroups <= Cardinality(FileGroups)

\* A reader whose row group has rows has at most one connection open, and none
\* once its task has ended.
OneConnection ==
  \A p \in Tasks : partitions[p] \in FileGroups /\ rows[partitions[p]] > 0 =>
    Cardinality({s \in sockets : s[1] = p}) <= IF task[p] \in {"waiting", "done"} THEN 0 ELSE 1

\* Every query ends, with its rows or with an error.
EveryJobEnds == <>(job \in {"finished", "failed"})
=============================================================================
