----------------------------- MODULE RequestPool -----------------------------
(***************************************************************************)
(* The pool of request slots of the storage-side JDBC server.              *)
(*                                                                         *)
(* A query may read only some row groups of a table, but the server runs   *)
(* it as SQL text.  So every table is registered as MaxViews temporary     *)
(* views "table_0", "table_1", ... that differ only in a request id, and   *)
(* the row groups to read travel beside the SQL, in the mutable record     *)
(* QflockTableDescriptor keeps for that id.  A thread of the server        *)
(*   1. searches the records of the table for one marked free,             *)
(*   2. writes the offset, the count and the mark of that record,          *)
(*   3. runs the SQL on the view of that id, whose scan reads the offset   *)
(*      (twice) and the count back from the record to plan its partitions, *)
(*   4. marks the record free again.                                       *)
(* Nothing makes these steps atomic, so each access to a field of a record *)
(* is a step of its own here.  The three writes of a fill are plain stores *)
(* to independent fields and may take effect in any order.                 *)
(***************************************************************************)
EXTENDS Integers, FiniteSets

CONSTANTS Threads,    (* the server's threads, one per client connection   *)
          Tables,     (* the tables the server has created views for       *)
          MaxViews,   (* views, hence request records, per table           *)
          NumGroups,  (* NumGroups[tb]: row groups in the file of table tb *)
          Requests,   (* Requests[t]: the queries thread t may be sent     *)
          Faulty      (* the threads whose queries may raise an exception  *)

(***************************************************************************)
(* A query, as the connection's properties describe it: tableName,         *)
(* rowGroupOffset and rowGroupCount.  A client only asks for row groups    *)
(* that the file has.                                                      *)
(***************************************************************************)
Request == [table : Tables, offset : Nat, count : Nat]

ASSUME PoolAssumption ==
  /\ Tables # {}
  /\ MaxViews \in Nat \ {0}
  /\ NumGroups \in [Tables -> Nat]
  /\ Requests \in [Threads -> SUBSET Request]
  /\ \A t \in Threads : \A r \in Requests[t] :
        r.offset + r.count <= NumGroups[r.table]
  /\ Faulty \subseteq Threads

Ids   == 0 .. MaxViews - 1
Views == Tables \X Ids
Field == {"offset", "count", "freed"}

VARIABLES
  offset,   (* the three fields of the QflockTableRecord of each view      *)
  count,
  freed,
  pc,       (* where each thread is in exec_query                          *)
  req,      (* the query it executes, or executed last                     *)
  id,       (* the request id it is testing, or was given                  *)
  unset,    (* the fields it has not written yet                           *)
  lo, hi,   (* the two reads of the offset by its scan                     *)
  scanned,  (* the row groups its scan has planned a partition for         *)
  leaked    (* history: views whose query raised before freeRequest        *)

record   == <<offset, count, freed>>
progress == <<req, id, unset, lo, hi, scanned>>
poolVars == <<record, pc, progress, leaked>>

Resting == {"idle", "answered", "failed", "exhausted"}
Using   == {"start", "bound", "length", "run"}
Phase   == Resting \cup {"find", "fill"} \cup Using

\* A request that no query makes: what req holds before the first one.
NoRequest == [table |-> CHOOSE tb \in Tables : TRUE, offset |-> 0, count |-> 0]

\* The row groups a query asks for.
Groups(r) == r.offset .. (r.offset + r.count - 1)

\* Mutant of View: the view is chosen by the request id alone.
ViewOfAnyTable(t) == <<CHOOSE tb \in Tables : TRUE, id[t]>>

\* The view a query was given, or the one whose record it is testing.
View(t) == <<req[t].table, id[t]>>

-----------------------------------------------------------------------------
PoolInit ==
  /\ offset  = [v \in Views |-> 0]
  /\ count   = [v \in Views |-> 0]
  /\ freed   = [v \in Views |-> TRUE]
  /\ pc      = [t \in Threads |-> "idle"]
  /\ req     = [t \in Threads |-> NoRequest]
  /\ id      = [t \in Threads |-> 0]
  /\ unset   = [t \in Threads |-> {}]
  /\ lo      = [t \in Threads |-> 0]
  /\ hi      = [t \in Threads |-> 0]
  /\ scanned = [t \in Threads |-> {}]
  /\ leaked  = {}

\* exec_query reads the connection's properties and calls fillRequestInfo.
Ask(t, r) ==
  /\ pc[t] \in Resting
  /\ pc'      = [pc EXCEPT ![t] = "find"]
  /\ req'     = [req EXCEPT ![t] = r]
  /\ id'      = [id EXCEPT ![t] = 0]
  /\ scanned' = [scanned EXCEPT ![t] = {}]
  /\ UNCHANGED <<record, unset, lo, hi, leaked>>

\* requestMap.find tests the next record and finds it free.
FindFree(t) ==
  /\ pc[t] = "find"
  /\ id[t] \in Ids
  /\ freed[View(t)]
  /\ pc'    = [pc EXCEPT ![t] = "fill"]
  /\ unset' = [unset EXCEPT ![t] = Field]
  /\ UNCHANGED <<record, req, id, lo, hi, scanned, leaked>>

\* Mutants of FindBusy: the end of the records is not tested; a record is skipped.
FindBusyNoBound(t) ==
  /\ pc[t] = "find"
  /\ id[t] \in Ids => ~ freed[View(t)]
  /\ id' = [id EXCEPT ![t] = @ + 1]
  /\ UNCHANGED <<record, pc, req, unset, lo, hi, scanned, leaked>>

FindBusySkips(t) ==
  /\ pc[t] = "find"
  /\ id[t] \in Ids
  /\ ~ freed[View(t)]
  /\ id' = [id EXCEPT ![t] = IF @ + 2 < MaxViews THEN @ + 2 ELSE MaxViews]
  /\ UNCHANGED <<record, pc, req, unset, lo, hi, scanned, leaked>>

\* requestMap.find tests the next record, finds it in use and moves on.
FindBusy(t) ==
  /\ pc[t] = "find"
  /\ id[t] \in Ids
  /\ ~ freed[View(t)]
  /\ id' = [id EXCEPT ![t] = @ + 1]
  /\ UNCHANGED <<record, pc, req, unset, lo, hi, scanned, leaked>>

\* exec_query returns or raises: its local variables are gone.  What remains
\* is the query, and the row groups its answer was made from.
Leave(t, outcome, groups) ==
  /\ pc'      = [pc EXCEPT ![t] = outcome]
  /\ scanned' = [scanned EXCEPT ![t] = groups]
  /\ id'      = [id EXCEPT ![t] = 0]
  /\ lo'      = [lo EXCEPT ![t] = 0]
  /\ hi'      = [hi EXCEPT ![t] = 0]
  /\ UNCHANGED <<req, unset>>

\* No record was free when it was tested: "out of requests" is thrown.
Exhausted(t) ==
  /\ pc[t] = "find"
  /\ id[t] \notin Ids
  /\ Leave(t, "exhausted", {})
  /\ UNCHANGED <<record, leaked>>

\* QflockTableRecord.fill stores one of its three fields; the last store
\* returns the id to exec_query, which runs the query on that id's view.
Fill(t, f) ==
  /\ pc[t] = "fill"
  /\ f \in unset[t]
  /\ offset' = IF f = "offset" THEN [offset EXCEPT ![View(t)] = req[t].offset] ELSE offset
  /\ count'  = IF f = "count"  THEN [count EXCEPT ![View(t)] = req[t].count] ELSE count
  /\ freed'  = IF f = "freed"  THEN [freed EXCEPT ![View(t)] = FALSE] ELSE freed
  /\ unset'  = [unset EXCEPT ![t] = @ \ {f}]
  /\ pc'     = IF unset[t] = {f} THEN [pc EXCEPT ![t] = "start"] ELSE pc
  /\ UNCHANGED <<req, id, lo, hi, scanned, leaked>>

\* The scan of the view evaluates the range
\*   requestInfo.offset until (requestInfo.offset + requestInfo.count)
\* with three reads of the record.
ReadStart(t) ==
  /\ pc[t] = "start"
  /\ lo' = [lo EXCEPT ![t] = offset[View(t)]]
  /\ pc' = [pc EXCEPT ![t] = "bound"]
  /\ UNCHANGED <<record, req, id, unset, hi, scanned, leaked>>

ReadBound(t) ==
  /\ pc[t] = "bound"
  /\ hi' = [hi EXCEPT ![t] = offset[View(t)]]
  /\ pc' = [pc EXCEPT ![t] = "length"]
  /\ UNCHANGED <<record, req, id, unset, lo, scanned, leaked>>

\* Mutant of Planned: `to` instead of `until`.
PlannedInclusive(t) == lo[t] .. (hi[t] + count[View(t)])

Planned(t) == lo[t] .. (hi[t] + count[View(t)] - 1)

\* One partition per row group of the range.
ReadLength(t) ==
  /\ pc[t] = "length"
  /\ \A g \in Planned(t) : g < NumGroups[req[t].table]
  /\ scanned' = [scanned EXCEPT ![t] = Planned(t)]
  /\ pc'      = [pc EXCEPT ![t] = "run"]
  /\ UNCHANGED <<record, req, id, unset, lo, hi, leaked>>

\* parquetBlocks.get(i) raises for a row group the file does not have.
OutOfRange(t) ==
  /\ pc[t] = "length"
  /\ \E g \in Planned(t) : g >= NumGroups[req[t].table]
  /\ Leave(t, "failed", {})
  /\ leaked' = leaked \cup {View(t)}
  /\ UNCHANGED record

\* The SQL, its execution or the encoding of a column raises: exec_query has
\* no handler, so freeRequest is not reached.
Raise(t) ==
  /\ t \in Faulty
  /\ pc[t] \in Using
  /\ Leave(t, "failed", {})
  /\ leaked' = leaked \cup {View(t)}
  /\ UNCHANGED record

\* Mutant of FreeRequest: freeRequest is not called.
FreeRequestForgets(t) ==
  /\ pc[t] = "run"
  /\ Leave(t, "answered", scanned[t])
  /\ UNCHANGED <<record, leaked>>

\* The rows are encoded and freeRequest marks the record.  Building the
\* metadata of the reply may still raise.
FreeRequest(t) ==
  /\ pc[t] = "run"
  /\ freed' = [freed EXCEPT ![View(t)] = TRUE]
  /\ \/ Leave(t, "answered", scanned[t])
     \/ t \in Faulty /\ Leave(t, "failed", {})
  /\ UNCHANGED <<offset, count, leaked>>

\* What a thread does once it has a query.
Exec(t) ==
  \/ FindFree(t)
  \/ FindBusy(t)
  \/ Exhausted(t)
  \/ \E f \in Field : Fill(t, f)
  \/ ReadStart(t)
  \/ ReadBound(t)
  \/ ReadLength(t)
  \/ OutOfRange(t)
  \/ Raise(t)
  \/ FreeRequest(t)

PoolNext ==
  \E t \in Threads :
    \/ \E r \in Requests[t] : Ask(t, r)
    \/ Exec(t)

PoolSpec == PoolInit /\ [][PoolNext]_poolVars

\* A thread that has a query keeps running: no step of Exec waits for another
\* thread, and the operating system schedules every runnable thread.
PoolFairSpec == PoolSpec /\ \A t \in Threads : WF_poolVars(Exec(t))

-----------------------------------------------------------------------------
PoolTypeOK ==
  /\ offset  \in [Views -> Nat]
  /\ count   \in [Views -> Nat]
  /\ freed   \in [Views -> BOOLEAN]
  /\ pc      \in [Threads -> Phase]
  /\ req     \in [Threads -> Request]
  /\ id      \in [Threads -> 0 .. MaxViews]
  /\ unset   \in [Threads -> SUBSET Field]
  /\ lo      \in [Threads -> Nat]
  /\ hi      \in [Threads -> Nat]
  /\ scanned \in [Threads -> SUBSET Nat]
  /\ leaked  \subseteq Views

\* Thread t has been given its view and has not returned it.
Holds(t, v) == pc[t] \in {"fill"} \cup Using /\ View(t) = v

\* A record is marked in use only while some thread executes a query on its
\* view, or for ever after a query on it raised: freeRequest runs on every
\* other path, and a late fill never marks a record whose query has ended.
HeldOrLeaked ==
  \A v \in Views : ~ freed[v] => v \in leaked \/ \E t \in Threads : Holds(t, v)

\* No other thread ever queries a table that t queries.
Alone(t) ==
  \A u \in Threads \ {t} : \A q \in Requests[t], r \in Requests[u] : q.table # r.table

AloneThreads == {t \in Threads : Alone(t)}

(***************************************************************************)
(* The service as the clients of AloneThreads see it.                      *)
(***************************************************************************)
Status(t) ==
  CASE pc[t] \in {"idle", "answered"}    -> pc[t]
    [] pc[t] \in {"failed", "exhausted"} -> "refused"
    [] OTHER                             -> "pending"

ClientStatus == [t \in AloneThreads |-> Status(t)]
ClientQuery  == [t \in AloneThreads |-> req[t]]
ClientAnswer == [t \in AloneThreads |-> IF pc[t] = "answered" THEN scanned[t] ELSE {}]

Service == INSTANCE ScanService WITH
  Clients    <- AloneThreads,
  Unreliable <- Faulty,
  status     <- ClientStatus,
  asked      <- ClientQuery,
  answer     <- ClientAnswer

\* A client that shares its tables with no other client is served as if the
\* server were atomic: whatever the others do to their records, its queries
\* read exactly the row groups they ask for, and none is refused unless it
\* raises.  ServesAlone is the safety part.
ServesAlone     == Service!Spec
ServesAloneFair == Service!FairSpec

\* Every query reads exactly the row groups it asked for: the request id is
\* what carries "rg_offset and count down to the datasource"
\* (thrift_handler.py:179-182).
ReadsItsGroups ==
  \A t \in Threads : pc[t] = "answered" => scanned[t] = Groups(req[t])

\* A server with as many views per table as it has clients never runs out of
\* them (thrift_handler.py:142-145).
EnoughViews ==
  Cardinality(Threads) <= MaxViews => \A t \in Threads : pc[t] # "exhausted"

\* The same, as long as no query has raised an exception.
EnoughViewsUnlessLeaked == leaked = {} => EnoughViews

\* When all clients ask for ranges of the same length, a scan never looks for a
\* row group the file does not have, even when two queries share a record.
UniformInRange ==
  (\A t, u \in Threads : \A q \in Requests[t], r \in Requests[u] : q.count = r.count)
  => \A t \in Threads : pc[t] = "length" =>
        \A g \in Planned(t) : g < NumGroups[req[t].table]

\* Every record marked in use is eventually marked free, unless a query on its
\* view raises.
EverySlotComesBack == \A v \in Views : ~ freed[v] ~> freed[v] \/ v \in leaked
=============================================================================
