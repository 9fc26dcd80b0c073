------------------------------ MODULE JdbcServer ------------------------------
(***************************************************************************)
(* The Thrift server of the storage side and the sockets it serves.        *)
(*                                                                         *)
(* The driver opens one socket per JDBC connection and the server runs one *)
(* thread per socket (TThreadedServer), so a thread of RequestPool is both *)
(* here: the client's end of the socket, which sends one call at a time,   *)
(* and the handler thread that serves it.  A connection's properties are   *)
(* stored when it is created, under an id the server draws from a counter; *)
(* a prepared statement is another id, that leads to the connection; and a *)
(* query is executed with nothing but the id of a statement.  The counters *)
(* and tables are shared by all threads and guarded by one lock, except    *)
(* that lookups and deletions do not take it.                              *)
(***************************************************************************)
EXTENDS RequestPool

CONSTANTS None,       (* Python's and Java's None, null or absent key       *)
          MaxId       (* bound: the ids of a kind are 0 .. MaxId            *)

Creating       == {"createConnection", "createPreparedStatement"}
StatementCalls == {"executeQuery", "preparedStatement_close"}
Operations     == Creating \cup StatementCalls \cup {"closeConnection"}

ASSUME ServerAssumption ==
  /\ MaxId \in Nat
  /\ None \notin Request \cup Nat \cup Threads \cup Operations

ConnectionIds == 0 .. MaxId

VARIABLES
  connections,   (* _connections: the properties of each open connection   *)
  pstatements,   (* _pstatements: the connection of each open statement    *)
  connectionId,  (* the counters: the next id of either kind               *)
  pstatementId,
  lock,          (* the thread that holds the handler's _lock              *)
  call,          (* the call a thread is serving                           *)
  stage,         (* how far it is in the critical section of a create call *)
  current,       (* its local variable current_id                          *)
  arg,           (* the statement its call is about                        *)
  conn,          (* client: the id of the connection, once it has one      *)
  wanted,        (* client: the properties it connected with               *)
  stmts,         (* client: the ids of its prepared statements             *)
  lost,          (* history: the connections whose socket broke            *)
  closed         (* history: the statements that were closed               *)

tables     == <<connections, pstatements, connectionId, pstatementId, lock>>
handler    == <<call, stage, current, arg>>
client     == <<conn, wanted, stmts>>
history    == <<lost, closed>>
serverVars == <<poolVars, tables, handler, client, history>>

ServerInit ==
  /\ PoolInit
  /\ connections  = [i \in ConnectionIds |-> None]
  /\ pstatements  = [i \in ConnectionIds |-> None]
  /\ connectionId = 0
  /\ pstatementId = 0
  /\ lock         = None
  /\ call         = [t \in Threads |-> None]
  /\ stage        = [t \in Threads |-> "called"]
  /\ current      = [t \in Threads |-> 0]
  /\ arg          = [t \in Threads |-> 0]
  /\ conn         = [t \in Threads |-> None]
  /\ wanted       = [t \in Threads |-> NoRequest]
  /\ stmts        = [t \in Threads |-> {}]
  /\ lost         = {}
  /\ closed       = {}

-----------------------------------------------------------------------------
(***************************************************************************)
(* The client's end: QflockDriver, QflockConnection, QflockPreparedStatement*)
(* send one call at a time.                                                *)
(***************************************************************************)
Send(t, op) ==
  /\ call[t] = None
  /\ call' = [call EXCEPT ![t] = op]
  /\ UNCHANGED <<poolVars, tables, stage, current, history>>

\* QflockDriver.connect opens a socket and sends the properties.
Connect(t, r) ==
  /\ conn[t] = None
  /\ Send(t, "createConnection")
  /\ wanted' = [wanted EXCEPT ![t] = r]
  /\ UNCHANGED <<arg, conn, stmts>>

Prepare(t) ==
  /\ conn[t] # None
  /\ Send(t, "createPreparedStatement")
  /\ UNCHANGED <<arg, client>>

\* QflockPreparedStatement.executeQuery and close name one of the connection's
\* statements; the driver does not ask whether it is still open.
UseStatement(t, op, s) ==
  /\ op \in StatementCalls
  /\ conn[t] # None
  /\ s \in stmts[t]
  /\ Send(t, op)
  /\ arg' = [arg EXCEPT ![t] = s]
  /\ UNCHANGED client

Close(t) ==
  /\ conn[t] # None
  /\ Send(t, "closeConnection")
  /\ UNCHANGED <<arg, client>>

\* The client dies or the network breaks between two calls (a break during a
\* call lets the handler finish, and looks the same to the server).  The thread
\* ends, and nothing removes the connection from the server's table.
Break(t) ==
  /\ conn[t] # None
  /\ call[t] = None
  /\ lost'  = lost \cup {conn[t]}
  /\ conn'  = [conn EXCEPT ![t] = None]
  /\ stmts' = [stmts EXCEPT ![t] = {}]
  /\ UNCHANGED <<poolVars, tables, handler, wanted, closed>>

-----------------------------------------------------------------------------
(***************************************************************************)
(* The server's end: QflockThriftJdbcHandler.                              *)
(***************************************************************************)
\* The call returns; its local variables are gone.
Reply(t) ==
  /\ call'    = [call EXCEPT ![t] = None]
  /\ stage'   = [stage EXCEPT ![t] = "called"]
  /\ current' = [current EXCEPT ![t] = 0]
  /\ arg'     = [arg EXCEPT ![t] = 0]

\* The counter of the kind of id that an operation draws.
Counter(op) == IF op = "createConnection" THEN connectionId ELSE pstatementId

\* Mutant of Acquire: the lock is not tested.
AcquireAnyway(t) ==
  /\ call[t] \in Creating
  /\ stage[t] = "called"
  /\ Counter(call[t]) <= MaxId
  /\ lock'  = t
  /\ stage' = [stage EXCEPT ![t] = "locked"]
  /\ UNCHANGED <<poolVars, connections, pstatements, connectionId, pstatementId,
                 call, current, arg, client, history>>

\* _lock.acquire; the bound on the ids is tested here.
Acquire(t) ==
  /\ call[t] \in Creating
  /\ stage[t] = "called"
  /\ Counter(call[t]) <= MaxId
  /\ lock = None
  /\ lock'  = t
  /\ stage' = [stage EXCEPT ![t] = "locked"]
  /\ UNCHANGED <<poolVars, connections, pstatements, connectionId, pstatementId,
                 call, current, arg, client, history>>

\* current_id = the counter
ReadId(t) ==
  /\ stage[t] = "locked"
  /\ current' = [current EXCEPT ![t] = Counter(call[t])]
  /\ stage'   = [stage EXCEPT ![t] = "read"]
  /\ UNCHANGED <<poolVars, tables, call, arg, client, history>>

\* The counter is incremented, the entry is made, the lock is released.
RegisterConnection(t) ==
  /\ stage[t] = "read"
  /\ call[t] = "createConnection"
  /\ connectionId' = connectionId + 1
  /\ connections'  = [connections EXCEPT ![current[t]] = wanted[t]]
  /\ lock'         = None
  /\ conn'         = [conn EXCEPT ![t] = current[t]]
  /\ Reply(t)
  /\ UNCHANGED <<poolVars, pstatements, pstatementId, wanted, stmts, history>>

\* Mutant of RegisterStatement: the statement leads to the newest connection, by
\* the counter, and misses it by one.
RegisterStatementNewest(t) ==
  /\ stage[t] = "read"
  /\ call[t] = "createPreparedStatement"
  /\ pstatementId' = pstatementId + 1
  /\ pstatements'  = [pstatements EXCEPT ![current[t]] = connectionId]
  /\ lock'         = None
  /\ stmts'        = [stmts EXCEPT ![t] = @ \cup {current[t]}]
  /\ Reply(t)
  /\ UNCHANGED <<poolVars, connections, connectionId, conn, wanted, history>>

RegisterStatement(t) ==
  /\ stage[t] = "read"
  /\ call[t] = "createPreparedStatement"
  /\ pstatementId' = pstatementId + 1
  /\ pstatements'  = [pstatements EXCEPT ![current[t]] = conn[t]]
  /\ lock'         = None
  /\ stmts'        = [stmts EXCEPT ![t] = @ \cup {current[t]}]
  /\ Reply(t)
  /\ UNCHANGED <<poolVars, connections, connectionId, conn, wanted, history>>

\* Mutant of Properties: the statement's id is looked up among the connections.
PropertiesById(s) == connections[s]

\* Mutant of Properties: rowGroupCount is ignored.
PropertiesUncounted(s) ==
  IF pstatements[s] = None THEN None
  ELSE IF connections[pstatements[s]] = None THEN None
  ELSE [connections[pstatements[s]] EXCEPT !.count = 0]

\* The properties a query on statement s is executed with; None if the
\* statement or its connection is not in the tables (a KeyError).
Properties(s) ==
  IF pstatements[s] = None THEN None ELSE connections[pstatements[s]]

\* preparedStatement_executeQuery: the two lookups, one step because only the
\* thread's own calls change the entries, and the query begins.  It draws its
\* query id under the lock too, so it waits while the lock is held.
StartQuery(t) ==
  /\ call[t] = "executeQuery"
  /\ stage[t] = "called"
  /\ lock = None
  /\ Properties(arg[t]) # None
  /\ Ask(t, Properties(arg[t]))
  /\ stage' = [stage EXCEPT ![t] = "running"]
  /\ UNCHANGED <<tables, call, current, arg, client, history>>

\* A lookup raises: the call fails.
KeyError(t) ==
  /\ call[t] = "executeQuery"
  /\ stage[t] = "called"
  /\ Properties(arg[t]) = None
  /\ Reply(t)
  /\ UNCHANGED <<poolVars, tables, client, history>>

RunQuery(t) ==
  /\ stage[t] = "running"
  /\ Exec(t)
  /\ UNCHANGED <<tables, handler, client, history>>

\* The rows, or the exception, are sent back.
QueryDone(t) ==
  /\ stage[t] = "running"
  /\ pc[t] \in Resting
  /\ Reply(t)
  /\ UNCHANGED <<poolVars, tables, client, history>>

\* Mutant of CloseStatement: the connection's id is taken for the statement's.
CloseStatementOther(t) ==
  /\ call[t] = "preparedStatement_close"
  /\ pstatements' = [pstatements EXCEPT ![conn[t]] = None]
  /\ closed'      = closed \cup {arg[t]}
  /\ Reply(t)
  /\ UNCHANGED <<poolVars, connections, connectionId, pstatementId, lock, client, lost>>

\* The entry is deleted if it is there; if not, that is only logged.
CloseStatement(t) ==
  /\ call[t] = "preparedStatement_close"
  /\ pstatements' = [pstatements EXCEPT ![arg[t]] = None]
  /\ closed'      = closed \cup {arg[t]}
  /\ Reply(t)
  /\ UNCHANGED <<poolVars, connections, connectionId, pstatementId, lock, client, lost>>

\* Mutant of CloseConnection: the connection is not deleted.
CloseConnectionKeeps(t) ==
  /\ call[t] = "closeConnection"
  /\ conn'  = [conn EXCEPT ![t] = None]
  /\ stmts' = [stmts EXCEPT ![t] = {}]
  /\ Reply(t)
  /\ UNCHANGED <<poolVars, tables, wanted, history>>

\* closeConnection deletes the connection, not its statements; the driver then
\* closes the socket, so the statements can no longer be used.
CloseConnection(t) ==
  /\ call[t] = "closeConnection"
  /\ connections' = [connections EXCEPT ![conn[t]] = None]
  /\ conn'        = [conn EXCEPT ![t] = None]
  /\ stmts'       = [stmts EXCEPT ![t] = {}]
  /\ Reply(t)
  /\ UNCHANGED <<poolVars, pstatements, connectionId, pstatementId, lock, wanted, history>>

Handle(t) ==
  \/ Acquire(t)
  \/ ReadId(t)
  \/ RegisterConnection(t)
  \/ RegisterStatement(t)
  \/ StartQuery(t)
  \/ KeyError(t)
  \/ RunQuery(t)
  \/ QueryDone(t)
  \/ CloseStatement(t)
  \/ CloseConnection(t)

ServerNext ==
  \E t \in Threads :
    \/ \E r \in Requests[t] : Connect(t, r)
    \/ Prepare(t)
    \/ \E op \in StatementCalls, s \in stmts[t] : UseStatement(t, op, s)
    \/ Close(t)
    \/ Break(t)
    \/ Handle(t)

ServerSpec == ServerInit /\ [][ServerNext]_serverVars

-----------------------------------------------------------------------------
ServerTypeOK ==
  /\ connections  \in [ConnectionIds -> Request \cup {None}]
  /\ pstatements  \in [ConnectionIds -> ConnectionIds \cup {None}]
  /\ connectionId \in Nat
  /\ pstatementId \in Nat
  /\ lock         \in Threads \cup {None}
  /\ call         \in [Threads -> Operations \cup {None}]
  /\ stage        \in [Threads -> {"called", "locked", "read", "running"}]
  /\ current      \in [Threads -> Nat]
  /\ arg          \in [Threads -> ConnectionIds]
  /\ conn         \in [Threads -> ConnectionIds \cup {None}]
  /\ wanted       \in [Threads -> Request]
  /\ stmts        \in [Threads -> SUBSET ConnectionIds]
  /\ lost         \subseteq ConnectionIds
  /\ closed       \subseteq ConnectionIds

\* Two clients never share a connection or a statement, so no client can close
\* the connection of another, or execute its statement.
DistinctHandles ==
  \A t, u \in Threads : t # u =>
    /\ conn[t] # None => conn[t] # conn[u]
    /\ stmts[t] \cap stmts[u] = {}

\* A query is executed with the properties its own client connected with: they
\* are found through two tables that other clients extend and shrink meanwhile.
OwnProperties ==
  \A t \in Threads : stage[t] = "running" => req[t] = wanted[t]

\* A query fails for want of its statement or its connection only if its own
\* client closed the statement before, whatever the other clients close.
KeyErrorOnlyIfClosed ==
  \A t \in Threads : call[t] = "executeQuery" /\ stage[t] = "called" =>
    (Properties(arg[t]) = None <=> arg[t] \in closed)

\* The server remembers exactly the connections that are open, and those whose
\* socket broke.
OpenOrLost ==
  {c \in ConnectionIds : connections[c] # None}
    = ({conn[t] : t \in Threads} \ {None}) \cup lost

\* End to end, through the tables and the pool: what a client that shares no
\* table receives is read from the row groups it connected for.
RowsAsConnected ==
  \A t \in AloneThreads :
    stage[t] = "running" /\ pc[t] = "answered" => scanned[t] = Groups(wanted[t])

\* The server only gives the pool the queries its clients connected for, one at
\* a time per thread: what holds of the pool holds of the server.
UsesThePool == PoolSpec
=============================================================================
