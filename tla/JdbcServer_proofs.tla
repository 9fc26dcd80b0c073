-------------------------- MODULE JdbcServer_proofs ---------------------------
(***************************************************************************)
(* Theorems about the Thrift server, for every number of clients.          *)
(***************************************************************************)
EXTENDS JdbcServer, RequestPool_proofs

USE PoolAssumption, ServerAssumption

\* Whoever is in a critical section holds the lock and has read the counter.
Locked ==
  \A t \in Threads :
    /\ stage[t] \in {"locked", "read"} =>
         lock = t /\ call[t] \in Creating /\ Counter(call[t]) \in ConnectionIds
    /\ stage[t] = "read" => current[t] = Counter(call[t])
    /\ stage[t] = "running" => call[t] = "executeQuery"

\* A call is made on what its client has.
Called ==
  \A t \in Threads :
    /\ call[t] = "createConnection" => conn[t] = None
    /\ call[t] \notin {None, "createConnection"} => conn[t] # None
    /\ call[t] \in StatementCalls => arg[t] \in stmts[t]
    /\ stmts[t] # {} => conn[t] # None
    /\ conn[t] # None \/ call[t] = "createConnection" => wanted[t] \in Requests[t]

\* The ids in use have been drawn from the counters, and those not yet drawn
\* are in use nowhere.
Drawn ==
  /\ \A t \in Threads : conn[t] # None => conn[t] < connectionId
  /\ \A t \in Threads, s \in ConnectionIds : s \in stmts[t] => s < pstatementId
  /\ \A c \in ConnectionIds : c \in lost \/ connections[c] # None => c < connectionId
  /\ \A s \in ConnectionIds : s \in closed \/ pstatements[s] # None => s < pstatementId

\* A client's handles lead to its own properties.
Linked ==
  \A t \in Threads :
    /\ conn[t] # None => connections[conn[t]] = wanted[t] /\ conn[t] \notin lost
    /\ \A s \in stmts[t] : pstatements[s] = IF s \in closed THEN None ELSE conn[t]

ServerInv ==
  /\ ServerTypeOK
  /\ Locked
  /\ Called
  /\ Drawn
  /\ Linked
  /\ DistinctHandles
  /\ OwnProperties
  /\ OpenOrLost

-----------------------------------------------------------------------------
(***************************************************************************)
(* Each call of a client, and each step of a handler, keeps the invariant. *)
(***************************************************************************)
LEMMA ZeroIsAnId == 0 \in ConnectionIds
  BY DEF ConnectionIds

LEMMA ConnectStep ==
  ASSUME ServerInv, NEW t \in Threads, NEW r \in Requests[t], Connect(t, r)
  PROVE  ServerInv'
<1> USE DEF ServerInv, ServerTypeOK, Operations, Creating, StatementCalls,
            tables, handler, client, history, poolVars, progress, record
<1>1. ServerTypeOK'
  BY ZeroIsAnId DEF Connect, Send, Request
<1>2. Locked'
  BY DEF Connect, Send, Request, Locked, Counter
<1>3. Called'
  BY DEF Connect, Send, Request, Called
<1>4. Drawn'
  BY DEF Connect, Send, Request, Drawn, Locked, Called, Counter, ConnectionIds
<1>5. Linked'
  BY DEF Connect, Send, Linked, Called
<1>6. DistinctHandles'
  BY DEF Connect, Send, Request, DistinctHandles, Drawn, Locked, Called, Counter, ConnectionIds
<1>7. OwnProperties'
  BY DEF Connect, Send, Request, OwnProperties, Locked, Called
<1>8. OpenOrLost'
  BY DEF Connect, Send, Request, OpenOrLost, Drawn, Locked, Called, Linked, DistinctHandles, Counter, ConnectionIds
<1>9. QED
  BY <1>1, <1>2, <1>3, <1>4, <1>5, <1>6, <1>7, <1>8

LEMMA PrepareStep ==
  ASSUME ServerInv, NEW t \in Threads, Prepare(t)
  PROVE  ServerInv'
<1> USE DEF ServerInv, ServerTypeOK, Operations, Creating, StatementCalls,
            tables, handler, client, history, poolVars, progress, record
<1>1. ServerTypeOK'
  BY ZeroIsAnId DEF Prepare, Send
<1>2. Locked'
  BY DEF Prepare, Send, Locked, Counter
<1>3. Called'
  BY DEF Prepare, Send, Called
<1>4. Drawn'
  BY DEF Prepare, Send, Drawn, Locked, Called, Counter, ConnectionIds
<1>5. Linked'
  BY DEF Prepare, Send, Linked, Drawn, Locked, Called, DistinctHandles, Counter, ConnectionIds
<1>6. DistinctHandles'
  BY DEF Prepare, Send, DistinctHandles, Drawn, Locked, Called, Counter, ConnectionIds
<1>7. OwnProperties'
  BY DEF Prepare, Send, OwnProperties, Locked, Called
<1>8. OpenOrLost'
  BY DEF Prepare, Send, OpenOrLost, Drawn, Locked, Called, Linked, DistinctHandles, Counter, ConnectionIds
<1>9. QED
  BY <1>1, <1>2, <1>3, <1>4, <1>5, <1>6, <1>7, <1>8

LEMMA UseStatementStep ==
  ASSUME ServerInv, NEW t \in Threads, NEW op \in StatementCalls, NEW s \in stmts[t], UseStatement(t, op, s)
  PROVE  ServerInv'
<1> USE DEF ServerInv, ServerTypeOK, Operations, Creating, StatementCalls,
            tables, handler, client, history, poolVars, progress, record
<1>1. ServerTypeOK'
  BY ZeroIsAnId DEF UseStatement, Send
<1>2. Locked'
  BY DEF UseStatement, Send, Locked, Counter
<1>3. Called'
  BY DEF UseStatement, Send, Called
<1>4. Drawn'
  BY DEF UseStatement, Send, Drawn, Locked, Called, Counter, ConnectionIds
<1>5. Linked'
  BY DEF UseStatement, Send, Linked, Drawn, Locked, Called, DistinctHandles, Counter, ConnectionIds
<1>6. DistinctHandles'
  BY DEF UseStatement, Send, DistinctHandles, Drawn, Locked, Called, Counter, ConnectionIds
<1>7. OwnProperties'
  BY DEF UseStatement, Send, OwnProperties, Locked, Called
<1>8. OpenOrLost'
  BY DEF UseStatement, Send, OpenOrLost, Drawn, Locked, Called, Linked, DistinctHandles, Counter, ConnectionIds
<1>9. QED
  BY <1>1, <1>2, <1>3, <1>4, <1>5, <1>6, <1>7, <1>8

LEMMA CloseStep ==
  ASSUME ServerInv, NEW t \in Threads, Close(t)
  PROVE  ServerInv'
<1> USE DEF ServerInv, ServerTypeOK, Operations, Creating, StatementCalls,
            tables, handler, client, history, poolVars, progress, record
<1>1. ServerTypeOK'
  BY ZeroIsAnId DEF Close, Send
<1>2. Locked'
  BY DEF Close, Send, Locked, Counter
<1>3. Called'
  BY DEF Close, Send, Called
<1>4. Drawn'
  BY DEF Close, Send, Drawn, Locked, Called, Counter, ConnectionIds
<1>5. Linked'
  BY DEF Close, Send, Linked, Drawn, Locked, Called, DistinctHandles, Counter, ConnectionIds
<1>6. DistinctHandles'
  BY DEF Close, Send, DistinctHandles, Drawn, Locked, Called, Counter, ConnectionIds
<1>7. OwnProperties'
  BY DEF Close, Send, OwnProperties, Locked, Called
<1>8. OpenOrLost'
  BY DEF Close, Send, OpenOrLost, Drawn, Locked, Called, Linked, DistinctHandles, Counter, ConnectionIds
<1>9. QED
  BY <1>1, <1>2, <1>3, <1>4, <1>5, <1>6, <1>7, <1>8

LEMMA BreakStep ==
  ASSUME ServerInv, NEW t \in Threads, Break(t)
  PROVE  ServerInv'
<1> USE DEF ServerInv, ServerTypeOK, Operations, Creating, StatementCalls,
            tables, handler, client, history, poolVars, progress, record
<1>1. ServerTypeOK'
  BY ZeroIsAnId DEF Break
<1>2. Locked'
  BY DEF Break, Locked, Counter
<1>3. Called'
  BY DEF Break, Called
<1>4. Drawn'
  BY DEF Break, Drawn, Locked, Called, Counter, ConnectionIds
<1>5. Linked'
  BY DEF Break, Linked, Drawn, Locked, Called, DistinctHandles, Counter, ConnectionIds
<1>6. DistinctHandles'
  BY DEF Break, DistinctHandles, Drawn, Locked, Called, Counter, ConnectionIds
<1>7. OwnProperties'
  BY DEF Break, OwnProperties, Locked, Called
<1>8. OpenOrLost'
  BY DEF Break, OpenOrLost, Drawn, Locked, Called, Linked, DistinctHandles, Counter, ConnectionIds
<1>9. QED
  BY <1>1, <1>2, <1>3, <1>4, <1>5, <1>6, <1>7, <1>8

LEMMA AcquireStep ==
  ASSUME ServerInv, NEW t \in Threads, Acquire(t)
  PROVE  ServerInv'
<1> USE DEF ServerInv, ServerTypeOK, Operations, Creating, StatementCalls,
            tables, handler, client, history, poolVars, progress, record
<1>1. ServerTypeOK'
  BY ZeroIsAnId DEF Acquire
<1>2. Locked'
  BY DEF Acquire, Locked, Counter, ConnectionIds
<1>3. Called'
  BY DEF Acquire, Called
<1>4. Drawn'
  BY DEF Acquire, Drawn, Locked, Called, Counter, ConnectionIds
<1>5. Linked'
  BY DEF Acquire, Linked, Drawn, Locked, Called, DistinctHandles, Counter, ConnectionIds
<1>6. DistinctHandles'
  BY DEF Acquire, DistinctHandles, Drawn, Locked, Called, Counter, ConnectionIds
<1>7. OwnProperties'
  BY DEF Acquire, OwnProperties, Locked, Called
<1>8. OpenOrLost'
  BY DEF Acquire, OpenOrLost, Drawn, Locked, Called, Linked, DistinctHandles, Counter, ConnectionIds
<1>9. QED
  BY <1>1, <1>2, <1>3, <1>4, <1>5, <1>6, <1>7, <1>8

LEMMA ReadIdStep ==
  ASSUME ServerInv, NEW t \in Threads, ReadId(t)
  PROVE  ServerInv'
<1> USE DEF ServerInv, ServerTypeOK, Operations, Creating, StatementCalls,
            tables, handler, client, history, poolVars, progress, record
<1>1. ServerTypeOK'
  BY ZeroIsAnId DEF ReadId, Locked, Counter
<1>2. Locked'
  BY DEF ReadId, Locked, Counter
<1>3. Called'
  BY DEF ReadId, Called
<1>4. Drawn'
  BY DEF ReadId, Drawn, Locked, Called, Counter, ConnectionIds
<1>5. Linked'
  BY DEF ReadId, Linked, Drawn, Locked, Called, DistinctHandles, Counter, ConnectionIds
<1>6. DistinctHandles'
  BY DEF ReadId, DistinctHandles, Drawn, Locked, Called, Counter, ConnectionIds
<1>7. OwnProperties'
  BY DEF ReadId, OwnProperties, Locked, Called
<1>8. OpenOrLost'
  BY DEF ReadId, OpenOrLost, Drawn, Locked, Called, Linked, DistinctHandles, Counter, ConnectionIds
<1>9. QED
  BY <1>1, <1>2, <1>3, <1>4, <1>5, <1>6, <1>7, <1>8

LEMMA RegisterConnectionStep ==
  ASSUME ServerInv, NEW t \in Threads, RegisterConnection(t)
  PROVE  ServerInv'
<1> USE DEF ServerInv, ServerTypeOK, Operations, Creating, StatementCalls,
            tables, handler, client, history, poolVars, progress, record
<1>1. ServerTypeOK'
  BY ZeroIsAnId DEF RegisterConnection, Reply, Locked, Counter
<1>2. Locked'
  BY DEF RegisterConnection, Reply, Locked, Counter
<1>3. Called'
  BY DEF RegisterConnection, Reply, Called
<1>4. Drawn'
  BY DEF RegisterConnection, Reply, Drawn, Locked, Called, Counter, ConnectionIds
<1>5. Linked'
  BY DEF RegisterConnection, Reply, Linked, Drawn, Locked, Called, DistinctHandles, Counter, ConnectionIds
<1>6. DistinctHandles'
  BY DEF RegisterConnection, Reply, DistinctHandles, Drawn, Locked, Called, Counter, ConnectionIds
<1>7. OwnProperties'
  BY DEF RegisterConnection, Reply, OwnProperties, Locked, Called
<1>8. OpenOrLost'
  BY DEF RegisterConnection, Reply, OpenOrLost, Drawn, Locked, Called, Linked, DistinctHandles, Counter, ConnectionIds
<1>9. QED
  BY <1>1, <1>2, <1>3, <1>4, <1>5, <1>6, <1>7, <1>8

LEMMA RegisterStatementStep ==
  ASSUME ServerInv, NEW t \in Threads, RegisterStatement(t)
  PROVE  ServerInv'
<1> USE DEF ServerInv, ServerTypeOK, Operations, Creating, StatementCalls,
            tables, handler, client, history, poolVars, progress, record
<1>1. ServerTypeOK'
  BY ZeroIsAnId DEF RegisterStatement, Reply, Locked, Counter
<1>2. Locked'
  BY DEF RegisterStatement, Reply, Locked, Counter
<1>3. Called'
  BY DEF RegisterStatement, Reply, Called
<1>4. Drawn'
  BY DEF RegisterStatement, Reply, Drawn, Locked, Called, Counter, ConnectionIds
<1>5. Linked'
  BY DEF RegisterStatement, Reply, Linked, Drawn, Locked, Called, DistinctHandles, Counter, ConnectionIds
<1>6. DistinctHandles'
  BY DEF RegisterStatement, Reply, DistinctHandles, Drawn, Locked, Called, Counter, ConnectionIds
<1>7. OwnProperties'
  BY DEF RegisterStatement, Reply, OwnProperties, Locked, Called
<1>8. OpenOrLost'
  BY DEF RegisterStatement, Reply, OpenOrLost, Drawn, Locked, Called, Linked, DistinctHandles, Counter, ConnectionIds
<1>9. QED
  BY <1>1, <1>2, <1>3, <1>4, <1>5, <1>6, <1>7, <1>8

LEMMA KeyErrorStep ==
  ASSUME ServerInv, NEW t \in Threads, KeyError(t)
  PROVE  ServerInv'
<1> USE DEF ServerInv, ServerTypeOK, Operations, Creating, StatementCalls,
            tables, handler, client, history, poolVars, progress, record
<1>1. ServerTypeOK'
  BY ZeroIsAnId DEF KeyError, Reply
<1>2. Locked'
  BY DEF KeyError, Reply, Locked, Counter
<1>3. Called'
  BY DEF KeyError, Reply, Called
<1>4. Drawn'
  BY DEF KeyError, Reply, Drawn, Locked, Called, Counter, ConnectionIds
<1>5. Linked'
  BY DEF KeyError, Reply, Linked, Drawn, Locked, Called, DistinctHandles, Counter, ConnectionIds
<1>6. DistinctHandles'
  BY DEF KeyError, Reply, DistinctHandles, Drawn, Locked, Called, Counter, ConnectionIds
<1>7. OwnProperties'
  BY DEF KeyError, Reply, OwnProperties, Locked, Called
<1>8. OpenOrLost'
  BY DEF KeyError, Reply, OpenOrLost, Drawn, Locked, Called, Linked, DistinctHandles, Counter, ConnectionIds
<1>9. QED
  BY <1>1, <1>2, <1>3, <1>4, <1>5, <1>6, <1>7, <1>8

LEMMA QueryDoneStep ==
  ASSUME ServerInv, NEW t \in Threads, QueryDone(t)
  PROVE  ServerInv'
<1> USE DEF ServerInv, ServerTypeOK, Operations, Creating, StatementCalls,
            tables, handler, client, history, poolVars, progress, record
<1>1. ServerTypeOK'
  BY ZeroIsAnId DEF QueryDone, Reply
<1>2. Locked'
  BY DEF QueryDone, Reply, Locked, Counter
<1>3. Called'
  BY DEF QueryDone, Reply, Called
<1>4. Drawn'
  BY DEF QueryDone, Reply, Drawn, Locked, Called, Counter, ConnectionIds
<1>5. Linked'
  BY DEF QueryDone, Reply, Linked, Drawn, Locked, Called, DistinctHandles, Counter, ConnectionIds
<1>6. DistinctHandles'
  BY DEF QueryDone, Reply, DistinctHandles, Drawn, Locked, Called, Counter, ConnectionIds
<1>7. OwnProperties'
  BY DEF QueryDone, Reply, OwnProperties, Locked, Called
<1>8. OpenOrLost'
  BY DEF QueryDone, Reply, OpenOrLost, Drawn, Locked, Called, Linked, DistinctHandles, Counter, ConnectionIds
<1>9. QED
  BY <1>1, <1>2, <1>3, <1>4, <1>5, <1>6, <1>7, <1>8

LEMMA CloseStatementStep ==
  ASSUME ServerInv, NEW t \in Threads, CloseStatement(t)
  PROVE  ServerInv'
<1> USE DEF ServerInv, ServerTypeOK, Operations, Creating, StatementCalls,
            tables, handler, client, history, poolVars, progress, record
<1>1. ServerTypeOK'
  BY ZeroIsAnId DEF CloseStatement, Reply
<1>2. Locked'
  BY DEF CloseStatement, Reply, Locked, Counter
<1>3. Called'
  BY DEF CloseStatement, Reply, Called
<1>4. Drawn'
  BY DEF CloseStatement, Reply, Drawn, Locked, Called, Counter, ConnectionIds
<1>5. Linked'
  BY DEF CloseStatement, Reply, Linked, Drawn, Locked, Called, DistinctHandles, Counter, ConnectionIds
<1>6. DistinctHandles'
  BY DEF CloseStatement, Reply, DistinctHandles, Drawn, Locked, Called, Counter, ConnectionIds
<1>7. OwnProperties'
  BY DEF CloseStatement, Reply, OwnProperties, Locked, Called
<1>8. OpenOrLost'
  BY DEF CloseStatement, Reply, OpenOrLost, Drawn, Locked, Called, Linked, DistinctHandles, Counter, ConnectionIds
<1>9. QED
  BY <1>1, <1>2, <1>3, <1>4, <1>5, <1>6, <1>7, <1>8

LEMMA CloseConnectionStep ==
  ASSUME ServerInv, NEW t \in Threads, CloseConnection(t)
  PROVE  ServerInv'
<1> USE DEF ServerInv, ServerTypeOK, Operations, Creating, StatementCalls,
            tables, handler, client, history, poolVars, progress, record
<1>1. ServerTypeOK'
  BY ZeroIsAnId DEF CloseConnection, Reply
<1>2. Locked'
  BY DEF CloseConnection, Reply, Locked, Counter
<1>3. Called'
  BY DEF CloseConnection, Reply, Called
<1>4. Drawn'
  BY DEF CloseConnection, Reply, Drawn, Locked, Called, Counter, ConnectionIds
<1>5. Linked'
  BY DEF CloseConnection, Reply, Linked, Drawn, Locked, Called, DistinctHandles, Counter, ConnectionIds
<1>6. DistinctHandles'
  BY DEF CloseConnection, Reply, DistinctHandles, Drawn, Locked, Called, Counter, ConnectionIds
<1>7. OwnProperties'
  BY DEF CloseConnection, Reply, OwnProperties, Locked, Called
<1>8. OpenOrLost'
  BY DEF CloseConnection, Reply, OpenOrLost, Drawn, Locked, Called, Linked, DistinctHandles, Counter, ConnectionIds
<1>9. QED
  BY <1>1, <1>2, <1>3, <1>4, <1>5, <1>6, <1>7, <1>8

\* A query is given to the pool: it is the client's.
LEMMA StartQueryStep ==
  ASSUME TypeInv, ServerInv, NEW t \in Threads, StartQuery(t)
  PROVE  ServerInv' /\ wanted[t] \in Requests[t] /\ Ask(t, wanted[t])
<1> USE DEF ServerInv, ServerTypeOK, Operations, Creating, StatementCalls, tables, client, history
<1>1. Properties(arg[t]) = wanted[t] /\ wanted[t] \in Requests[t]
  BY DEF StartQuery, Properties, Called, Linked
<1>2. Ask(t, wanted[t])
  BY <1>1 DEF StartQuery
<1>3. req' = [req EXCEPT ![t] = wanted[t]]
  BY <1>2 DEF Ask
<1>4. ServerTypeOK' /\ Locked' /\ Called'
  BY DEF StartQuery, Locked, Called, Counter
<1>5. Drawn' /\ Linked' /\ DistinctHandles' /\ OpenOrLost'
  BY DEF StartQuery, Drawn, Linked, DistinctHandles, OpenOrLost
<1>6. OwnProperties'
  <2> SUFFICES ASSUME NEW u \in Threads, stage'[u] = "running" PROVE req'[u] = wanted[u]
    BY DEF OwnProperties, StartQuery
  <2>1. req \in [Threads -> Request]
    BY DEF TypeInv, PoolTypeOK
  <2>2. QED
    BY <1>3, <2>1 DEF OwnProperties, StartQuery
<1>7. QED
  BY <1>1, <1>2, <1>4, <1>5, <1>6

\* The steps of a query change nothing of the server, and not the query.
LEMMA RunQueryStep ==
  ASSUME ServerInv, NEW t \in Threads, RunQuery(t)
  PROVE  ServerInv'
<1> USE DEF ServerInv, ServerTypeOK, tables, handler, client, history
<1>1. req' = req
  BY DEF RunQuery, Exec, FindFree, FindBusy, Exhausted, Fill, ReadStart, ReadBound, ReadLength,
         OutOfRange, Raise, FreeRequest, Leave
<1>2. ServerTypeOK' /\ Locked' /\ Called' /\ Drawn' /\ Linked'
  BY DEF RunQuery, Locked, Called, Drawn, Linked, Counter
<1>3. DistinctHandles' /\ OpenOrLost' /\ OwnProperties'
  BY <1>1 DEF RunQuery, DistinctHandles, OpenOrLost, OwnProperties
<1>4. QED
  BY <1>2, <1>3

LEMMA ServerInvStep ==
  ASSUME TypeInv, ServerInv, [ServerNext]_serverVars
  PROVE  ServerInv' /\ [PoolNext]_poolVars
<1>1. ASSUME NEW t \in Threads, NEW r \in Requests[t], Connect(t, r)
      PROVE  ServerInv' /\ UNCHANGED poolVars
  BY <1>1, ConnectStep DEF Connect, Send
<1>2. ASSUME NEW t \in Threads, Prepare(t)
      PROVE  ServerInv' /\ UNCHANGED poolVars
  BY <1>2, PrepareStep DEF Prepare, Send
<1>3. ASSUME NEW t \in Threads, NEW op \in StatementCalls, NEW s \in stmts[t], UseStatement(t, op, s)
      PROVE  ServerInv' /\ UNCHANGED poolVars
  BY <1>3, UseStatementStep DEF UseStatement, Send
<1>4. ASSUME NEW t \in Threads, Close(t)
      PROVE  ServerInv' /\ UNCHANGED poolVars
  BY <1>4, CloseStep DEF Close, Send
<1>5. ASSUME NEW t \in Threads, Break(t)
      PROVE  ServerInv' /\ UNCHANGED poolVars
  BY <1>5, BreakStep DEF Break
<1>6. ASSUME NEW t \in Threads, StartQuery(t)
      PROVE  ServerInv' /\ PoolNext
  BY <1>6, StartQueryStep DEF PoolNext, TypeInv
<1>7. ASSUME NEW t \in Threads, RunQuery(t)
      PROVE  ServerInv' /\ PoolNext
  BY <1>7, RunQueryStep DEF RunQuery, PoolNext
<1>8. ASSUME NEW t \in Threads, Acquire(t) \/ ReadId(t)
      PROVE  ServerInv' /\ UNCHANGED poolVars
  BY <1>8, AcquireStep, ReadIdStep DEF Acquire, ReadId
<1>9. ASSUME NEW t \in Threads, RegisterConnection(t) \/ RegisterStatement(t)
      PROVE  ServerInv' /\ UNCHANGED poolVars
  BY <1>9, RegisterConnectionStep, RegisterStatementStep DEF RegisterConnection, RegisterStatement
<1>10. ASSUME NEW t \in Threads, KeyError(t) \/ QueryDone(t)
       PROVE  ServerInv' /\ UNCHANGED poolVars
  BY <1>10, KeyErrorStep, QueryDoneStep DEF KeyError, QueryDone
<1>11. ASSUME NEW t \in Threads, CloseStatement(t) \/ CloseConnection(t)
       PROVE  ServerInv' /\ UNCHANGED poolVars
  BY <1>11, CloseStatementStep, CloseConnectionStep DEF CloseStatement, CloseConnection
<1>12. CASE UNCHANGED serverVars
  <2>1. ServerTypeOK' /\ Locked' /\ Called' /\ Drawn' /\ Linked'
    BY <1>12 DEF ServerInv, ServerTypeOK, Locked, Called, Drawn, Linked, Counter,
                 serverVars, tables, handler, client, history
  <2>2. DistinctHandles' /\ OpenOrLost' /\ OwnProperties'
    BY <1>12 DEF ServerInv, DistinctHandles, OpenOrLost, OwnProperties, serverVars, poolVars,
                 progress, tables, handler, client, history
  <2>3. QED
    BY <1>12, <2>1, <2>2 DEF ServerInv, serverVars
<1>13. QED
  BY <1>1, <1>2, <1>3, <1>4, <1>5, <1>6, <1>7, <1>8, <1>9, <1>10, <1>11, <1>12
  DEF ServerNext, Handle

LEMMA ServerInvInit == ServerInit => ServerInv
<1> SUFFICES ASSUME ServerInit PROVE ServerInv
  OBVIOUS
<1> USE DEF ServerInit
<1>1. ServerTypeOK
  BY ZeroIsAnId, NoRequestType DEF ServerTypeOK
<1>2. Locked /\ Called
  BY DEF Locked, Called, Creating, StatementCalls, Operations
<1>3. Drawn /\ Linked /\ DistinctHandles /\ OpenOrLost /\ OwnProperties
  BY DEF Drawn, Linked, DistinctHandles, OpenOrLost, OwnProperties
<1>4. QED
  BY <1>1, <1>2, <1>3 DEF ServerInv

LEMMA ServerInvariant == ServerSpec => []ServerInv /\ PoolSpec
<1>1. PoolInit => TypeInv
  BY NoRequestType DEF PoolInit, TypeInv, PoolTypeOK, GivenViewExists, Phase, Resting, Using
<1>2. ServerInit => PoolInit /\ ServerInv
  BY ServerInvInit DEF ServerInit
<1>3. TypeInv /\ ServerInv /\ [ServerNext]_serverVars => TypeInv' /\ ServerInv' /\ [PoolNext]_poolVars
  BY ServerInvStep, TypeInvStep
<1>4. QED
  BY <1>1, <1>2, <1>3, PTL DEF ServerSpec, PoolSpec

-----------------------------------------------------------------------------
\* The server's tables, counters and handles keep their types.
THEOREM ServerTypeCorrect == ServerSpec => []ServerTypeOK
  BY ServerInvariant, PTL DEF ServerInv

\* No two clients share a connection or a statement.
THEOREM HandlesAreDistinct == ServerSpec => []DistinctHandles
  BY ServerInvariant, PTL DEF ServerInv

\* A query runs with the properties its own client connected with.
THEOREM QueriesUseOwnProperties == ServerSpec => []OwnProperties
  BY ServerInvariant, PTL DEF ServerInv

\* The server's table of connections holds the open and the broken ones.
THEOREM TableIsOpenOrLost == ServerSpec => []OpenOrLost
  BY ServerInvariant, PTL DEF ServerInv

\* Only a client that executes a statement it closed gets a KeyError.
THEOREM OnlyClosedStatementsFail == ServerSpec => []KeyErrorOnlyIfClosed
<1>1. ServerInv => KeyErrorOnlyIfClosed
  BY DEF ServerInv, ServerTypeOK, KeyErrorOnlyIfClosed, Properties, Called, Linked,
         StatementCalls, Operations, Creating
<1>2. QED
  BY <1>1, ServerInvariant, PTL

\* The server uses the pool as RequestPool says it is used.
THEOREM ServerUsesThePool == ServerSpec => UsesThePool
  BY ServerInvariant DEF UsesThePool

\* What the pool promises to a client that shares no table, the server keeps.
THEOREM ServerServesAlone == ServerSpec => ServesAlone
  BY ServerUsesThePool, AloneClientsAreServed DEF UsesThePool

\* End to end: a client that shares no table is answered from the row groups it
\* connected for, for every number of clients, views and row groups.
THEOREM ClientsGetTheirRows == ServerSpec => []RowsAsConnected
<1>1. OwnProperties /\ AnswersAreGroups => RowsAsConnected
  BY DEF OwnProperties, AnswersAreGroups, RowsAsConnected, AloneThreads, Groups
<1>2. QED
  BY <1>1, ServerInvariant, AnswersInvariant, PTL DEF ServerInv
=============================================================================
