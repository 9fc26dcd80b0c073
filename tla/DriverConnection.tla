--------------------------- MODULE DriverConnection ---------------------------
(***************************************************************************)
(* A connection of the JDBC driver that several threads use at once.       *)
(*                                                                         *)
(* Every method of QflockConnection, its statements and its metadata that  *)
(* asks the server is the same: it takes the Thrift client with lockClient,*)
(* sends a request, reads a reply from the same socket, and gives the      *)
(* client back in a finally clause.  A reply does not say whose it is.     *)
(* close() is such a call too, but it tests and sets isClosed and closes   *)
(* the socket outside the lock, while others may be in the middle of a     *)
(* call.  The lock is fair: a queue, with its holder at the head.          *)
(***************************************************************************)
EXTENDS Integers, Sequences

CONSTANT Callers      (* the threads that share the connection             *)

VARIABLES
  pc,           (* where each caller is                                    *)
  op,           (* its method: "close" or any other "call"                 *)
  queue,        (* transportLock: its holder, and who waits for it         *)
  requests,     (* the two directions of the socket: the calls under way   *)
  replies,      (* to the server, and their callers on the way back        *)
  isClosed,     (* the connection's flag                                   *)
  open,         (* the driver's end of the socket                          *)
  broken,       (* the network has reset the socket                        *)
  registered    (* the server has an entry for the connection              *)

socket   == <<requests, replies, open, broken>>
connVars == <<pc, op, queue, socket, isClosed, registered>>

ConnInit ==
  /\ pc         = [t \in Callers |-> "idle"]
  /\ op         = [t \in Callers |-> "call"]
  /\ queue      = <<>>
  /\ requests   = <<>>
  /\ replies    = <<>>
  /\ isClosed   = FALSE
  /\ open       = TRUE
  /\ broken     = FALSE
  /\ registered = TRUE

Usable == open /\ ~ broken

\* lockClient joins the queue.
lockClient(t, o) ==
  /\ pc[t] = "idle"
  /\ op'    = [op EXCEPT ![t] = o]
  /\ queue' = Append(queue, t)
  /\ pc'    = [pc EXCEPT ![t] = "locking"]
  /\ UNCHANGED <<socket, isClosed, registered>>

Call(t) == lockClient(t, "call")

\* close() does nothing once isClosed is set.
Close(t) == ~ isClosed /\ lockClient(t, "close")

\* Mutant of Holds: whoever waits has the lock.
HoldsAny(t) == \E i \in 1 .. Len(queue) : queue[i] = t

\* transportLock.lock() has returned.
Holds(t) == queue # <<>> /\ Head(queue) = t

Send(t) ==
  /\ pc[t] = "locking"
  /\ Holds(t)
  /\ Usable
  /\ requests' = Append(requests, [caller |-> t, op |-> op[t]])
  /\ pc'       = [pc EXCEPT ![t] = "sent"]
  /\ UNCHANGED <<op, queue, replies, open, broken, isClosed, registered>>

\* Mutant of unlockClient: not in a finally clause.
unlockClientUnlessFailed(t, failed) ==
  /\ queue' = IF failed THEN queue ELSE Tail(queue)
  /\ pc'    = [pc EXCEPT ![t] = IF op[t] = "close" THEN "unlocked" ELSE "idle"]

\* The finally clause, whether the call has failed or not.
unlockClient(t, failed) ==
  /\ queue' = Tail(queue)
  /\ pc'    = [pc EXCEPT ![t] = IF op[t] = "close" THEN "unlocked" ELSE "idle"]

Receive(t) ==
  /\ pc[t] = "sent"
  /\ Usable
  /\ replies # <<>>
  /\ replies' = Tail(replies)
  /\ unlockClient(t, FALSE)
  /\ UNCHANGED <<op, requests, open, broken, isClosed, registered>>

\* The socket cannot be written or read: the method throws an SQLException.
Fail(t) ==
  /\ \/ pc[t] = "locking" /\ Holds(t)
     \/ pc[t] = "sent"
  /\ ~ Usable
  /\ unlockClient(t, TRUE)
  /\ UNCHANGED <<op, socket, isClosed, registered>>

\* close(), after the call: the flag is set, then the socket is closed.
MarkClosed(t) ==
  /\ pc[t] = "unlocked"
  /\ isClosed' = TRUE
  /\ pc'       = [pc EXCEPT ![t] = "marked"]
  /\ UNCHANGED <<op, queue, socket, registered>>

CloseTransport(t) ==
  /\ pc[t] = "marked"
  /\ open' = FALSE
  /\ pc'   = [pc EXCEPT ![t] = "idle"]
  /\ UNCHANGED <<op, queue, requests, replies, broken, isClosed, registered>>

Step(t) == Send(t) \/ Receive(t) \/ Fail(t) \/ MarkClosed(t) \/ CloseTransport(t)

\* Mutant of Serve: the entry of a closed connection is kept.
ServeKeeps ==
  /\ requests # <<>>
  /\ ~ broken
  /\ requests' = Tail(requests)
  /\ replies'  = Append(replies, Head(requests).caller)
  /\ UNCHANGED <<pc, op, queue, open, broken, isClosed, registered>>

\* The handler thread of this socket serves the next request.  One that was on
\* its way when the driver closed its end may still be served.
Serve ==
  /\ requests # <<>>
  /\ ~ broken
  /\ registered' = (registered /\ Head(requests).op # "close")
  /\ requests'   = Tail(requests)
  /\ replies'    = Append(replies, Head(requests).caller)
  /\ UNCHANGED <<pc, op, queue, open, broken, isClosed>>

\* The network fails.
Break ==
  /\ Usable
  /\ broken' = TRUE
  /\ UNCHANGED <<pc, op, queue, requests, replies, open, isClosed, registered>>

ConnNext ==
  \/ \E t \in Callers : Call(t) \/ Close(t) \/ Step(t)
  \/ Serve
  \/ Break

ConnSpec == ConnInit /\ [][ConnNext]_connVars

\* Threads that can run do, the server answers, and whoever is next in the
\* queue gets the lock.
ConnFairSpec ==
  /\ ConnSpec
  /\ WF_connVars(Serve)
  /\ \A t \in Callers : WF_connVars(Step(t))

-----------------------------------------------------------------------------
Kind  == {"call", "close"}
Place == {"idle", "locking", "sent", "unlocked", "marked"}

Distinct(s) == \A i, j \in 1 .. Len(s) : s[i] = s[j] => i = j

\* The type invariant.  A thread is in the lock's queue at most once.
ConnTypeOK ==
  /\ pc       \in [Callers -> Place]
  /\ op       \in [Callers -> Kind]
  /\ queue    \in Seq(Callers) /\ Distinct(queue)
  /\ requests \in Seq([caller : Callers, op : Kind])
  /\ replies  \in Seq(Callers)
  /\ isClosed \in BOOLEAN /\ open \in BOOLEAN /\ broken \in BOOLEAN /\ registered \in BOOLEAN

\* A caller reads the reply to its own request, though a reply does not say
\* whose it is, and failed calls may leave requests and replies behind.
OwnReply ==
  \A t \in Callers : pc[t] = "sent" /\ Usable /\ replies # <<>> => Head(replies) = t

\* The driver does not close the socket before the server has forgotten the
\* connection, even if several threads close it at once; only a network that
\* breaks leaves an entry behind.
ToldBeforeClosed == registered => open \/ broken

\* Every call returns, also those that wait for the lock when the connection is
\* closed or breaks.
EveryCallReturns == \A t \in Callers : pc[t] = "locking" ~> pc[t] = "idle"

-----------------------------------------------------------------------------
(***************************************************************************)
(* What the callers see of it: the calls that are made, where they are on  *)
(* their way, and the calls nobody waits for any more.                     *)
(***************************************************************************)
Replied(t) == \E i \in DOMAIN replies : replies[i] = t

CallStatus ==
  [t \in Callers |-> IF pc[t] = "sent" /\ Replied(t) THEN "served"
                     ELSE IF pc[t] \in {"locking", "sent"} THEN "pending" ELSE "idle"]

LostCalls ==
  {requests[i].op : i \in {j \in DOMAIN requests : pc[requests[j].caller] # "sent"}}

Service == INSTANCE CallService WITH
  Kinds  <- Kind,
  status <- CallStatus,
  lost   <- LostCalls

\* Calls over the one socket are served as if each were served atomically between
\* its start and its return, although replies do not say whose they are, several
\* threads close the connection, and calls fail in the middle.
ServesCalls == Service!Spec
=============================================================================
