------------------------ MODULE DriverConnection_proofs ------------------------
(***************************************************************************)
(* For any number of threads on one connection: the type invariant, every  *)
(* caller reads its own reply, the server is told before the socket is     *)
(* closed, and CallService is implemented.                                 *)
(*                                                                         *)
(* None of them is inductive.  What carries them is that the lock's holder *)
(* is the only thread in the middle of a call (SenderHoldsLock) and that,  *)
(* as long as the socket works, at most one request or reply is on it, the *)
(* holder's (OneInFlight); and, of closing, that whoever has come back     *)
(* from closeConnection leaves no entry behind unless the socket failed.   *)
(***************************************************************************)
EXTENDS DriverConnection, SequenceTheorems, TLAPS

QueuedWait ==
  \A i \in 1 .. Len(queue) : pc[queue[i]] \in {"locking", "sent"}

SenderHoldsLock == \A t \in Callers : pc[t] = "sent" => Holds(t)

\* What is on a socket that works.
NoCall      == requests = <<>> /\ replies = <<>> /\ \A t \in Callers : pc[t] # "sent"
Asking(t)   == requests = <<[caller |-> t, op |-> op[t]]>> /\ replies = <<>> /\ pc[t] = "sent"
Answered(t) == /\ requests = <<>> /\ replies = <<t>> /\ pc[t] = "sent"
               /\ op[t] = "close" => ~ registered

OneInFlight ==
  Usable => NoCall \/ \E t \in Callers : Asking(t) \/ Answered(t)

ClosersTold ==
  \A t \in Callers : pc[t] \in {"unlocked", "marked"} => ~ registered \/ broken

ConnInv ==
  /\ ConnTypeOK
  /\ QueuedWait
  /\ SenderHoldsLock
  /\ OneInFlight
  /\ ClosersTold
  /\ ToldBeforeClosed

-----------------------------------------------------------------------------
\* Giving the lock back: the rest of the queue, without its holder.
LEMMA TailOfQueue ==
  ASSUME NEW q \in Seq(Callers), Distinct(q), q # <<>>
  PROVE  /\ Tail(q) \in Seq(Callers)
         /\ Distinct(Tail(q))
         /\ \A i \in 1 .. Len(Tail(q)) :
              i + 1 \in 1 .. Len(q) /\ Tail(q)[i] = q[i + 1] /\ q[i + 1] # Head(q)
<1>1. Tail(q) \in Seq(Callers) /\ Len(Tail(q)) = Len(q) - 1 /\ Len(q) \in Nat
  OBVIOUS
<1>2. \A i \in 1 .. Len(Tail(q)) : i + 1 \in 1 .. Len(q) /\ Tail(q)[i] = q[i + 1]
  BY <1>1
<1>3. \A i \in 1 .. Len(Tail(q)) : q[i + 1] # q[1]
  BY <1>1, <1>2 DEF Distinct
<1>4. Distinct(Tail(q))
  <2> SUFFICES ASSUME NEW i \in 1 .. Len(Tail(q)), NEW j \in 1 .. Len(Tail(q)),
                      Tail(q)[i] = Tail(q)[j]
               PROVE  i = j
    BY DEF Distinct
  <2>1. q[i + 1] = q[j + 1]
    BY <1>2
  <2>2. i + 1 = j + 1
    BY <2>1, <1>2 DEF Distinct
  <2> QED
    BY <2>2, <1>1
<1> QED
  BY <1>1, <1>2, <1>3, <1>4

\* Asking for the lock: one more in the queue, last.
LEMMA AppendToQueue ==
  ASSUME NEW q \in Seq(Callers), Distinct(q), NEW t \in Callers,
         \A i \in 1 .. Len(q) : q[i] # t
  PROVE  /\ Append(q, t) \in Seq(Callers)
         /\ Distinct(Append(q, t))
         /\ Append(q, t) # <<>>
         /\ q # <<>> => Head(Append(q, t)) = Head(q)
         /\ \A i \in 1 .. Len(Append(q, t)) :
              \/ i \in 1 .. Len(q) /\ Append(q, t)[i] = q[i]
              \/ Append(q, t)[i] = t
<1>1. /\ Append(q, t) \in Seq(Callers)
      /\ Len(Append(q, t)) = Len(q) + 1
      /\ Len(q) \in Nat
      /\ Append(q, t)[Len(q) + 1] = t
      /\ \A i \in 1 .. Len(q) : Append(q, t)[i] = q[i]
  OBVIOUS
<1>2. Distinct(Append(q, t))
  BY <1>1 DEF Distinct
<1>3. \A i \in 1 .. Len(Append(q, t)) : i \in 1 .. Len(q) \/ i = Len(q) + 1
  BY <1>1
<1>4. q # <<>> => Head(Append(q, t)) = Head(q)
  BY <1>1
<1> QED
  BY <1>1, <1>2, <1>3, <1>4

\* The first of a sequence, and the others.
LEMMA HeadAndTail ==
  ASSUME NEW S, NEW s \in Seq(S), s # <<>>
  PROVE  Head(s) \in S /\ Tail(s) \in Seq(S)
OBVIOUS

THEOREM InitConnInv == ConnInit => ConnInv
<1> SUFFICES ASSUME ConnInit PROVE ConnInv
  OBVIOUS
<1> USE DEF ConnInit
<1>1. ConnTypeOK
  <2>1. /\ queue \in Seq(Callers) /\ Len(queue) = 0
        /\ requests \in Seq([caller : Callers, op : Kind])
        /\ replies \in Seq(Callers)
    OBVIOUS
  <2>2. Distinct(queue)
    BY <2>1 DEF Distinct
  <2>3. pc \in [Callers -> Place] /\ op \in [Callers -> Kind]
    BY DEF Place, Kind
  <2> QED
    BY <2>1, <2>2, <2>3 DEF ConnTypeOK
<1>2. QueuedWait /\ SenderHoldsLock /\ ClosersTold /\ ToldBeforeClosed
  BY DEF QueuedWait, SenderHoldsLock, ClosersTold, ToldBeforeClosed
<1>3. OneInFlight
  BY DEF OneInFlight, NoCall
<1> QED
  BY <1>1, <1>2, <1>3 DEF ConnInv

\* A thread asks for the client.
LEMMA LockPreserves ==
  ASSUME ConnInv, NEW t \in Callers, NEW o \in Kind, lockClient(t, o)
  PROVE  ConnInv'
<1> USE DEF lockClient, socket
<1>0. ConnTypeOK /\ pc[t] = "idle"
  BY DEF ConnInv
<1>1. \A i \in 1 .. Len(queue) : queue[i] \in Callers /\ queue[i] # t
  BY <1>0 DEF ConnInv, ConnTypeOK, QueuedWait
<1>2. /\ queue' \in Seq(Callers)
      /\ Distinct(queue')
      /\ queue' # <<>>
      /\ queue # <<>> => Head(queue') = Head(queue)
      /\ \A i \in 1 .. Len(queue') :
           \/ i \in 1 .. Len(queue) /\ queue'[i] = queue[i]
           \/ queue'[i] = t
  BY <1>0, <1>1, AppendToQueue DEF ConnTypeOK
<1>3. /\ pc' \in [Callers -> Place] /\ op' \in [Callers -> Kind]
      /\ pc'[t] = "locking"
      /\ \A u \in Callers : u # t => pc'[u] = pc[u] /\ op'[u] = op[u]
  BY <1>0 DEF ConnTypeOK, Place
<1>4. ConnTypeOK'
  BY <1>0, <1>2, <1>3 DEF ConnTypeOK
<1>5. QueuedWait'
  BY <1>1, <1>2, <1>3 DEF ConnInv, QueuedWait
<1>6. SenderHoldsLock'
  BY <1>2, <1>3 DEF ConnInv, SenderHoldsLock, Holds
<1>7. OneInFlight'
  BY <1>0, <1>3 DEF ConnInv, OneInFlight, NoCall, Asking, Answered, Usable
<1>8. ClosersTold' /\ ToldBeforeClosed'
  BY <1>3 DEF ConnInv, ClosersTold, ToldBeforeClosed
<1> QED
  BY <1>4, <1>5, <1>6, <1>7, <1>8 DEF ConnInv

\* The holder gives the client back: the queue and the program counters.
LEMMA UnlockKeepsQueue ==
  ASSUME ConnInv, NEW t \in Callers, Holds(t), NEW failed, unlockClient(t, failed)
  PROVE  /\ queue' \in Seq(Callers) /\ Distinct(queue')
         /\ pc' \in [Callers -> Place]
         /\ pc'[t] = IF op[t] = "close" THEN "unlocked" ELSE "idle"
         /\ \A u \in Callers : u # t => pc'[u] = pc[u] /\ pc[u] # "sent"
         /\ QueuedWait'
         /\ SenderHoldsLock'
<1> USE DEF unlockClient
<1>0. ConnTypeOK
  BY DEF ConnInv
<1>1. /\ queue' \in Seq(Callers)
      /\ Distinct(queue')
      /\ \A i \in 1 .. Len(queue') :
           i + 1 \in 1 .. Len(queue) /\ queue'[i] = queue[i + 1] /\ queue[i + 1] # t
  BY <1>0, TailOfQueue DEF ConnTypeOK, Holds
<1>2. /\ pc' \in [Callers -> Place]
      /\ pc'[t] = IF op[t] = "close" THEN "unlocked" ELSE "idle"
      /\ \A u \in Callers : u # t => pc'[u] = pc[u]
  BY <1>0 DEF ConnTypeOK, Place
<1>3. \A u \in Callers : u # t => pc[u] # "sent"
  BY DEF ConnInv, SenderHoldsLock, Holds
<1>4. QueuedWait'
  <2> SUFFICES ASSUME NEW i \in 1 .. Len(queue')
               PROVE  pc'[queue'[i]] \in {"locking", "sent"}
    BY DEF QueuedWait
  <2>1. queue'[i] \in Callers /\ queue'[i] # t
    BY <1>0, <1>1 DEF ConnTypeOK
  <2>2. pc[queue'[i]] \in {"locking", "sent"}
    BY <1>1 DEF ConnInv, QueuedWait
  <2> QED
    BY <1>2, <2>1, <2>2
<1>5. SenderHoldsLock'
  BY <1>2, <1>3 DEF SenderHoldsLock
<1> QED
  BY <1>1, <1>2, <1>3, <1>4, <1>5

LEMMA SendPreserves ==
  ASSUME ConnInv, NEW t \in Callers, Send(t)
  PROVE  ConnInv'
<1> USE DEF Send
<1>0. ConnTypeOK /\ queue # <<>> /\ Usable /\ Usable'
  BY DEF ConnInv, Holds, Usable
<1>1. /\ pc' \in [Callers -> Place] /\ pc'[t] = "sent"
      /\ \A u \in Callers : u # t => pc'[u] = pc[u] /\ pc[u] # "sent"
  BY <1>0 DEF ConnInv, ConnTypeOK, Place, SenderHoldsLock, Holds
<1>2. NoCall
  BY <1>0, <1>1 DEF ConnInv, OneInFlight, Asking, Answered
<1>3. requests' = <<[caller |-> t, op |-> op[t]]>>
  BY <1>2 DEF NoCall
<1>4. requests' \in Seq([caller : Callers, op : Kind])
  BY <1>0, <1>3 DEF ConnTypeOK
<1>5. ConnTypeOK'
  BY <1>0, <1>1, <1>4 DEF ConnTypeOK
<1>6. QueuedWait' /\ SenderHoldsLock'
  <2>1. \A i \in 1 .. Len(queue) : queue[i] \in Callers
    BY <1>0 DEF ConnTypeOK
  <2> QED
    BY <1>1, <2>1 DEF ConnInv, QueuedWait, SenderHoldsLock, Holds
<1>7. OneInFlight'
  BY <1>1, <1>2, <1>3 DEF OneInFlight, NoCall, Asking
<1>8. ClosersTold' /\ ToldBeforeClosed'
  BY <1>1 DEF ConnInv, ClosersTold, ToldBeforeClosed
<1> QED
  BY <1>5, <1>6, <1>7, <1>8 DEF ConnInv

LEMMA ReceivePreserves ==
  ASSUME ConnInv, NEW t \in Callers, Receive(t)
  PROVE  ConnInv'
<1> USE DEF Receive
<1>0. ConnTypeOK /\ Holds(t) /\ Usable /\ unlockClient(t, FALSE)
  BY DEF ConnInv, SenderHoldsLock
<1>1. /\ queue' \in Seq(Callers) /\ Distinct(queue')
      /\ pc' \in [Callers -> Place]
      /\ pc'[t] = IF op[t] = "close" THEN "unlocked" ELSE "idle"
      /\ \A u \in Callers : u # t => pc'[u] = pc[u] /\ pc[u] # "sent"
      /\ QueuedWait' /\ SenderHoldsLock'
  BY <1>0, UnlockKeepsQueue
<1>2. Answered(t)
  <2>1. PICK u \in Callers : Asking(u) \/ Answered(u)
    BY <1>0 DEF ConnInv, OneInFlight, NoCall
  <2>2. u = t
    BY <1>1, <2>1 DEF Asking, Answered
  <2> QED
    BY <2>1, <2>2 DEF Asking
<1>3. requests' = <<>> /\ replies' = <<>>
  BY <1>2 DEF Answered
<1>4. ConnTypeOK'
  BY <1>0, <1>1, <1>3 DEF ConnTypeOK
<1>5. OneInFlight'
  BY <1>1, <1>3 DEF OneInFlight, NoCall
<1>6. ClosersTold' /\ ToldBeforeClosed'
  BY <1>1, <1>2 DEF ConnInv, ClosersTold, ToldBeforeClosed, Answered
<1> QED
  BY <1>1, <1>4, <1>5, <1>6 DEF ConnInv

\* A call that fails does so on a socket that no longer works.
LEMMA FailPreserves ==
  ASSUME ConnInv, NEW t \in Callers, Fail(t)
  PROVE  ConnInv'
<1> USE DEF Fail, socket
<1>0. ConnTypeOK /\ Holds(t) /\ unlockClient(t, TRUE)
  BY DEF ConnInv, SenderHoldsLock
<1>1. /\ queue' \in Seq(Callers) /\ Distinct(queue')
      /\ pc' \in [Callers -> Place]
      /\ pc'[t] = IF op[t] = "close" THEN "unlocked" ELSE "idle"
      /\ \A u \in Callers : u # t => pc'[u] = pc[u] /\ pc[u] # "sent"
      /\ QueuedWait' /\ SenderHoldsLock'
  BY <1>0, UnlockKeepsQueue
<1>2. ConnTypeOK'
  BY <1>0, <1>1 DEF ConnTypeOK
<1>3. OneInFlight'
  BY DEF OneInFlight, Usable
<1>4. ClosersTold' /\ ToldBeforeClosed'
  BY <1>0, <1>1 DEF ConnInv, ClosersTold, ToldBeforeClosed, Usable, ConnTypeOK
<1> QED
  BY <1>1, <1>2, <1>3, <1>4 DEF ConnInv

\* close(), after the call.
LEMMA ClosePreserves ==
  ASSUME ConnInv, NEW t \in Callers, MarkClosed(t) \/ CloseTransport(t)
  PROVE  ConnInv'
<1> USE DEF MarkClosed, CloseTransport, socket
<1>0. ConnTypeOK /\ pc[t] \in {"unlocked", "marked"}
  BY DEF ConnInv
<1>1. /\ pc' \in [Callers -> Place] /\ pc'[t] \in {"marked", "idle"}
      /\ \A u \in Callers : u # t => pc'[u] = pc[u]
  BY <1>0 DEF ConnTypeOK, Place
<1>2. ConnTypeOK'
  BY <1>0, <1>1 DEF ConnTypeOK
<1>3. QueuedWait'
  <2>1. \A i \in 1 .. Len(queue) : queue[i] \in Callers /\ queue[i] # t
    BY <1>0 DEF ConnInv, ConnTypeOK, QueuedWait
  <2> QED
    BY <1>1, <2>1 DEF ConnInv, QueuedWait
<1>4. SenderHoldsLock'
  BY <1>1 DEF ConnInv, SenderHoldsLock, Holds
<1>5. OneInFlight'
  <2>1. CASE CloseTransport(t)
    BY <2>1 DEF OneInFlight, Usable
  <2>2. CASE MarkClosed(t)
    <3>1. /\ UNCHANGED <<requests, replies, open, broken, op, registered>>
          /\ \A u \in Callers : pc[u] = "sent" <=> pc'[u] = "sent"
      BY <1>1, <2>2
    <3> QED
      BY <3>1 DEF ConnInv, OneInFlight, NoCall, Asking, Answered, Usable
  <2> QED
    BY <2>1, <2>2
<1>6. ClosersTold' /\ ToldBeforeClosed'
  BY <1>0, <1>1 DEF ConnInv, ClosersTold, ToldBeforeClosed
<1> QED
  BY <1>2, <1>3, <1>4, <1>5, <1>6 DEF ConnInv

\* The server's thread, which serves a request even after the driver has closed
\* its end.
LEMMA ServePreserves ==
  ASSUME ConnInv, Serve
  PROVE  ConnInv'
<1> USE DEF Serve
<1>0. ConnTypeOK
  BY DEF ConnInv
<1>1. /\ Head(requests) \in [caller : Callers, op : Kind]
      /\ Tail(requests) \in Seq([caller : Callers, op : Kind])
  BY <1>0, HeadAndTail DEF ConnTypeOK
<1>2. /\ requests' \in Seq([caller : Callers, op : Kind])
      /\ replies' \in Seq(Callers)
      /\ registered' \in BOOLEAN
      /\ registered' => registered
  BY <1>0, <1>1 DEF ConnTypeOK
<1>3. ConnTypeOK'
  BY <1>0, <1>2 DEF ConnTypeOK
<1>4. OneInFlight'
  <2> SUFFICES ASSUME Usable
               PROVE  \E t \in Callers : Answered(t)'
    BY DEF OneInFlight, Usable
  <2>1. PICK t \in Callers : Asking(t)
    BY DEF ConnInv, OneInFlight, NoCall, Answered
  <2>2. requests' = <<>> /\ replies' = <<t>>
    BY <2>1 DEF Asking
  <2>3. Head(requests) = [caller |-> t, op |-> op[t]]
    BY <2>1 DEF Asking
  <2>4. op[t] = "close" => ~ registered'
    <3>1. Head(requests).op = op[t]
      BY <2>3
    <3>2. registered' => Head(requests).op # "close"
      BY Zenon
    <3> QED
      BY <3>1, <3>2
  <2> QED
    BY <2>1, <2>2, <2>4 DEF Asking, Answered
<1>5. QueuedWait' /\ SenderHoldsLock' /\ ClosersTold' /\ ToldBeforeClosed'
  BY <1>2 DEF ConnInv, QueuedWait, SenderHoldsLock, Holds, ClosersTold, ToldBeforeClosed
<1> QED
  BY <1>3, <1>4, <1>5 DEF ConnInv

LEMMA BreakPreserves ==
  ASSUME ConnInv, Break
  PROVE  ConnInv'
BY DEF Break, ConnInv, ConnTypeOK, QueuedWait, SenderHoldsLock, Holds, OneInFlight, Usable,
       ClosersTold, ToldBeforeClosed

LEMMA StutterPreserves ==
  ASSUME ConnInv, UNCHANGED connVars
  PROVE  ConnInv'
BY DEF connVars, socket, ConnInv, ConnTypeOK, QueuedWait, SenderHoldsLock, Holds, OneInFlight,
       NoCall, Asking, Answered, Usable, ClosersTold, ToldBeforeClosed

\* The invariant holds in every reachable state.
THEOREM ConnInvariant == ConnSpec => []ConnInv
<1>1. ASSUME ConnInv, [ConnNext]_connVars
      PROVE  ConnInv'
  <2>1. ASSUME NEW t \in Callers, Call(t)
        PROVE  ConnInv'
    BY <1>1, <2>1, LockPreserves DEF Call, Kind
  <2>2. ASSUME NEW t \in Callers, Close(t)
        PROVE  ConnInv'
    BY <1>1, <2>2, LockPreserves DEF Close, Kind
  <2>3. ASSUME NEW t \in Callers, Step(t)
        PROVE  ConnInv'
    BY <1>1, <2>3, SendPreserves, ReceivePreserves, FailPreserves, ClosePreserves DEF Step
  <2>4. CASE Serve
    BY <1>1, <2>4, ServePreserves
  <2>5. CASE Break
    BY <1>1, <2>5, BreakPreserves
  <2>6. CASE UNCHANGED connVars
    BY <1>1, <2>6, StutterPreserves
  <2> QED
    BY <1>1, <2>1, <2>2, <2>3, <2>4, <2>5, <2>6 DEF ConnNext
<1> QED
  BY <1>1, InitConnInv, PTL DEF ConnSpec

\* Type correctness; no thread waits twice for the lock of its connection.
THEOREM ConnTypeCorrect == ConnSpec => []ConnTypeOK
<1>1. ConnInv => ConnTypeOK
  BY DEF ConnInv
<1> QED
  BY <1>1, ConnInvariant, PTL

\* Every caller reads the reply to its own request.
THEOREM CallersReadOwnReply == ConnSpec => []OwnReply
<1>1. ConnInv => OwnReply
  <2> SUFFICES ASSUME ConnInv, NEW t \in Callers, pc[t] = "sent", Usable, replies # <<>>
               PROVE  Head(replies) = t
    BY DEF OwnReply
  <2>1. PICK u \in Callers : Answered(u)
    BY DEF ConnInv, OneInFlight, NoCall, Asking
  <2>2. u = t
    BY <2>1 DEF ConnInv, SenderHoldsLock, Holds, Answered
  <2> QED
    BY <2>1, <2>2 DEF Answered
<1> QED
  BY <1>1, ConnInvariant, PTL

\* The server has forgotten a connection before the driver closes its socket,
\* unless the network has failed.
THEOREM ServerToldBeforeClosed == ConnSpec => []ToldBeforeClosed
<1>1. ConnInv => ToldBeforeClosed
  BY DEF ConnInv
<1> QED
  BY <1>1, ConnInvariant, PTL

-----------------------------------------------------------------------------
(***************************************************************************)
(* The connection implements CallService.  OneInFlight speaks of a socket  *)
(* that works; for the calls that fail one must know what is left on one   *)
(* that does not: the call of the thread that was in the middle of it, or  *)
(* of one that has given up.                                               *)
(***************************************************************************)
OnlySender(t) == \A u \in Callers : pc[u] = "sent" => u = t

Requested(t, o) ==
  /\ requests = <<[caller |-> t, op |-> o]>> /\ replies = <<>>
  /\ OnlySender(t)
  /\ pc[t] = "sent" => op[t] = o

RepliedTo(t) == requests = <<>> /\ replies = <<t>> /\ OnlySender(t)

Carried ==
  \/ NoCall
  \/ \E t \in Callers, o \in Kind : Requested(t, o)
  \/ \E t \in Callers : RepliedTo(t)

CallInv == ConnInv /\ Carried

LEMMA CarriedStep ==
  ASSUME CallInv, [ConnNext]_connVars
  PROVE  Carried'
<1> USE DEF CallInv, socket
<1>0. ConnTypeOK /\ ConnInv
  BY DEF ConnInv
<1>1. ASSUME NEW t \in Callers, NEW o \in Kind, lockClient(t, o) PROVE Carried'
  <2>1. /\ UNCHANGED <<requests, replies>> /\ pc[t] = "idle" /\ pc'[t] = "locking"
        /\ \A u \in Callers : u # t => pc'[u] = pc[u] /\ op'[u] = op[u]
    BY <1>0, <1>1 DEF lockClient, ConnTypeOK
  <2> QED
    BY <2>1 DEF Carried, NoCall, Requested, RepliedTo, OnlySender
<1>2. ASSUME NEW t \in Callers, Send(t) PROVE Carried'
  <2>1. NoCall /\ op[t] \in Kind
    <3>1. NoCall
      BY <1>0, <1>2 DEF ConnInv, OneInFlight, SenderHoldsLock, Holds, Asking, Answered, Send
    <3> QED
      BY <1>0, <3>1 DEF ConnTypeOK
  <2>2. /\ requests' = <<[caller |-> t, op |-> op[t]]>> /\ replies' = <<>> /\ op' = op
        /\ \A u \in Callers : pc'[u] = "sent" => u = t
    BY <1>0, <1>2, <2>1 DEF Send, NoCall, ConnTypeOK
  <2>3. PICK o \in Kind : o = op[t]
    BY <2>1
  <2>4. Requested(t, o)'
    BY <2>2, <2>3 DEF Requested, OnlySender
  <2>5. \E u \in Callers, k \in Kind : Requested(u, k)'
    BY <2>4
  <2> QED
    BY <2>5 DEF Carried
<1>3. ASSUME NEW t \in Callers, Receive(t) \/ Fail(t) PROVE Carried'
  <2>1. Holds(t) /\ \E failed : unlockClient(t, failed)
    BY <1>0, <1>3 DEF ConnInv, SenderHoldsLock, Receive, Fail
  <2>2. pc'[t] # "sent" /\ \A u \in Callers : u # t => pc'[u] = pc[u] /\ pc[u] # "sent"
    BY <1>0, <2>1, UnlockKeepsQueue
  <2>3. op' = op
    BY <1>3 DEF Receive, Fail
  <2>4. CASE Fail(t)
    BY <2>2, <2>3, <2>4 DEF Fail, Carried, NoCall, Requested, RepliedTo, OnlySender
  <2>5. CASE Receive(t)
    <3>1. PICK u \in Callers : RepliedTo(u)
      BY <2>5 DEF Receive, Carried, NoCall, Requested
    <3>2. requests' = <<>> /\ replies' = <<>>
      BY <2>5, <3>1 DEF Receive, RepliedTo
    <3>3. \A c \in Callers : pc'[c] # "sent"
      BY <2>2
    <3> QED
      BY <3>2, <3>3 DEF Carried, NoCall
  <2> QED
    BY <1>3, <2>4, <2>5
<1>4. ASSUME NEW t \in Callers, MarkClosed(t) \/ CloseTransport(t) PROVE Carried'
  <2>1. /\ UNCHANGED <<requests, replies, op>>
        /\ \A u \in Callers : pc'[u] = "sent" => pc[u] = "sent"
    BY <1>0, <1>4 DEF MarkClosed, CloseTransport, ConnTypeOK
  <2> QED
    BY <2>1 DEF Carried, NoCall, Requested, RepliedTo, OnlySender
<1>5. CASE Serve
  <2>1. PICK t \in Callers, o \in Kind : Requested(t, o)
    BY <1>5 DEF Carried, NoCall, RepliedTo, Serve
  <2>2. requests' = <<>> /\ replies' = <<t>> /\ pc' = pc
    BY <1>5, <2>1 DEF Serve, Requested
  <2> QED
    BY <2>1, <2>2 DEF Carried, Requested, RepliedTo, OnlySender
<1>6. CASE Break \/ UNCHANGED connVars
  <2>1. UNCHANGED <<requests, replies, pc, op>>
    BY <1>6 DEF Break, connVars
  <2> QED
    BY <2>1 DEF Carried, NoCall, Requested, RepliedTo, OnlySender
<1> QED
  BY <1>1, <1>2, <1>3, <1>4, <1>5, <1>6 DEF ConnNext, Call, Close, Step, Kind

LEMMA CallInvariant == ConnSpec => []CallInv
<1>1. ConnInit => Carried
  BY DEF ConnInit, Carried, NoCall
<1>2. ConnInv /\ Carried /\ [ConnNext]_connVars => Carried'
  BY CarriedStep DEF CallInv
<1> QED
  BY <1>1, <1>2, ConnInvariant, PTL DEF ConnSpec, CallInv

-----------------------------------------------------------------------------
\* What is visible of the callers that a step leaves where they are.
LEMMA OneCallChanges ==
  ASSUME NEW t \in Callers,
         \A u \in Callers : u # t => /\ pc'[u] = pc[u]
                                     /\ pc[u] = "sent" => (Replied(u)' <=> Replied(u))
  PROVE  CallStatus' = [CallStatus EXCEPT ![t] = CallStatus'[t]]
<1>1. \A u \in Callers : u # t => CallStatus'[u] = CallStatus[u]
  BY DEF CallStatus
<1> QED
  BY <1>1 DEF CallStatus

LEMMA SameStatus ==
  ASSUME NEW t \in Callers, CallStatus'[t] = CallStatus[t],
         CallStatus' = [CallStatus EXCEPT ![t] = CallStatus'[t]]
  PROVE  CallStatus' = CallStatus
BY DEF CallStatus

\* At most one call is lost: the one on the socket that nobody waits for.
LEMMA LostOf ==
  /\ requests = <<>> => LostCalls = {}
  /\ \A t \in Callers, o \in Kind : requests = <<[caller |-> t, op |-> o]>> =>
       LostCalls = IF pc[t] = "sent" THEN {} ELSE {o}
<1>1. requests = <<>> => LostCalls = {}
  BY DEF LostCalls
<1>2. ASSUME NEW t \in Callers, NEW o \in Kind, requests = <<[caller |-> t, op |-> o]>>
      PROVE  LostCalls = IF pc[t] = "sent" THEN {} ELSE {o}
  <2>1. DOMAIN requests = {1} /\ requests[1].caller = t /\ requests[1].op = o
    BY <1>2
  <2> QED
    BY <2>1 DEF LostCalls
<1> QED
  BY <1>1, <1>2

LEMMA LostOfNext ==
  /\ requests' = <<>> => LostCalls' = {}
  /\ \A t \in Callers, o \in Kind : requests' = <<[caller |-> t, op |-> o]>> =>
       LostCalls' = IF pc'[t] = "sent" THEN {} ELSE {o}
<1>1. requests' = <<>> => LostCalls' = {}
  BY DEF LostCalls
<1>2. ASSUME NEW t \in Callers, NEW o \in Kind, requests' = <<[caller |-> t, op |-> o]>>
      PROVE  LostCalls' = IF pc'[t] = "sent" THEN {} ELSE {o}
  <2>1. DOMAIN requests' = {1} /\ requests'[1].caller = t /\ requests'[1].op = o
    BY <1>2
  <2> QED
    BY <2>1 DEF LostCalls
<1> QED
  BY <1>1, <1>2

\* Requests that stay, and whose callers stay in or out of the middle of a call.
LEMMA LostStays ==
  ASSUME ConnTypeOK, requests' = requests,
         \A u \in Callers : pc'[u] = "sent" <=> pc[u] = "sent"
  PROVE  LostCalls' = LostCalls
<1>1. ASSUME NEW i \in DOMAIN requests PROVE requests[i].caller \in Callers
  <2>1. requests \in Seq([caller : Callers, op : Kind])
    BY DEF ConnTypeOK
  <2>2. i \in 1 .. Len(requests)
    BY <2>1
  <2>3. requests[i] \in [caller : Callers, op : Kind]
    BY <2>1, <2>2, ElementOfSeq, Zenon
  <2> QED
    BY <2>3
<1> QED
  BY <1>1 DEF LostCalls

serviceStutters == UNCHANGED Service!serviceVars

LEMMA LockRefines ==
  ASSUME CallInv, NEW t \in Callers, NEW o \in Kind, lockClient(t, o)
  PROVE  Service!Ask(t, o)
<1>1. /\ UNCHANGED <<requests, replies, registered, open, broken>>
      /\ op' = [op EXCEPT ![t] = o] /\ pc[t] = "idle" /\ pc'[t] = "locking"
      /\ \A u \in Callers : u # t => pc'[u] = pc[u]
  BY DEF lockClient, socket, CallInv, ConnInv, ConnTypeOK
<1>2. CallStatus[t] = "idle" /\ CallStatus'[t] = "pending"
  BY <1>1 DEF CallStatus
<1>3. CallStatus' = [CallStatus EXCEPT ![t] = CallStatus'[t]]
  BY <1>1, OneCallChanges DEF Replied
<1>4. LostCalls' = LostCalls
  BY <1>1, LostStays DEF CallInv, ConnInv
<1> QED
  BY <1>1, <1>2, <1>3, <1>4 DEF Service!Ask

LEMMA SendRefines ==
  ASSUME CallInv, NEW t \in Callers, Send(t)
  PROVE  serviceStutters
<1>1. /\ UNCHANGED <<replies, registered, open, broken, op>>
      /\ pc[t] = "locking" /\ pc'[t] = "sent" /\ op[t] \in Kind
      /\ \A u \in Callers : u # t => pc'[u] = pc[u]
  BY DEF Send, CallInv, ConnInv, ConnTypeOK
<1>2. NoCall
  BY DEF CallInv, ConnInv, OneInFlight, SenderHoldsLock, Holds, Asking, Answered, Send
<1>3. requests' = <<[caller |-> t, op |-> op[t]]>>
  BY <1>2 DEF Send, NoCall
<1>4. ~ Replied(t) /\ ~ Replied(t)'
  BY <1>1, <1>2 DEF NoCall, Replied
<1>5. CallStatus' = CallStatus
  <2>1. CallStatus[t] = "pending" /\ CallStatus'[t] = "pending"
    BY <1>1, <1>4 DEF CallStatus
  <2>2. CallStatus' = [CallStatus EXCEPT ![t] = CallStatus'[t]]
    BY <1>1, OneCallChanges DEF Replied
  <2> QED
    BY <2>1, <2>2, SameStatus
<1>6. LostCalls = {} /\ LostCalls' = {}
  BY <1>1, <1>2, <1>3, LostOf, LostOfNext DEF NoCall
<1> QED
  BY <1>1, <1>5, <1>6 DEF serviceStutters, Service!serviceVars

LEMMA ReceiveRefines ==
  ASSUME CallInv, NEW t \in Callers, Receive(t)
  PROVE  Service!Return(t)
<1>1. /\ UNCHANGED <<requests, registered, open, broken, op>> /\ Usable
      /\ pc[t] = "sent" /\ Holds(t) /\ unlockClient(t, FALSE) /\ replies # <<>>
  BY DEF Receive, CallInv, ConnInv, SenderHoldsLock
<1>2. /\ pc'[t] \in {"idle", "unlocked"}
      /\ \A u \in Callers : u # t => pc'[u] = pc[u] /\ pc[u] # "sent"
  BY <1>1, UnlockKeepsQueue DEF CallInv
<1>3. Answered(t)
  <2>1. PICK u \in Callers : Answered(u)
    BY <1>1 DEF CallInv, ConnInv, OneInFlight, NoCall, Asking
  <2>2. u = t
    BY <1>2, <2>1 DEF Answered
  <2> QED
    BY <2>1, <2>2
<1>4. Replied(t)
  BY <1>3 DEF Answered, Replied
<1>5. CallStatus[t] = "served" /\ CallStatus'[t] = "idle"
  BY <1>1, <1>2, <1>4 DEF CallStatus
<1>6. CallStatus' = [CallStatus EXCEPT ![t] = CallStatus'[t]]
  BY <1>2, OneCallChanges
<1>7. LostCalls = {} /\ LostCalls' = {}
  BY <1>1, <1>3, LostOf, LostOfNext DEF Answered
<1> QED
  BY <1>1, <1>5, <1>6, <1>7 DEF Service!Return, Service!Works, Usable

LEMMA FailRefines ==
  ASSUME CallInv, NEW t \in Callers, Fail(t)
  PROVE  Service!Raise(t)
<1>1. /\ UNCHANGED <<requests, replies, registered, open, broken, op>> /\ ~ Usable
      /\ pc[t] \in {"locking", "sent"} /\ Holds(t) /\ unlockClient(t, TRUE) /\ ConnTypeOK
  BY DEF Fail, CallInv, ConnInv, SenderHoldsLock, socket
<1>2. /\ pc'[t] \in {"idle", "unlocked"}
      /\ \A u \in Callers : u # t => pc'[u] = pc[u] /\ pc[u] # "sent"
  BY <1>1, UnlockKeepsQueue DEF CallInv
<1>3. CallStatus[t] # "idle" /\ CallStatus'[t] = "idle"
  BY <1>1, <1>2 DEF CallStatus
<1>4. CallStatus' = [CallStatus EXCEPT ![t] = CallStatus'[t]]
  BY <1>2, OneCallChanges
<1>5. \/ LostCalls' = LostCalls
      \/ CallStatus[t] = "pending" /\ LostCalls' = LostCalls \cup {op[t]}
  <2>1. CASE pc[t] = "locking"
    BY <1>1, <1>2, <2>1, LostStays
  <2>2. CASE pc[t] = "sent" /\ requests = <<>>
    BY <1>1, <2>2, LostOf, LostOfNext
  <2>3. ASSUME NEW u \in Callers, NEW o \in Kind, Requested(u, o), pc[t] = "sent"
        PROVE  CallStatus[t] = "pending" /\ LostCalls' = LostCalls \cup {op[t]}
    <3>1. u = t /\ op[t] = o
      BY <2>3 DEF Requested, OnlySender
    <3>2. ~ Replied(t)
      BY <2>3 DEF Requested, Replied
    <3>3. LostCalls = {} /\ LostCalls' = {o}
      <4>1. requests = <<[caller |-> t, op |-> o]>> /\ requests' = <<[caller |-> t, op |-> o]>>
        BY <1>1, <2>3, <3>1 DEF Requested
      <4>2. pc'[t] # "sent"
        BY <1>2
      <4> QED
        BY <2>3, <4>1, <4>2, LostOf, LostOfNext
    <3> QED
      BY <2>3, <3>1, <3>2, <3>3 DEF CallStatus
  <2> QED
    BY <1>1, <2>1, <2>2, <2>3 DEF CallInv, Carried, NoCall, RepliedTo
<1> QED
  BY <1>1, <1>3, <1>4, <1>5 DEF Service!Raise, Service!Works, Usable

LEMMA CloseRefines ==
  ASSUME CallInv, NEW t \in Callers, MarkClosed(t) \/ CloseTransport(t)
  PROVE  serviceStutters \/ Service!Shut
<1>1. /\ UNCHANGED <<requests, replies, registered, broken, op>>
      /\ open' = open \/ (pc[t] = "marked" /\ open' = FALSE)
      /\ pc[t] \in {"unlocked", "marked"} /\ pc'[t] \in {"marked", "idle"}
      /\ \A u \in Callers : u # t => pc'[u] = pc[u]
      /\ ConnTypeOK
  BY DEF MarkClosed, CloseTransport, CallInv, ConnInv, ConnTypeOK, socket
<1>2. CallStatus' = CallStatus
  <2>1. CallStatus[t] = "idle" /\ CallStatus'[t] = "idle"
    BY <1>1 DEF CallStatus
  <2>2. CallStatus' = [CallStatus EXCEPT ![t] = CallStatus'[t]]
    BY <1>1, OneCallChanges DEF Replied
  <2> QED
    BY <2>1, <2>2, SameStatus
<1>3. LostCalls' = LostCalls
  BY <1>1, LostStays
<1>4. ~ registered \/ broken
  BY <1>1 DEF CallInv, ConnInv, ClosersTold
<1> QED
  BY <1>1, <1>2, <1>3, <1>4 DEF serviceStutters, Service!serviceVars, Service!Shut

LEMMA ServeRefines ==
  ASSUME CallInv, Serve
  PROVE  (\E t \in Callers : Service!TakeEffect(t)) \/ \E o \in LostCalls : Service!TakeEffectLate(o)
<1>1. PICK t \in Callers, o \in Kind : Requested(t, o)
  BY DEF CallInv, Carried, NoCall, RepliedTo, Serve
<1>2. /\ requests' = <<>> /\ replies' = <<t>> /\ UNCHANGED <<pc, op, open, broken>> /\ ~ broken
      /\ Head(requests) = [caller |-> t, op |-> o]
  BY <1>1 DEF Serve, Requested
<1>3. registered' = (registered /\ o # "close")
  <2>1. Head(requests).op = o
    BY <1>2
  <2>2. registered' = (registered /\ Head(requests).op # "close")
    BY DEF Serve
  <2> QED
    BY <2>1, <2>2
<1>4. Service!Effect(o)
  BY <1>2, <1>3 DEF Service!Effect
<1>5. \A u \in Callers : u # t => pc'[u] = pc[u] /\ pc[u] # "sent"
  BY <1>1, <1>2 DEF Requested, OnlySender
<1>6. CallStatus' = [CallStatus EXCEPT ![t] = CallStatus'[t]]
  BY <1>5, OneCallChanges
<1>7. LostCalls' = {} /\ LostCalls = IF pc[t] = "sent" THEN {} ELSE {o}
  BY <1>1, <1>2, LostOf, LostOfNext DEF Requested
<1>8. ~ Replied(t) /\ Replied(t)'
  BY <1>1, <1>2 DEF Requested, Replied
<1>9. CASE pc[t] = "sent"
  <2>1. op[t] = o
    BY <1>1, <1>9 DEF Requested
  <2>2. CallStatus[t] = "pending" /\ CallStatus'[t] = "served"
    BY <1>2, <1>8, <1>9 DEF CallStatus
  <2> QED
    BY <1>2, <1>4, <1>6, <1>7, <1>9, <2>1, <2>2 DEF Service!TakeEffect
<1>10. CASE pc[t] # "sent"
  <2>1. CallStatus'[t] = CallStatus[t]
    BY <1>2, <1>10 DEF CallStatus
  <2>2. CallStatus' = CallStatus
    BY <1>6, <2>1, SameStatus
  <2> QED
    BY <1>2, <1>4, <1>7, <1>10, <2>2 DEF Service!TakeEffectLate
<1> QED
  BY <1>9, <1>10

LEMMA BreakRefines ==
  ASSUME CallInv, Break
  PROVE  Service!Break
<1>1. CallStatus' = CallStatus /\ LostCalls' = LostCalls
  BY DEF Break, CallStatus, Replied, LostCalls
<1> QED
  BY <1>1 DEF Break, Service!Break, Service!Works, Usable

\* Calls over a shared connection are atomic: each takes effect at the server once,
\* after it was made and before it returns, for any number of threads, whoever
\* closes the connection, and when the network breaks.
THEOREM CallsAreAtomic == ConnSpec => ServesCalls
<1>1. ConnInit => Service!Init
  <2> SUFFICES ASSUME ConnInit PROVE Service!Init
    OBVIOUS
  <2>1. LostCalls = {}
    BY LostOf DEF ConnInit
  <2>2. CallStatus = [t \in Callers |-> "idle"]
    BY DEF ConnInit, CallStatus
  <2> QED
    BY <2>1, <2>2 DEF ConnInit, Service!Init
<1>2. ASSUME CallInv, [ConnNext]_connVars
      PROVE  [Service!Next]_(Service!serviceVars)
  <2>1. ASSUME NEW t \in Callers, Call(t) \/ Close(t) PROVE Service!Next
    BY <1>2, <2>1, LockRefines DEF Call, Close, Kind, Service!Next
  <2>2. ASSUME NEW t \in Callers, Step(t) PROVE [Service!Next]_(Service!serviceVars)
    BY <1>2, <2>2, SendRefines, ReceiveRefines, FailRefines, CloseRefines
       DEF Step, serviceStutters, Service!Next
  <2>3. CASE Serve
    BY <1>2, <2>3, ServeRefines DEF Service!Next
  <2>4. CASE Break
    BY <1>2, <2>4, BreakRefines DEF Service!Next
  <2>5. CASE UNCHANGED connVars
    <3>1. CallStatus' = CallStatus /\ LostCalls' = LostCalls
      BY <2>5 DEF connVars, socket, CallStatus, Replied, LostCalls
    <3> QED
      BY <2>5, <3>1 DEF connVars, socket, Service!serviceVars
  <2> QED
    BY <1>2, <2>1, <2>2, <2>3, <2>4, <2>5 DEF ConnNext
<1> QED
  BY <1>1, <1>2, CallInvariant, PTL DEF ConnSpec, ServesCalls, Service!Spec
=============================================================================
