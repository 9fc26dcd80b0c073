----------------------------- MODULE ScanService -----------------------------
(***************************************************************************)
(* What the storage-side server promises a client that queries row groups  *)
(* of a table: at most one query of a client is pending, its answer is     *)
(* made of exactly the row groups it asked for, each once, and only a      *)
(* query that may raise an exception is ever refused.                      *)
(***************************************************************************)
EXTENDS Integers

CONSTANTS Clients,
          Requests,     (* Requests[c]: the queries client c may send       *)
          NoRequest,    (* what a client that has not asked has asked for   *)
          Unreliable    (* the clients whose queries may raise              *)

VARIABLES status,       (* idle, pending, answered or refused               *)
          asked,        (* the last query of each client                    *)
          answer        (* the row groups the answer was made from          *)

serviceVars == <<status, asked, answer>>

Range(r) == r.offset .. (r.offset + r.count - 1)

Init ==
  /\ status = [c \in Clients |-> "idle"]
  /\ asked  = [c \in Clients |-> NoRequest]
  /\ answer = [c \in Clients |-> {}]

Ask(c, r) ==
  /\ status[c] # "pending"
  /\ status' = [status EXCEPT ![c] = "pending"]
  /\ asked'  = [asked EXCEPT ![c] = r]
  /\ answer' = [answer EXCEPT ![c] = {}]

Answer(c) ==
  /\ status[c] = "pending"
  /\ status' = [status EXCEPT ![c] = "answered"]
  /\ answer' = [answer EXCEPT ![c] = Range(asked[c])]
  /\ UNCHANGED asked

Refuse(c) ==
  /\ c \in Unreliable
  /\ status[c] = "pending"
  /\ status' = [status EXCEPT ![c] = "refused"]
  /\ UNCHANGED <<asked, answer>>

Reply(c) == Answer(c) \/ Refuse(c)

Next == \E c \in Clients : (\E r \in Requests[c] : Ask(c, r)) \/ Reply(c)

Spec == Init /\ [][Next]_serviceVars

FairSpec == Spec /\ \A c \in Clients : WF_serviceVars(Reply(c))
=============================================================================
