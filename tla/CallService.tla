----------------------------- MODULE CallService -----------------------------
(***************************************************************************)
(* What a connection promises the threads that share it: a call takes      *)
(* effect at the server at most once, a call that returns a result has     *)
(* taken effect since it was made, and calls only fail when the connection *)
(* is closed or broken.  A call that fails may still take effect, later.   *)
(* The connection is closed only when the server has been told.            *)
(***************************************************************************)
CONSTANTS Callers,      (* the threads                                     *)
          Kinds         (* what they call, "close" among it                *)

VARIABLES status,       (* of each caller: idle, pending or served         *)
          op,           (* its last call                                   *)
          lost,         (* calls that have failed and not taken effect     *)
          registered,   (* the server knows the connection                 *)
          open,
          broken

serviceVars == <<status, op, lost, registered, open, broken>>

Init ==
  /\ status     = [c \in Callers |-> "idle"]
  /\ op         = [c \in Callers |-> "call"]
  /\ lost       = {}
  /\ registered = TRUE
  /\ open       = TRUE
  /\ broken     = FALSE

Works == open /\ ~ broken

Ask(c, o) ==
  /\ status[c] = "idle"
  /\ status' = [status EXCEPT ![c] = "pending"]
  /\ op'     = [op EXCEPT ![c] = o]
  /\ UNCHANGED <<lost, registered, open, broken>>

Effect(o) ==
  /\ ~ broken
  /\ registered' = (registered /\ o # "close")

TakeEffect(c) ==
  /\ status[c] = "pending"
  /\ Effect(op[c])
  /\ status' = [status EXCEPT ![c] = "served"]
  /\ UNCHANGED <<op, lost, open, broken>>

TakeEffectLate(o) ==
  /\ Effect(o)
  /\ lost' = lost \ {o}
  /\ UNCHANGED <<status, op, open, broken>>

Return(c) ==
  /\ status[c] = "served"
  /\ Works
  /\ status' = [status EXCEPT ![c] = "idle"]
  /\ UNCHANGED <<op, lost, registered, open, broken>>

\* A call that has not taken effect may be under way or not have left at all.
Raise(c) ==
  /\ status[c] # "idle"
  /\ ~ Works
  /\ status' = [status EXCEPT ![c] = "idle"]
  /\ \/ UNCHANGED lost
     \/ status[c] = "pending" /\ lost' = lost \cup {op[c]}
  /\ UNCHANGED <<op, registered, open, broken>>

Break ==
  /\ Works
  /\ broken' = TRUE
  /\ UNCHANGED <<status, op, lost, registered, open>>

Shut ==
  /\ ~ registered \/ broken
  /\ open' = FALSE
  /\ UNCHANGED <<status, op, lost, registered, broken>>

Next ==
  \/ \E c \in Callers :
       (\E o \in Kinds : Ask(c, o)) \/ TakeEffect(c) \/ Return(c) \/ Raise(c)
  \/ \E o \in lost : TakeEffectLate(o)
  \/ Break
  \/ Shut

Spec == Init /\ [][Next]_serviceVars
=============================================================================
