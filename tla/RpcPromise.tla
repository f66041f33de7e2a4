----------------------------- MODULE RpcPromise -----------------------------
(***************************************************************************)
(* What a caller may rely on when it calls VectorHub over gRPC: its call is *)
(* handled at most once, and has taken effect when it is told so.  Anything *)
(* else it is told leaves open whether the call took effect, or will: a     *)
(* write may reach the data long after the caller was answered or gave up.  *)
(* How often the same write is executed then is not promised.               *)
(***************************************************************************)
EXTENDS Naturals

CONSTANT Calls

VARIABLES
  outcome,   \* what the caller knows: "idle", "pending", "success" or "unsure"
  handled,   \* how many handlers the call has had
  applied    \* whether it has taken effect

vars == <<outcome, handled, applied>>

Init ==
  /\ outcome = [c \in Calls |-> "idle"]
  /\ handled = [c \in Calls |-> 0]
  /\ applied = [c \in Calls |-> FALSE]

Issue(c) ==
  /\ outcome[c] # "pending"
  /\ outcome' = [outcome EXCEPT ![c] = "pending"]
  /\ handled' = [handled EXCEPT ![c] = 0]
  /\ applied' = [applied EXCEPT ![c] = FALSE]

Handle(c) ==
  /\ outcome[c] \in {"pending", "unsure"} /\ handled[c] = 0
  /\ handled' = [handled EXCEPT ![c] = 1]
  /\ UNCHANGED <<outcome, applied>>

Apply(c) ==
  /\ outcome[c] \in {"pending", "unsure"} /\ handled[c] = 1
  /\ applied' = [applied EXCEPT ![c] = TRUE]
  /\ UNCHANGED <<outcome, handled>>

Tell(c) ==
  /\ outcome[c] = "pending"
  /\ \/ outcome' = [outcome EXCEPT ![c] = "unsure"]
     \/ applied[c] /\ outcome' = [outcome EXCEPT ![c] = "success"]
  /\ UNCHANGED <<handled, applied>>

Next == \E c \in Calls : Issue(c) \/ Handle(c) \/ Apply(c) \/ Tell(c)

Spec == Init /\ [][Next]_vars
=============================================================================
