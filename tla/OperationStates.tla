--------------------------- MODULE OperationStates ---------------------------
(***************************************************************************)
(* The states of a financial operation and the transition matrix that the  *)
(* settlement webhook consults (packages/core/state_machine.py).           *)
(* "ABSENT" is the model's name for "no row with this idempotency key".    *)
(***************************************************************************)

OperationStatus ==
  {"INITIATED", "POLICY_CHECK_PENDING", "POLICY_APPROVED", "POLICY_REJECTED",
   "REQUIRES_APPROVAL", "RESERVED", "EXECUTING", "SUCCEEDED", "FAILED", "CANCELLED"}

AllowedTransitions ==
  [s \in OperationStatus |->
     CASE s = "INITIATED" ->
            {"POLICY_APPROVED", "POLICY_REJECTED", "REQUIRES_APPROVAL", "FAILED"}
       [] s = "REQUIRES_APPROVAL" -> {"RESERVED", "POLICY_REJECTED", "CANCELLED", "FAILED"}
       [] s = "POLICY_APPROVED" -> {"RESERVED", "FAILED", "CANCELLED"}
       [] s = "RESERVED" -> {"EXECUTING", "SUCCEEDED", "FAILED", "CANCELLED"}
       [] s = "EXECUTING" -> {"SUCCEEDED", "FAILED", "CANCELLED"}
       [] OTHER -> {}]

(* Mutation: the matrix is not consulted. *)
AnyTransition(current, target) == TRUE

(* Re-affirming the current state is always permitted. *)
CanTransition(current, target) ==
  current = target \/ target \in AllowedTransitions[current]

(* The statuses whose budget is still reserved, and which the worker sweeps. *)
InFlight == {"RESERVED", "EXECUTING"}

(* The statuses the matrix lists with no way out. *)
Terminal == {"SUCCEEDED", "FAILED", "CANCELLED", "POLICY_REJECTED"}
==============================================================================
