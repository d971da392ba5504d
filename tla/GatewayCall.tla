---------------------------- MODULE GatewayCall ----------------------------
(***************************************************************************)
(* What the operation pipeline relies on when it asks the gateway to create *)
(* something: the gateway creates it at most once, an answer means that it  *)
(* did, and a failure means nothing: it may have, or may do so later.      *)
(* GatewayClient is the detailed system.                                   *)
(***************************************************************************)
EXTENDS Naturals

CONSTANT Calls    \* the calls of the pipeline

VARIABLES phase,   \* what the pipeline knows of a call
          effects  \* what the gateway created for it

vars == <<phase, effects>>

Init ==
  /\ phase = [c \in Calls |-> "idle"]
  /\ effects = [c \in Calls |-> 0]

Ask(c) ==
  /\ phase[c] = "idle"
  /\ phase' = [phase EXCEPT ![c] = "asked"]
  /\ UNCHANGED effects

Create(c) ==
  /\ phase[c] # "idle"
  /\ effects[c] = 0
  /\ effects' = [effects EXCEPT ![c] = 1]
  /\ UNCHANGED phase

Answer(c) ==
  /\ phase[c] = "asked"
  /\ effects[c] = 1
  /\ phase' = [phase EXCEPT ![c] = "answered"]
  /\ UNCHANGED effects

Fail(c) ==
  /\ phase[c] = "asked"
  /\ phase' = [phase EXCEPT ![c] = "failed"]
  /\ UNCHANGED effects

Next == \E c \in Calls : Ask(c) \/ Create(c) \/ Answer(c) \/ Fail(c)

Spec == Init /\ [][Next]_vars
==============================================================================
