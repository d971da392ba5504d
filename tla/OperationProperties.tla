------------------------- MODULE OperationProperties -------------------------
(***************************************************************************)
(* What OperationPipeline is checked for, and the ledger it implements     *)
(* when nothing but the row locks keeps its handlers apart.                *)
(***************************************************************************)
EXTENDS OperationPipeline

LedgerPhase ==
  [o \in Ops |-> CASE status[o] \in InFlight -> "held"
                   [] status[o] = "SUCCEEDED" -> "committed"
                   [] status[o] = "FAILED" -> "released"
                   [] OTHER -> "none"]

Ledger == INSTANCE BudgetLedger WITH
            phase <- LedgerPhase, reserved <- mandate.reserved, spend <- mandate.spend

(* The handlers' transactions implement the ledger: the two columns of the *)
(* mandate move with the operation statuses and only so, every reservation *)
(* is committed exactly once or released exactly once, and the limit is    *)
(* respected whenever budget is taken (README.md, section 5).              *)
ImplementsLedger == Ledger!Spec

(* The committed spend stays within the aggregate budget (README.md, core  *)
(* safety property).                                                       *)
SpendWithinLimit == mandate.spend <= Limit

Headroom == Limit - mandate.spend - mandate.reserved

(* A session is about to commit a capture it did not see reserved. *)
UnreservedCapture(s) ==
  Step(s) = "commit" /\ job[s].call = "webhook" /\ dirty[s].spend > 0 /\ dirty[s].reserved = 0

(* However many handlers interleave, the mandate's spend plus reservations *)
(* grows only within the limit: reserve_budget's conditional UPDATE is the *)
(* one way to take budget, except a capture webhook's fallback for an      *)
(* amount it does not find reserved (webhooks.py, the else branch).        *)
GrowsWithinLimit ==
  [][Headroom' < Headroom => Headroom' >= 0 \/ \E s \in Sessions : UnreservedCapture(s)]_vars

(* Every object created at the gateway was preceded by a reservation of    *)
(* its own that reserve_budget granted, whatever crashed, timed out or was *)
(* approved twice (README.md, authorization flow, step 6).                 *)
DispatchIsBacked == \A o \in Ops : created[o] <= grants[o]

(* Without a reviewer in the way, concurrent and repeated requests with    *)
(* one idempotency key, some of them refused or timing out at the gateway, *)
(* create at most one gateway object (operations.py: SELECT, then the      *)
(* unique key under the mandate lock).                                     *)
OneObjectPerKey == \A o \in Ops \ Review : created[o] <= 1

(* The same for operations the policy denied without a review. *)
UnreviewedDenialWithoutEffects ==
  \A o \in Ops \ Review : status[o] = "POLICY_REJECTED" => created[o] = 0

(* A status the transition matrix calls terminal is never left             *)
(* (state_machine.py: terminal states have no outgoing transitions).       *)
TerminalIsFinal == [][\A o \in Ops : status[o] \in Terminal => status'[o] = status[o]]_vars

(* An event that its first delivery processed is over, however many         *)
(* deliveries of it race: a handler that read the inbox before it was       *)
(* recorded does not come to commit a verdict, or a second settlement       *)
(* (webhooks.py, the flush before the event is processed).                 *)
FirstVerdictIsFinal ==
  \A s \in Sessions : job[s].call = "webhook" /\ Step(s) = "commit" =>
     inbox[Event(s)] # [status |-> "PROCESSED", attempts |-> 1]

(* With one handler at a time, only a capture for an operation that had     *)
(* already failed is ever given up, dead letter or not: no other event     *)
(* waits for somebody to look at it (webhooks.py, the two handlers of the  *)
(* payment events).                                                        *)
FailedEventsAreLateCaptures ==
  \A e \in Events : inbox[e].status \in {"FAILED", "DEAD_LETTER"} =>
     e[1] # "payment.failed" /\ status[e[2][1]] = "FAILED"
------------------------------------------------------------------------------
(* Handlers go on with what they began; PostgreSQL queues lock waiters, so *)
(* one that keeps finding a row locked gets it in the end; the worker      *)
(* loop sweeps for ever and time passes.                                   *)
Fairness ==
  /\ \A s \in Sessions : SF_vars(Continue(s)) /\ WF_vars(SweepOpen(s))
  /\ \A o \in Ops : WF_vars(Aging(o))

FairSpec == Spec /\ Fairness

(* The reconciliation worker resolves every operation whose reservation    *)
(* is in flight (services/worker/main.py, docstring of the sweep).         *)
EveryReservationEnds == \A o \in Ops : status[o] \in InFlight ~> status[o] \notin InFlight

(* A handler that was started answers: no wait for a row lock is for ever. *)
EveryHandlerEnds == \A s \in Sessions : Step(s) # "idle" ~> Step(s) = "idle"
==============================================================================
