-------------------------- MODULE OperationPipeline --------------------------
(***************************************************************************)
(* The life of the financial operations charged to one mandate: the        *)
(* request pipeline, human review, checkout verification, the gateway's    *)
(* webhooks and the reconciliation sweep, as the database sees them.       *)
(*                                                                         *)
(* Every handler runs in a database session of its own, under READ         *)
(* COMMITTED: it reads committed rows, an UPDATE or FOR UPDATE takes the   *)
(* row lock, and nothing it writes is seen before its COMMIT.  A step of a *)
(* session is one such statement (or a run of statements that no other     *)
(* session can tell apart).  With one session, handlers run one after the  *)
(* other.                                                                  *)
(***************************************************************************)
EXTENDS OperationStates, Integers, FiniteSets

CONSTANTS
  Ops,         \* idempotency keys, each naming the operation it creates
  NoOp,        \* not an operation
  Amount,      \* Amount[o]: the amount requested
  Kind,        \* Kind[o]: what the gateway is asked for, one of Kinds
  Review,      \* the operations at or above the mandate's review threshold
  Limit,       \* the mandate's aggregate_spend_limit
  Sessions,    \* database sessions open at the same time
  Calls,       \* the entry points that are used, of AllCalls
  EventTypes,  \* the webhook events the gateway is subscribed to
  Faults,      \* what may go wrong, of AllFaults
  MaxCalls,    \* bound: MaxCalls[o] agent and principal calls about o
  MaxDeliveries \* bound: recorded deliveries per webhook event

(* CREATE_ORDER, CREATE_PAYMENT_LINK, CREATE_REFUND; BARE is CAPTURE_PAYMENT *)
(* and CANCEL_PAYMENT_LINK, which the dispatcher has no branch for.          *)
Kinds == {"ORDER", "LINK", "REFUND", "BARE"}
AllCalls == {"request", "mcp", "approve", "reject", "verify", "webhook", "sweep"}
AllEventTypes == {"order.paid", "payment.captured", "payment.failed"}
AllFaults == {"crash", "timeout", "refused", "fetch"}
MaxRetries == 3

ASSUME PipelineConstants ==
  /\ IsFiniteSet(Ops) /\ NoOp \notin Ops
  /\ Amount \in [Ops -> Nat \ {0}]
  /\ Kind \in [Ops -> Kinds]
  /\ Review \subseteq Ops
  /\ Limit \in Nat
  /\ Calls \subseteq AllCalls
  /\ EventTypes \subseteq AllEventTypes
  /\ Faults \subseteq AllFaults
  /\ MaxCalls \in [Ops -> Nat] /\ MaxDeliveries \in Nat

VARIABLES
  \* committed rows
  status,    \* financial_operations.status by idempotency key
  txrows,    \* transactions: the gateway objects recorded for an operation
  mandate,   \* the mandate's reserved_spend and current_aggregate_spend
  inbox,     \* webhook_events: status and processing_attempts by event
  \* the gateway
  created,   \* created[o]: gateway objects created for operation o, numbered from 1
  paid,      \* the orders that were paid
  attempted, \* the orders with a failed payment attempt
  \* the sessions
  job,       \* what the session is doing
  seen,      \* what it has read
  dirty,     \* what it has written and not yet committed
  locks,     \* the row locks it holds
  \* the clock and history
  age,       \* age[o]: time since created_at, in worker timeouts
  calls,     \* calls[o]: calls made about operation o
  grants     \* grants[o]: reservations reserve_budget granted to o

dbVars == <<status, txrows, mandate, inbox>>
gatewayVars == <<created, paid, attempted>>
sessionVars == <<job, seen, dirty, locks>>
historyVars == <<age, calls, grants>>
vars == <<dbVars, gatewayVars, sessionVars, historyVars>>

Orders == UNION {{o} \X (1..MaxCalls[o]) : o \in Ops}
Events == EventTypes \X Orders
EventStatus == {"none", "PROCESSED", "FAILED", "DEAD_LETTER"}
Ages == {"fresh", "stuck", "expired"}   \* < 120 s, < 300 s, beyond
Steps == {"idle", "lock", "reserve", "flush", "dispatch", "record", "lookup",
          "mandate", "update", "txrow", "sweep", "settle", "commit"}

NoJob == [call |-> "none", step |-> "idle", op |-> NoOp, order |-> 0,
          event |-> "none", todo |-> {}]
NothingSeen == [reserved |-> 0, spend |-> 0, status |-> "ABSENT", attempts |-> 0]
Clean == [reserved |-> 0, spend |-> 0, status |-> [o \in Ops |-> "ABSENT"],
          insert |-> 0, verdict |-> "none"]
NoLocks == [mandate |-> FALSE, ops |-> {}]
------------------------------------------------------------------------------
StatusOrAbsent == OperationStatus \cup {"ABSENT"}
JobRows == [call : Calls \cup {"none"}, step : Steps, op : Ops \cup {NoOp},
            order : Nat, event : EventTypes \cup {"none"}, todo : SUBSET Ops]
SeenRows == [reserved : Int, spend : Int, status : StatusOrAbsent, attempts : Nat]
DirtyRows == [reserved : Int, spend : Int, status : [Ops -> StatusOrAbsent],
              insert : Nat, verdict : EventStatus]
LockRows == [mandate : BOOLEAN, ops : SUBSET Ops]

TypeOK ==
  /\ status \in [Ops -> StatusOrAbsent]
  /\ txrows \in [Ops -> SUBSET Nat]
  /\ mandate \in [reserved : Int, spend : Int]
  /\ inbox \in [Events -> [status : EventStatus, attempts : Nat]]
  /\ created \in [Ops -> Nat]
  /\ paid \in SUBSET Orders
  /\ attempted \in SUBSET Orders
  /\ job \in [Sessions -> JobRows]
  /\ seen \in [Sessions -> SeenRows]
  /\ dirty \in [Sessions -> DirtyRows]
  /\ locks \in [Sessions -> LockRows]
  /\ age \in [Ops -> Ages]
  /\ calls \in [Ops -> Nat]
  /\ grants \in [Ops -> Nat]

Init ==
  /\ status = [o \in Ops |-> "ABSENT"]
  /\ txrows = [o \in Ops |-> {}]
  /\ mandate = [reserved |-> 0, spend |-> 0]
  /\ inbox = [e \in Events |-> [status |-> "none", attempts |-> 0]]
  /\ created = [o \in Ops |-> 0]
  /\ paid = {}
  /\ attempted = {}
  /\ job = [s \in Sessions |-> NoJob]
  /\ seen = [s \in Sessions |-> NothingSeen]
  /\ dirty = [s \in Sessions |-> Clean]
  /\ locks = [s \in Sessions |-> NoLocks]
  /\ age = [o \in Ops |-> "fresh"]
  /\ calls = [o \in Ops |-> 0]
  /\ grants = [o \in Ops |-> 0]
------------------------------------------------------------------------------
(* Sessions and row locks. *)

Step(s) == job[s].step
Op(s) == job[s].op

MandateFree(s) == \A t \in Sessions \ {s} : ~locks[t].mandate
OpFree(s, o) == \A t \in Sessions \ {s} : o \notin locks[t].ops

(* The webhook event a session serves. *)
Event(s) == <<job[s].event, <<job[s].op, job[s].order>>>>

(* The webhook_events row is locked from its flush to the COMMIT. *)
EventFree(s) ==
  \A t \in Sessions \ {s} :
    ~ /\ job[t].call = "webhook" /\ Step(t) \notin {"idle", "record"}
      /\ Event(t) = Event(s)

Goto(s, step) == job' = [job EXCEPT ![s].step = step]

(* Mutation: the locks stay with a connection returned to the pool. *)
CloseKeepingLocks(s) ==
  /\ job' = [job EXCEPT ![s] = NoJob]
  /\ seen' = [seen EXCEPT ![s] = NothingSeen]
  /\ dirty' = [dirty EXCEPT ![s] = Clean]
  /\ UNCHANGED locks

(* The session ends: what it holds and has not committed is gone. *)
Close(s) ==
  /\ job' = [job EXCEPT ![s] = NoJob]
  /\ seen' = [seen EXCEPT ![s] = NothingSeen]
  /\ dirty' = [dirty EXCEPT ![s] = Clean]
  /\ locks' = [locks EXCEPT ![s] = NoLocks]

Written(s) == {o \in Ops : dirty[s].status[o] # "ABSENT"}

(* A session opens to serve call c about operation o. *)
Open(s, c, o, step) ==
  /\ c \in Calls
  /\ Step(s) = "idle"
  /\ calls[o] < MaxCalls[o]
  /\ calls' = [calls EXCEPT ![o] = @ + 1]
  /\ job' = [job EXCEPT ![s] = [NoJob EXCEPT !.call = c, !.op = o, !.step = step]]
------------------------------------------------------------------------------
(* POST /operations, and the same pipeline behind the MCP gateway.         *)

(* The idempotency SELECT finds nothing (a hit returns the existing row and *)
(* changes nothing).  The MCP gateway makes up a new key for every call; it *)
(* has loaded the mandate by then, and the session keeps that copy when the *)
(* row is later selected FOR UPDATE.                                       *)
RequestOpen(s, o) ==
  /\ status[o] = "ABSENT"
  /\ \/ Open(s, "request", o, "lock")
     \/ calls[o] = 0 /\ Open(s, "mcp", o, "lock")
  /\ seen' = [seen EXCEPT ![s].reserved = mandate.reserved, ![s].spend = mandate.spend]
  /\ UNCHANGED <<dbVars, gatewayVars, dirty, locks, age, grants>>

(* The mandate as the policy rules see it. *)
PolicyView(s) == IF job[s].call = "mcp" THEN seen[s] ELSE mandate

(* The verdict of the rule set: DENY dominates, then review.  ruledOut      *)
(* stands for the rules on agent, mandate status, currency, type and rate. *)
PolicyDecision(s, ruledOut) ==
  LET o == Op(s)
      view == PolicyView(s)
  IN  IF ruledOut \/ view.spend + view.reserved + Amount[o] > Limit THEN "DENY"
      ELSE IF o \in Review THEN "REQUIRE_HUMAN_REVIEW"
      ELSE "ALLOW"

(* Mutation: what is reserved does not count. *)
CanReserveUnspent(o) == mandate.spend + Amount[o] <= Limit

(* The conditional UPDATE of reserve_budget on the committed row. *)
CanReserve(o) == mandate.spend + mandate.reserved + Amount[o] <= Limit

GrantReservation(s) ==
  /\ locks' = [locks EXCEPT ![s].mandate = TRUE]
  /\ dirty' = [dirty EXCEPT ![s].reserved = Amount[Op(s)], ![s].status[Op(s)] = "RESERVED"]
  /\ grants' = [grants EXCEPT ![Op(s)] = @ + 1]

(* The operation row is committed with a final or waiting status. *)
CommitStatus(s, newStatus) ==
  /\ status' = [status EXCEPT ![Op(s)] = newStatus]
  /\ Close(s)
  /\ UNCHANGED <<txrows, mandate, inbox, gatewayVars, historyVars>>

(* Mutation: nothing keeps the keys unique. *)
KeyIsNotUnique(o) == TRUE

(* No committed row has the key: the INSERT will not break the constraint. *)
KeyIsFree(o) == status[o] = "ABSENT"

(* Another request with this key was committed after the SELECT. *)
RequestDuplicate(s) ==
  /\ Step(s) = "lock" /\ MandateFree(s)
  /\ ~KeyIsFree(Op(s))
  /\ Close(s)
  /\ UNCHANGED <<dbVars, gatewayVars, historyVars>>

(* SELECT mandate FOR UPDATE, INSERT the operation, evaluate the policy;    *)
(* when it allows the operation, reserve the budget.                       *)
RequestDecide(s) ==
  /\ Step(s) = "lock" /\ MandateFree(s)
  /\ KeyIsFree(Op(s))
  /\ \E ruledOut \in BOOLEAN :
       LET decision == PolicyDecision(s, ruledOut)
       IN \/ decision = "DENY" /\ CommitStatus(s, "POLICY_REJECTED")
          \/ decision = "REQUIRE_HUMAN_REVIEW" /\ CommitStatus(s, "REQUIRES_APPROVAL")
          \/ decision = "ALLOW" /\ ~CanReserve(Op(s)) /\ CommitStatus(s, "POLICY_REJECTED")
          \/ /\ decision = "ALLOW" /\ CanReserve(Op(s))
             /\ GrantReservation(s)
             /\ Goto(s, "dispatch")
             /\ UNCHANGED <<dbVars, gatewayVars, seen, age, calls>>
------------------------------------------------------------------------------
(* _execute_gateway_operation, in the session that holds the reservation.  *)

CreateAtGateway(o) == created' = [created EXCEPT ![o] = @ + 1]

(* The gateway answers; the Transaction row and the new status are pending. *)
DispatchAccepted(s) ==
  LET o == Op(s) IN
  /\ Step(s) = "dispatch"
  /\ Kind[o] # "BARE"
  /\ CreateAtGateway(o)
  /\ dirty' = [dirty EXCEPT
       ![s].insert = created[o] + 1,
       ![s].status[o] = IF Kind[o] = "REFUND" THEN "SUCCEEDED" ELSE "EXECUTING",
       ![s].reserved = IF Kind[o] = "REFUND" THEN @ - Amount[o] ELSE @,
       ![s].spend = IF Kind[o] = "REFUND" THEN @ + Amount[o] ELSE @]
  /\ Goto(s, "commit")
  /\ UNCHANGED <<dbVars, paid, attempted, seen, locks, historyVars>>

(* No branch handles the operation type: the row stays RESERVED. *)
DispatchNothing(s) ==
  /\ Step(s) = "dispatch"
  /\ Kind[Op(s)] = "BARE"
  /\ Goto(s, "commit")
  /\ UNCHANGED <<dbVars, gatewayVars, seen, dirty, locks, historyVars>>

(* Mutation: a failure of the gateway is filed as a denial. *)
DispatchFailsAsDenial(s) ==
  LET o == Op(s) IN
  /\ Step(s) = "dispatch" /\ Kind[o] # "BARE"
  /\ "timeout" \in Faults /\ CreateAtGateway(o)
  /\ dirty' = [dirty EXCEPT ![s].reserved = @ - Amount[o], ![s].status[o] = "POLICY_REJECTED"]
  /\ Goto(s, "commit")
  /\ UNCHANGED <<dbVars, paid, attempted, seen, locks, historyVars>>

(* The call raises, whether or not the gateway carried it out: the          *)
(* reservation is released and the operation fails.                        *)
DispatchFails(s) ==
  LET o == Op(s) IN
  /\ Step(s) = "dispatch"
  /\ Kind[o] # "BARE"
  /\ \/ "timeout" \in Faults /\ CreateAtGateway(o)
     \/ "refused" \in Faults /\ UNCHANGED created
  /\ dirty' = [dirty EXCEPT ![s].reserved = @ - Amount[o], ![s].status[o] = "FAILED"]
  /\ Goto(s, "commit")
  /\ UNCHANGED <<dbVars, paid, attempted, seen, locks, historyVars>>
------------------------------------------------------------------------------
(* POST /operations/{id}/approve.  The status is read without a lock.      *)

ApproveOpen(s, o) ==
  /\ status[o] = "REQUIRES_APPROVAL"
  /\ Open(s, "approve", o, "reserve")
  /\ UNCHANGED <<dbVars, gatewayVars, seen, dirty, locks, age, grants>>

RejectOpen(s, o) ==
  /\ status[o] = "REQUIRES_APPROVAL"
  /\ Open(s, "reject", o, "commit")
  /\ dirty' = [dirty EXCEPT ![s].status[o] = "POLICY_REJECTED"]
  /\ UNCHANGED <<dbVars, gatewayVars, seen, locks, age, grants>>

(* Mutation: an approval is dispatched without a reservation. *)
ApproveUnreserved(s) ==
  /\ Step(s) = "reserve" /\ MandateFree(s)
  /\ Goto(s, "flush")
  /\ UNCHANGED <<dbVars, gatewayVars, seen, dirty, locks, historyVars>>

ApproveReserve(s) ==
  /\ Step(s) = "reserve" /\ MandateFree(s)
  /\ \/ /\ CanReserve(Op(s))
        /\ GrantReservation(s)
        /\ Goto(s, "flush")
     \/ /\ ~CanReserve(Op(s))
        /\ dirty' = [dirty EXCEPT ![s].status[Op(s)] = "POLICY_REJECTED"]
        /\ Goto(s, "commit")
        /\ UNCHANGED <<locks, grants>>
  /\ UNCHANGED <<dbVars, gatewayVars, seen, age, calls>>

(* The flush before the dispatch writes the operation row. *)
ApproveFlush(s) ==
  /\ Step(s) = "flush" /\ OpFree(s, Op(s))
  /\ locks' = [locks EXCEPT ![s].ops = {Op(s)}]
  /\ Goto(s, "dispatch")
  /\ UNCHANGED <<dbVars, gatewayVars, seen, dirty, historyVars>>
------------------------------------------------------------------------------
(* POST /operations/{id}/verify-payment: the checkout page posts the        *)
(* signature it received for a paid order.  The signature covers the order *)
(* and the payment of the request, and nothing compares them with the      *)
(* operation, whose kind and status the handler never looks at.            *)

PaidOrder(o) == \E i \in txrows[o] : <<o, i>> \in paid

VerifyOpen(s, o) ==
  /\ status[o] # "ABSENT"
  /\ \E order \in paid : Kind[order[1]] = "ORDER"
  /\ Open(s, "verify", o, "update")
  /\ seen' = [seen EXCEPT ![s].status = status[o]]
  /\ UNCHANGED <<dbVars, gatewayVars, dirty, locks, age, grants>>

(* scalar_one_or_none raises when the operation has two transactions. *)
VerifyAmbiguous(s) ==
  /\ Step(s) = "txrow" /\ Cardinality(txrows[Op(s)]) > 1
  /\ Close(s)
  /\ UNCHANGED <<dbVars, gatewayVars, historyVars>>

(* An unchanged status is not written. *)
VerifyRow(s) ==
  /\ Step(s) = "txrow" /\ Cardinality(txrows[Op(s)]) <= 1
  /\ dirty' = IF seen[s].status = "SUCCEEDED" THEN dirty
              ELSE [dirty EXCEPT ![s].status[Op(s)] = "SUCCEEDED"]
  /\ Goto(s, "commit")
  /\ UNCHANGED <<dbVars, gatewayVars, seen, locks, historyVars>>
------------------------------------------------------------------------------
(* POST /webhooks/razorpay.  The gateway delivers an event at any time      *)
(* after it happened, any number of times, in any order, or never.         *)

Emitted(e) == e[2] \in (IF e[1] = "payment.failed" THEN attempted ELSE paid)

(* A PROCESSED event is a duplicate: it is acknowledged and ignored. *)
Accepts(e) == inbox[e].status # "PROCESSED"

(* The event row is read. *)
WebhookOpen(s, e) ==
  /\ "webhook" \in Calls
  /\ Step(s) = "idle"
  /\ Emitted(e)
  /\ Accepts(e) /\ inbox[e].attempts < MaxDeliveries
  /\ job' = [job EXCEPT ![s] = [NoJob EXCEPT !.call = "webhook", !.step = "record",
               !.event = e[1], !.op = e[2][1], !.order = e[2][2]]]
  /\ seen' = [seen EXCEPT ![s].attempts = inbox[e].attempts]
  /\ UNCHANGED <<dbVars, gatewayVars, dirty, locks, historyVars>>

(* Mutation: event_id is not unique, and every delivery gets its row. *)
WebhookRecordAgain(s) ==
  /\ Step(s) = "record" /\ EventFree(s)
  /\ Goto(s, "lookup")
  /\ UNCHANGED <<dbVars, gatewayVars, seen, dirty, locks, historyVars>>

(* The flush of the event row: the INSERT fails when another delivery has   *)
(* stored the event in the meantime.                                       *)
WebhookRecord(s) ==
  /\ Step(s) = "record" /\ EventFree(s)
  /\ IF seen[s].attempts = 0 /\ inbox[Event(s)].attempts > 0
     THEN Close(s)
     ELSE Goto(s, "lookup") /\ UNCHANGED <<seen, dirty, locks>>
  /\ UNCHANGED <<dbVars, gatewayVars, historyVars>>

(* Mutation: the row is left as the flush wrote it. *)
WebhookUnfinished(s, verdict) ==
  /\ dirty' = [dirty EXCEPT ![s].verdict = "PROCESSING"]
  /\ Goto(s, "commit")

(* The event is finished with a verdict and nothing else to write. *)
WebhookVerdict(s, verdict) ==
  /\ dirty' = [dirty EXCEPT ![s].verdict = verdict]
  /\ Goto(s, "commit")

(* Mutation: any other failed payment goes to the transition matrix. *)
IgnoresRepeatsOnly(o, target) == status[o] = target

(* The handlers have nothing to do for an operation in this status. *)
Ignores(o, target) ==
  IF target = "FAILED" THEN status[o] \notin InFlight ELSE status[o] = "SUCCEEDED"

(* No order transaction names this order. *)
Unknown(s) == Kind[Op(s)] # "ORDER" \/ job[s].order \notin txrows[Op(s)]

(* The transaction and the operation are read, without a lock; the new      *)
(* status waits for the COMMIT.  An illegal transition raises, and the     *)
(* event is kept for a retry or, at MaxRetries, as a dead letter.          *)
WebhookLookup(s) ==
  LET o == Op(s)
      target == IF job[s].event = "payment.failed" THEN "FAILED" ELSE "SUCCEEDED"
      applies == ~Unknown(s) /\ ~Ignores(o, target)
  IN
  /\ Step(s) = "lookup"
  /\ \/ /\ ~applies
        /\ WebhookVerdict(s, "PROCESSED")
     \/ /\ applies /\ ~CanTransition(status[o], target)
        /\ WebhookVerdict(s, IF seen[s].attempts + 1 >= MaxRetries
                             THEN "DEAD_LETTER" ELSE "FAILED")
     \/ /\ applies /\ CanTransition(status[o], target)
        /\ dirty' = [dirty EXCEPT ![s].status[o] = target, ![s].verdict = "PROCESSED"]
        /\ Goto(s, "mandate")
  /\ UNCHANGED <<dbVars, gatewayVars, seen, locks, historyVars>>

(* The mandate is read, again without a lock.  A failed payment whose       *)
(* amount is no longer reserved changes no budget.                         *)
WebhookMandate(s) ==
  /\ Step(s) = "mandate"
  /\ seen' = [seen EXCEPT ![s].reserved = mandate.reserved, ![s].spend = mandate.spend]
  /\ Goto(s, IF job[s].event = "payment.failed" /\ mandate.reserved < Amount[Op(s)]
             THEN "commit" ELSE "update")
  /\ UNCHANGED <<dbVars, gatewayVars, dirty, locks, historyVars>>

(* Mutation: a settlement forgets the reservation it settles. *)
NeverCovered(s) == FALSE

(* verify_payment does not look; a webhook settles what it saw reserved. *)
Covered(s) == job[s].call = "verify" \/ seen[s].reserved >= Amount[Op(s)]

(* The UPDATE of the mandate by verify_payment or a webhook.  A capture     *)
(* whose amount was not seen reserved is added to the spend only.          *)
UpdateMandate(s) ==
  LET captured == job[s].event # "payment.failed"
  IN
  /\ Step(s) = "update" /\ MandateFree(s)
  /\ locks' = [locks EXCEPT ![s].mandate = TRUE]
  /\ dirty' = [dirty EXCEPT ![s].reserved = IF Covered(s) THEN -Amount[Op(s)] ELSE 0,
                            ![s].spend = IF captured THEN Amount[Op(s)] ELSE 0]
  /\ Goto(s, IF job[s].call = "verify" THEN "txrow" ELSE "commit")
  /\ UNCHANGED <<dbVars, gatewayVars, seen, historyVars>>
------------------------------------------------------------------------------
(* reconcile_stuck_reservations: one sweep is one database transaction.    *)

Stuck(s) == {o \in Ops : status[o] \in InFlight /\ age[o] # "fresh" /\ OpFree(s, o)}

(* Mutation: the rows are selected without FOR UPDATE. *)
SweepOpenUnlocked(s) ==
  /\ "sweep" \in Calls /\ Step(s) = "idle" /\ Stuck(s) # {}
  /\ job' = [job EXCEPT ![s] = [NoJob EXCEPT !.call = "sweep", !.step = "sweep",
                                            !.todo = Stuck(s)]]
  /\ UNCHANGED <<dbVars, gatewayVars, seen, dirty, locks, historyVars>>

(* SELECT ... FOR UPDATE SKIP LOCKED of the operations past the cutoff. *)
SweepOpen(s) ==
  /\ "sweep" \in Calls /\ Step(s) = "idle" /\ Stuck(s) # {}
  /\ job' = [job EXCEPT ![s] = [NoJob EXCEPT !.call = "sweep", !.step = "sweep",
                                            !.todo = Stuck(s)]]
  /\ locks' = [locks EXCEPT ![s].ops = Stuck(s)]
  /\ UNCHANGED <<dbVars, gatewayVars, seen, dirty, historyVars>>

(* Two transactions: scalar_one_or_none raises and the sweep is lost. *)
SweepAmbiguous(s) ==
  /\ Step(s) = "sweep" /\ \E o \in job[s].todo : Cardinality(txrows[o]) > 1
  /\ Close(s)
  /\ UNCHANGED <<dbVars, gatewayVars, historyVars>>

(* Mutation: only paid orders are settled. *)
SweepVerdictsPaid(o) == {IF Kind[o] = "ORDER" /\ PaidOrder(o) THEN "SUCCEEDED" ELSE "leave"}

(* What the sweep does with an operation: without a gateway object it       *)
(* releases; an order is settled as the gateway reports it; a payment link *)
(* matches no case.                                                        *)
SweepVerdicts(o) ==
  IF txrows[o] = {} THEN {"FAILED"}
  ELSE IF Kind[o] # "ORDER" THEN {"leave"}
  ELSE {IF PaidOrder(o) THEN "SUCCEEDED"
        ELSE IF age[o] = "expired" THEN "FAILED" ELSE "leave"}
       \cup (IF "fetch" \in Faults THEN {"leave"} ELSE {})

(* The operation's transaction and the gateway's order are read first. *)
SweepRead(s, o, verdict) ==
  /\ Step(s) = "sweep" /\ o \in job[s].todo
  /\ Cardinality(txrows[o]) <= 1
  /\ verdict \in SweepVerdicts(o)
  /\ IF verdict = "leave"
     THEN job' = [job EXCEPT ![s].todo = @ \ {o}] /\ UNCHANGED dirty
     ELSE /\ job' = [job EXCEPT ![s].todo = @ \ {o}, ![s].op = o, ![s].step = "settle"]
          /\ dirty' = [dirty EXCEPT ![s].status[o] = verdict]
  /\ UNCHANGED <<dbVars, gatewayVars, seen, locks, historyVars>>

(* The UPDATE of the mandate waits for its lock. *)
SweepSettle(s) ==
  LET o == Op(s) IN
  /\ Step(s) = "settle" /\ MandateFree(s)
  /\ locks' = [locks EXCEPT ![s].mandate = TRUE]
  /\ dirty' = [dirty EXCEPT
       ![s].reserved = @ - Amount[o],
       ![s].spend = IF dirty[s].status[o] = "SUCCEEDED" THEN @ + Amount[o] ELSE @]
  /\ Goto(s, "sweep")
  /\ UNCHANGED <<dbVars, gatewayVars, seen, historyVars>>

SweepDone(s) ==
  /\ Step(s) = "sweep" /\ job[s].todo = {}
  /\ Goto(s, "commit")
  /\ UNCHANGED <<dbVars, gatewayVars, seen, dirty, locks, historyVars>>
------------------------------------------------------------------------------
(* COMMIT.  The flush it starts with writes the operation rows, waiting for *)
(* their locks, whatever has been committed to them since they were read.  *)
Commit(s) ==
  /\ Step(s) = "commit"
  /\ \A o \in Written(s) : OpFree(s, o)
  /\ status' = [o \in Ops |-> IF o \in Written(s) THEN dirty[s].status[o] ELSE status[o]]
  /\ mandate' = [reserved |-> mandate.reserved + dirty[s].reserved,
                 spend |-> mandate.spend + dirty[s].spend]
  /\ txrows' = IF dirty[s].insert = 0 THEN txrows
               ELSE [txrows EXCEPT ![Op(s)] = @ \cup {dirty[s].insert}]
  /\ inbox' = IF job[s].call # "webhook" THEN inbox
              ELSE [inbox EXCEPT ![Event(s)] = [status |-> dirty[s].verdict,
                                                attempts |-> seen[s].attempts + 1]]
  /\ Close(s)
  /\ UNCHANGED <<gatewayVars, historyVars>>

(* The process dies: the database rolls its transaction back. *)
Crash(s) ==
  /\ "crash" \in Faults /\ Step(s) # "idle"
  /\ Close(s)
  /\ UNCHANGED <<dbVars, gatewayVars, historyVars>>

(* s waits for a row that t has locked. *)
WaitsFor(s, t) ==
  \/ /\ locks[t].mandate
     /\ Step(s) \in {"lock", "reserve", "update", "settle"}
  \/ Step(s) = "flush" /\ Op(s) \in locks[t].ops
  \/ Step(s) = "commit" /\ Written(s) \cap locks[t].ops # {}

(* PostgreSQL aborts one of two sessions that wait for each other. *)
DeadlockAbort(s) ==
  /\ \E t \in Sessions \ {s} : WaitsFor(s, t) /\ WaitsFor(t, s)
  /\ Close(s)
  /\ UNCHANGED <<dbVars, gatewayVars, historyVars>>
------------------------------------------------------------------------------
(* The payer, the gateway and the clock.  An order or a payment link is     *)
(* known outside the gateway once the answer to the call was sent, after   *)
(* the COMMIT that records it.  A paid link is reported with an order the  *)
(* gateway made for it, which no transaction names.                        *)
Payable(o, i) == Kind[o] \in {"ORDER", "LINK"} /\ i \in txrows[o] /\ <<o, i>> \notin paid

Pay(o, i) ==
  /\ Payable(o, i)
  /\ paid' = paid \cup {<<o, i>>}
  /\ UNCHANGED <<dbVars, created, attempted, sessionVars, historyVars>>

(* A failed attempt leaves the order open for another one. *)
AttemptFails(o, i) ==
  /\ Payable(o, i) /\ <<o, i>> \notin attempted
  /\ "payment.failed" \in EventTypes
  /\ attempted' = attempted \cup {<<o, i>>}
  /\ UNCHANGED <<dbVars, created, paid, sessionVars, historyVars>>

(* created_at is never touched again, so waiting for a reviewer counts. *)
Aging(o) ==
  /\ "sweep" \in Calls
  /\ status[o] \in InFlight \cup {"REQUIRES_APPROVAL"} /\ age[o] # "expired"
  /\ age' = [age EXCEPT ![o] = IF @ = "fresh" THEN "stuck" ELSE "expired"]
  /\ UNCHANGED <<dbVars, gatewayVars, sessionVars, calls, grants>>
------------------------------------------------------------------------------
(* The steps by which a session goes on with what it has begun. *)
Continue(s) ==
  \/ RequestDuplicate(s) \/ RequestDecide(s)
  \/ DispatchAccepted(s) \/ DispatchNothing(s) \/ DispatchFails(s)
  \/ ApproveReserve(s) \/ ApproveFlush(s)
  \/ VerifyAmbiguous(s) \/ VerifyRow(s)
  \/ WebhookRecord(s) \/ WebhookLookup(s) \/ WebhookMandate(s)
  \/ UpdateMandate(s)
  \/ \E o \in Ops : \E v \in {"SUCCEEDED", "FAILED", "leave"} : SweepRead(s, o, v)
  \/ SweepAmbiguous(s) \/ SweepSettle(s) \/ SweepDone(s)
  \/ Commit(s)
  \/ DeadlockAbort(s)

Next ==
  \/ \E s \in Sessions :
       \/ \E o \in Ops : \/ RequestOpen(s, o) \/ ApproveOpen(s, o)
                         \/ RejectOpen(s, o) \/ VerifyOpen(s, o)
       \/ \E e \in Events : WebhookOpen(s, e)
       \/ SweepOpen(s)
       \/ Continue(s)
       \/ Crash(s)
  \/ \E o \in Ops : Aging(o)
  \/ \E order \in Orders : Pay(order[1], order[2]) \/ AttemptFails(order[1], order[2])

Spec == Init /\ [][Next]_vars
==============================================================================
