---------------------------- MODULE RefundWebhooks ----------------------------
(***************************************************************************)
(* Refunds of payments and the refund.processed events that report them     *)
(* (apps/api/routes/webhooks.py), for one mandate.  A refund is made by the *)
(* mandate's own CREATE_REFUND operation, which charges it, or by someone   *)
(* at the gateway's dashboard.  Events come in any order and repeatedly;    *)
(* deliveries run in database sessions of their own, as in                 *)
(* OperationPipeline.                                                      *)
(***************************************************************************)
EXTENDS Integers

CONSTANTS
  Payments,     \* payments, all captured at the gateway
  Local,        \* those that pay an order of an operation of the mandate
  Price,        \* Price[p]: the amount of that operation
  Refunds,      \* refunds that may be made
  PaymentOf,    \* the payment each refunds
  Amount,       \* how much of it
  ByMandate,    \* the refunds made by an operation
  Named,        \* those whose events carry an event_id
  Sessions,     \* database sessions
  MaxDeliveries \* bound: deliveries per event

MaxRetries == 3   \* webhook_events.max_retries

ASSUME RefundConstants ==
  /\ Local \subseteq Payments /\ ByMandate \subseteq Refunds /\ Named \subseteq Refunds
  /\ Price \in [Payments -> Nat]
  /\ PaymentOf \in [Refunds -> Payments] /\ Amount \in [Refunds -> Nat]
  /\ MaxDeliveries \in Nat

VARIABLES
  settled,    \* settled[p]: how the operation of a local payment was settled
  refunded,   \* the refunds the gateway has made
  recorded,   \* those with a transaction of their own
  spend,      \* the mandate's current_aggregate_spend
  inbox,      \* webhook_events, by refund
  work,       \* what each session is doing
  deliveries, \* deliveries[r]: how often r was reported
  credited    \* credited[r]: how often it was subtracted from the spend

vars == <<settled, refunded, recorded, spend, inbox, work, deliveries, credited>>

NoWork == [step |-> "idle", refund |-> "none", attempts |-> 0, verdict |-> "none",
           credit |-> 0]

Init ==
  /\ settled = [p \in Local |-> "open"]
  /\ refunded = {}
  /\ recorded = {}
  /\ spend = 0
  /\ inbox = [r \in Refunds |-> [status |-> "none", attempts |-> 0]]
  /\ work = [s \in Sessions |-> NoWork]
  /\ deliveries = [r \in Refunds |-> 0]
  /\ credited = [r \in Refunds |-> 0]
------------------------------------------------------------------------------
(* The operation behind a payment succeeds.  The capture webhook and the    *)
(* checkout verification write the payment into its transaction, the sweep  *)
(* does not.                                                               *)
Settle(p, how) ==
  /\ settled[p] = "open"
  /\ settled' = [settled EXCEPT ![p] = how]
  /\ spend' = spend + Price[p]
  /\ UNCHANGED <<refunded, recorded, inbox, work, deliveries, credited>>

(* create_refund, or a refund at the dashboard. *)
RefundAtGateway(r) ==
  /\ r \notin refunded
  /\ refunded' = refunded \cup {r}
  /\ UNCHANGED <<settled, recorded, spend, inbox, work, deliveries, credited>>

(* The COMMIT of the operation that asked for the refund: its transaction   *)
(* names the refunded payment, and the mandate is charged the amount.  It   *)
(* never comes when the answer was lost or the process died.               *)
RefundRecord(r) ==
  /\ r \in (refunded \cap ByMandate) \ recorded
  /\ recorded' = recorded \cup {r}
  /\ spend' = spend + Amount[r]
  /\ UNCHANGED <<settled, refunded, inbox, work, deliveries, credited>>
------------------------------------------------------------------------------
Step(s) == work[s].step
Refund(s) == work[s].refund
Goto(s, step) == work' = [work EXCEPT ![s].step = step]
Close(s) == work' = [work EXCEPT ![s] = NoWork]

(* The event row is read; one that was processed is ignored.  An event      *)
(* without an event_id is given a fresh one and so is always new.          *)
DeliverOpen(s, r) ==
  /\ Step(s) = "idle" /\ r \in refunded /\ deliveries[r] < MaxDeliveries
  /\ r \in Named => inbox[r].status # "PROCESSED"
  /\ work' = [work EXCEPT ![s] = [NoWork EXCEPT !.step = "flush", !.refund = r,
                !.attempts = IF r \in Named THEN inbox[r].attempts ELSE 0]]
  /\ deliveries' = [deliveries EXCEPT ![r] = @ + 1]
  /\ UNCHANGED <<settled, refunded, recorded, spend, inbox, credited>>

(* Nobody else holds the event's row, from its flush to its COMMIT. *)
EventFree(s) ==
  Refund(s) \in Named =>
    \A t \in Sessions \ {s} : Refund(t) = Refund(s) => Step(t) = "flush"

(* Mutation: event_id is indexed but not unique. *)
TakenNever(s) == FALSE

(* Another delivery has stored the event since the SELECT. *)
Taken(s) == Refund(s) \in Named /\ work[s].attempts = 0 /\ inbox[Refund(s)].attempts > 0

(* The flush; the INSERT of an event that is there already fails. *)
DeliverFlush(s) ==
  /\ Step(s) = "flush" /\ EventFree(s)
  /\ IF Taken(s) THEN Close(s) ELSE Goto(s, "apply")
  /\ UNCHANGED <<settled, refunded, recorded, spend, inbox, deliveries, credited>>

(* The transactions that name a payment, by what they record. *)
Rows(p) ==
  (IF p \in Local /\ settled[p] = "linked" THEN {"capture"} ELSE {})
    \cup {r \in recorded : PaymentOf[r] = p}

(* scalar_one_or_none raises. *)
Ambiguous(p) == \E x, y \in Rows(p) : x # y

Finish(s, verdict, credit) ==
  work' = [work EXCEPT ![s].step = "commit", ![s].verdict = verdict, ![s].credit = credit]

FailedVerdict(s) == IF work[s].attempts + 1 >= MaxRetries THEN "DEAD_LETTER" ELSE "FAILED"

(* Mutation: the allowance is restored before the transaction is looked up. *)
ApplyBeforeLookup(s) ==
  /\ Step(s) = "apply"
  /\ Finish(s, IF Ambiguous(PaymentOf[Refund(s)]) THEN FailedVerdict(s) ELSE "PROCESSED",
            Amount[Refund(s)])
  /\ UNCHANGED <<settled, refunded, recorded, spend, inbox, deliveries, credited>>

(* _handle_refund_processed_event.  A payment no transaction names is       *)
(* somebody else's; an ambiguous one raises, and the event is kept for a     *)
(* retry or as a dead letter.                                              *)
DeliverApply(s) ==
  LET payment == PaymentOf[Refund(s)] IN
  /\ Step(s) = "apply"
  /\ \/ Rows(payment) = {} /\ Finish(s, "PROCESSED", 0)
     \/ Rows(payment) # {} /\ ~Ambiguous(payment) /\ Finish(s, "PROCESSED", Amount[Refund(s)])
     \/ Ambiguous(payment) /\ Finish(s, FailedVerdict(s), 0)
  /\ UNCHANGED <<settled, refunded, recorded, spend, inbox, deliveries, credited>>

DeliverCommit(s) ==
  LET r == Refund(s) IN
  /\ Step(s) = "commit"
  /\ inbox' = IF r \notin Named THEN inbox
              ELSE [inbox EXCEPT ![r] = [status |-> work[s].verdict,
                                         attempts |-> work[s].attempts + 1]]
  /\ spend' = spend - work[s].credit
  /\ credited' = IF work[s].credit = 0 THEN credited ELSE [credited EXCEPT ![r] = @ + 1]
  /\ Close(s)
  /\ UNCHANGED <<settled, refunded, recorded, deliveries>>

(* The process dies before the COMMIT. *)
Crash(s) ==
  /\ Step(s) # "idle"
  /\ Close(s)
  /\ UNCHANGED <<settled, refunded, recorded, spend, inbox, deliveries, credited>>

Next ==
  \/ \E p \in Local : \E how \in {"linked", "unlinked"} : Settle(p, how)
  \/ \E r \in Refunds : RefundAtGateway(r) \/ RefundRecord(r)
  \/ \E s \in Sessions :
       \/ \E r \in Refunds : DeliverOpen(s, r)
       \/ DeliverFlush(s) \/ DeliverApply(s) \/ DeliverCommit(s) \/ Crash(s)

Spec == Init /\ [][Next]_vars
------------------------------------------------------------------------------
TypeOK ==
  /\ settled \in [Local -> {"open", "linked", "unlinked"}]
  /\ recorded \subseteq refunded /\ refunded \subseteq Refunds
  /\ spend \in Int
  /\ credited \in [Refunds -> Nat] /\ deliveries \in [Refunds -> Nat]
  /\ \A r \in Refunds : /\ inbox[r].status \in {"none", "PROCESSED", "FAILED", "DEAD_LETTER"}
                        /\ inbox[r].attempts \in Nat
  /\ \A s \in Sessions : /\ Step(s) \in {"idle", "flush", "apply", "commit"}
                         /\ Step(s) # "idle" => Refund(s) \in refunded
                         /\ work[s].attempts \in Nat /\ work[s].credit \in Nat

(* However often a refund is reported, at the same time or again after a    *)
(* failure or a crash, the mandate is credited with it once at most, if its *)
(* events carry an id (webhooks.py, "Idempotency Check: Persist raw event   *)
(* to `webhook_events` before processing").                                *)
CreditedOnce == \A r \in Named : credited[r] <= 1

(* An event is given up, for now or as a dead letter, exactly because two   *)
(* transactions name its payment, and then nothing of it was applied: the   *)
(* except branch commits the session, and must not commit half a refund     *)
(* with it (webhooks.py, the except branch of handle_razorpay_webhook).    *)
GivenUpUncredited ==
  \A r \in Refunds :
    inbox[r].status \in {"FAILED", "DEAD_LETTER"} =>
      credited[r] = 0 /\ Ambiguous(PaymentOf[r])
==============================================================================
