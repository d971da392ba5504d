---------------------------- MODULE GatewayAudit ----------------------------
(***************************************************************************)
(* The read-only audit of the ledger against the gateway                   *)
(* (services/worker/reconciliation.py), beside the operations and payments *)
(* that go on while it runs.  It reads the ledger once and then fetches one *)
(* order after the other through the client, whose calls, retries and late *)
(* answers are those of GatewayClient; so are those that create the orders. *)
(***************************************************************************)
EXTENDS GatewayClient, Sequences, SequencesExt

CONSTANTS
  Operations,   \* operations
  Kind,         \* Kind[o]: what the gateway makes for it: "order", "link" or "nothing"
  CreateOf,     \* CreateOf[o]: the call that creates the order of o
  FetchOf       \* FetchOf[o]: the call by which the audit fetches it

Orders == {o \in Operations : Kind[o] = "order"}

ASSUME AuditAssumption ==
  \A o \in Orders : /\ CreateOf[o] \in Calls /\ EndpointOf[CreateOf[o]] = create_order
                    /\ FetchOf[o] \in Calls /\ EndpointOf[FetchOf[o]] = fetch_order

VARIABLES
  status,       \* the operations' status, "ABSENT" before the commit of the request
  recent,       \* the operations created within the lookback
  paid,         \* the operations whose orders are paid at the gateway
  shown,        \* the requests of the client to which the gateway showed a paid order
  records,      \* the rows that the audit has still to look at: [op, status]
  found,        \* the discrepancies found so far
  unanswered,   \* the orders whose fetch failed
  due,          \* what was missed when the audit read the ledger
  reports,      \* the ReconciliationReports stored
  begun         \* bound: one audit is run

ledger == <<status, recent, paid>>
audit == <<records, found, unanswered, due, reports, begun>>
auditVars == <<vars, ledger, shown, audit>>

NotRunning == <<[op |-> "none", status |-> "none"]>>

AuditInit ==
  /\ Init
  /\ status = [o \in Operations |-> "ABSENT"]
  /\ recent = {} /\ paid = {} /\ shown = {}
  /\ records = NotRunning
  /\ found = {} /\ unanswered = {} /\ due = {}
  /\ reports = {} /\ begun = FALSE
------------------------------------------------------------------------------
(* The rest of the system.                                                 *)

(* A request commits after the call that creates its order has returned;    *)
(* one whose call raised fails, with no transaction for the audit to see.   *)
(* A capture is reserved and asks the gateway for nothing.                 *)
Request(o) ==
  /\ status[o] = "ABSENT"
  /\ o \in Orders => job[CreateOf[o]].at = "returned"
  /\ status' = [status EXCEPT ![o] = IF Kind[o] = "nothing" THEN "RESERVED" ELSE "EXECUTING"]
  /\ recent' = recent \cup {o}
  /\ UNCHANGED <<vars, paid, shown, audit>>

Pay(o) ==
  /\ status[o] # "ABSENT" /\ o \in Orders \ paid
  /\ paid' = paid \cup {o}
  /\ UNCHANGED <<vars, status, recent, shown, audit>>

(* A webhook or a sweep settles the operation. *)
Settle(o) ==
  /\ status[o] = "EXECUTING"
  /\ \E s \in IF o \in paid THEN {"SUCCEEDED", "FAILED"} ELSE {"FAILED"} :
       status' = [status EXCEPT ![o] = s]
  /\ UNCHANGED <<vars, recent, paid, shown, audit>>

(* A day goes by. *)
Age ==
  /\ recent # {} /\ recent' = {}
  /\ UNCHANGED <<vars, status, paid, shown, audit>>
------------------------------------------------------------------------------
(* The client and the gateway go on with the calls that were begun. *)

CallsStep ==
  /\ \/ \E c \in Creations : Ask(c)
     \/ \E c \in Calls : Resume(c) \/ Return(c) \/ RaiseOnBody(c) \/ TimeOut(c)
  /\ UNCHANGED <<ledger, shown, audit>>

(* What a fetch is shown is the order as it is when the request is served. *)
GatewayServes(r, body) ==
  /\ Serve(r, body)
  /\ shown' = IF \E o \in paid : r[1] = FetchOf[o] THEN shown \cup {r} ELSE shown
  /\ UNCHANGED <<ledger, audit>>
------------------------------------------------------------------------------
(* The join of the transactions with their operations: what has asked the   *)
(* gateway for nothing has no transaction.                                 *)
Rows == {[op |-> o, status |-> status[o]] : o \in {o \in recent : Kind[o] # "nothing"}}

Begin ==
  /\ ~begun /\ begun' = TRUE
  /\ \E order \in SetToSeqs(Rows) : records' = order
  /\ due' = {o \in recent \cap paid : status[o] # "SUCCEEDED"}
  /\ UNCHANGED <<vars, ledger, shown, found, unanswered, reports>>

Running == records # NotRunning /\ records # <<>>
Row == Head(records)

(* Mutation: the audit stops at the first transaction without an order. *)
AfterSkipping == <<>>

(* The rows after one that has no gateway order: `continue`. *)
AfterSkipped == Tail(records)

Skip ==
  /\ Running /\ Row.op \notin Orders
  /\ records' = AfterSkipped
  /\ UNCHANGED <<vars, ledger, shown, found, unanswered, due, reports, begun>>

Fetch ==
  /\ Running /\ Row.op \in Orders
  /\ Ask(FetchOf[Row.op])
  /\ UNCHANGED <<ledger, shown, audit>>

(* The status is the one read at the beginning, the payment is the one that *)
(* the answered request was shown.  The amounts are not modelled: an order  *)
(* has its operation's.                                                    *)
Check ==
  LET call == FetchOf[Row.op] IN
  /\ Running /\ Row.op \in Orders
  /\ job[call].at = "returned"
  /\ records' = Tail(records)
  /\ found' = IF Current(call) \in shown /\ Row.status # "SUCCEEDED"
              THEN found \cup {Row.op} ELSE found
  /\ UNCHANGED <<vars, ledger, shown, unanswered, due, reports, begun>>

(* The except branch logs a fetch that raised, and the walk goes on. *)
CheckFails ==
  /\ Running /\ Row.op \in Orders
  /\ job[FetchOf[Row.op]].at = "raised"
  /\ records' = Tail(records)
  /\ unanswered' = unanswered \cup {Row.op}
  /\ UNCHANGED <<vars, ledger, shown, found, due, reports, begun>>

Finish ==
  /\ records = <<>>
  /\ reports' = reports \cup {[found |-> found, unanswered |-> unanswered, due |-> due]}
  /\ records' = NotRunning
  /\ UNCHANGED <<vars, ledger, shown, found, unanswered, due, begun>>

(* The process dies or the commit fails, and there is no report.  Dying in  *)
(* a fetch leaves what dying before it leaves.                             *)
Abandon ==
  /\ records # NotRunning
  /\ Running /\ Row.op \in Orders => job[FetchOf[Row.op]].at = "idle"
  /\ records' = NotRunning
  /\ UNCHANGED <<vars, ledger, shown, found, unanswered, due, reports, begun>>

AuditNext ==
  \/ \E o \in Operations : Request(o) \/ Pay(o) \/ Settle(o)
  \/ Age \/ CallsStep
  \/ \E r \in transit : \E body \in Bodies : GatewayServes(r, body)
  \/ Begin \/ Skip \/ Fetch \/ Check \/ CheckFails \/ Finish \/ Abandon

AuditSpec == AuditInit /\ [][AuditNext]_auditVars /\ CallsGoOn
------------------------------------------------------------------------------
(* A report names every order that was paid and not recorded when the audit *)
(* began, unless the client gave its fetch up, whatever the ledger and the  *)
(* gateway do in the meantime and whichever attempt of the fetch is         *)
(* answered (reconciliation.py, "Missed Webhooks").                        *)
MissedWebhooksAreReported ==
  \A report \in reports : report.due \subseteq report.found \cup report.unanswered
==============================================================================
