----------------------------- MODULE McpGateway -----------------------------
(***************************************************************************)
(* The MCP gateway (apps/api/routes/mcp_gateway.py) with the agents registry *)
(* and the authentication of callers behind it.  A JSON-RPC call is served  *)
(* in one database session that keeps its first copy of the agent and of    *)
(* the mandate; the pipeline it hands a financial tool to is one step here  *)
(* (OperationPipeline has its own steps), and so is each commit of the      *)
(* reviewers, webhooks and verified payments that change an operation while *)
(* its answer is pending.                                                  *)
(***************************************************************************)
EXTENDS ToolRegistry, Sequences

CONSTANTS
  Agents, NoAgent,   \* agents; an absent X-Agent-Id header
  AgentType,         \* AgentType[a]: agent_type
  Owner,             \* Owner[m]: the agent of the m-th mandate to be created
  Whitelist,         \* Whitelist[m]: its allowed_operations
  Rpcs,              \* the calls clients make, see Rpc
  Production,        \* ENVIRONMENT is production
  Sessions,
  MaxSends           \* bound: how many calls are sent in all

Mandates == DOMAIN Owner

ASSUME McpConstants ==
  /\ NoAgent \notin Agents
  /\ Owner \in Seq(Agents) /\ Whitelist \in [Mandates -> SUBSET STRING]
  /\ Production \in BOOLEAN

(* The header X-Agent-Key, or the bearer token: whose it is and in which    *)
(* form it was sent.                                                       *)
Key(agent, form) == [of |-> agent, form |-> form]
NoKey == Key(NoAgent, "absent")

(* key is the key header, id the agent that X-Agent-Id names, args the      *)
(* parameters that are given, amount the value of "amount" (0 for none and  *)
(* what is not a positive integer).                                        *)
Rpc(key, id, method, tool, args, amount) ==
  [key |-> key, id |-> id, method |-> method, tool |-> tool, args |-> args, amount |-> amount]

VARIABLES
  agentStatus,    \* agents.status, "ABSENT" before the registration
  mandateStatus,  \* mandates.status, "ABSENT" before the creation
  operations,     \* the operations stored, in order
  reviews,        \* the operations some reviewer has found waiting
  work,           \* the sessions
  answers,        \* the answers given
  sent            \* calls sent so far

vars == <<agentStatus, mandateStatus, operations, reviews, work, answers, sent>>

NoRpc == Rpc(NoKey, NoAgent, "none", "none", {}, 0)
NoWork == [step |-> "idle", rpc |-> NoRpc, agent |-> NoAgent, mandate |-> 0, op |-> 0]

Init ==
  /\ agentStatus = [a \in Agents |-> "ABSENT"]
  /\ mandateStatus = [m \in Mandates |-> "ABSENT"]
  /\ operations = <<>>
  /\ reviews = {}
  /\ work = [s \in Sessions |-> NoWork]
  /\ answers = {}
  /\ sent = 0
------------------------------------------------------------------------------
(* POST /agents, /agents/{id}/status, /mandates and the mandates' status.   *)
(* The gateway only asks whether a status is ACTIVE: SUSPENDED stands for   *)
(* REVOKED too.                                                            *)
Statuses == {"ACTIVE", "SUSPENDED"}

RegisterAgent(a) ==
  /\ agentStatus[a] = "ABSENT"
  /\ agentStatus' = [agentStatus EXCEPT ![a] = "ACTIVE"]
  /\ UNCHANGED <<mandateStatus, operations, reviews, work, answers, sent>>

UpdateAgentStatus(a, status) ==
  /\ agentStatus[a] # "ABSENT" /\ status # agentStatus[a]
  /\ agentStatus' = [agentStatus EXCEPT ![a] = status]
  /\ UNCHANGED <<mandateStatus, operations, reviews, work, answers, sent>>

CreateMandate(m) ==
  /\ agentStatus[Owner[m]] # "ABSENT"
  /\ mandateStatus[m] = "ABSENT" /\ \A n \in Mandates : n < m => mandateStatus[n] # "ABSENT"
  /\ mandateStatus' = [mandateStatus EXCEPT ![m] = "ACTIVE"]
  /\ UNCHANGED <<agentStatus, operations, reviews, work, answers, sent>>

UpdateMandateStatus(m, status) ==
  /\ mandateStatus[m] # "ABSENT" /\ status # mandateStatus[m]
  /\ mandateStatus' = [mandateStatus EXCEPT ![m] = status]
  /\ UNCHANGED <<agentStatus, operations, reviews, work, answers, sent>>
------------------------------------------------------------------------------
(* What identifies an agent as a key, in every environment: its raw key,    *)
(* the hash that is stored of it, and its id; any other string is nobody's. *)
KeyForms == {"raw", "stored_hash", "id"}

(* authenticate_agent_caller: the agent it resolves, if any.  A key decides *)
(* and the id must agree with it; without a key the id is enough, except in *)
(* production.                                                             *)
Authenticated(key, id) ==
  {a \in Agents : /\ agentStatus[a] = "ACTIVE"
                  /\ \/ key.form \in KeyForms /\ key.of = a /\ id \in {a, NoAgent}
                     \/ key = NoKey /\ id = a /\ ~Production}

Step(s) == work[s].step

(* The session answers and ends; op is the operation it tells of, 0 for none. *)
Answer(s, code, op, mandate, tools) ==
  /\ answers' = answers \cup {[code |-> code, op |-> op, mandate |-> mandate, tools |-> tools]}
  /\ work' = [work EXCEPT ![s] = NoWork]

Refuse(s, code) == Answer(s, code, 0, 0, {})

Authenticate(s, r) ==
  /\ Step(s) = "idle" /\ sent < MaxSends
  /\ sent' = sent + 1
  /\ \/ /\ Authenticated(r.key, r.id) = {}
        /\ Refuse(s, "unauthenticated")
     \/ \E a \in Authenticated(r.key, r.id) :
          /\ work' = [work EXCEPT ![s] = [NoWork EXCEPT !.step = "mandate", !.rpc = r,
                                                       !.agent = a]]
          /\ UNCHANGED answers
  /\ UNCHANGED <<agentStatus, mandateStatus, operations, reviews>>

ActiveMandates(a) == {m \in Mandates : Owner[m] = a /\ mandateStatus[m] = "ACTIVE"}

(* The newest active mandate of the agent serves the call. *)
SelectMandate(s) ==
  LET r == work[s].rpc
      own == ActiveMandates(work[s].agent)
  IN
  /\ Step(s) = "mandate"
  /\ \/ own = {} /\ Refuse(s, "no_mandate")
     \/ \E m \in own :
          /\ \A n \in own : n <= m
          /\ \/ /\ r.method = "tools/list"
                /\ Answer(s, "tools", 0, m, Filtered(AgentType[work[s].agent], Whitelist[m]))
             \/ /\ r.method = "tools/call"
                /\ work' = [work EXCEPT ![s].step = "dispatch", ![s].mandate = m]
                /\ UNCHANGED answers
             \/ /\ r.method \notin {"tools/list", "tools/call"}
                /\ Refuse(s, "no_method")
  /\ UNCHANGED <<agentStatus, mandateStatus, operations, reviews, sent>>

Called(r) == {tool \in Registry : tool.name = r.tool}

(* Nothing but the presence of unknown parameters is checked: "required" is *)
(* not, and a missing amount is 0.                                         *)
AmountOf(r) == IF "amount" \in r.args THEN r.amount ELSE 0

(* Case A and what precedes it in _dispatch_mcp_tool_call.  A tool without  *)
(* an operation type that is not one of the three below, and an amount that *)
(* is not positive, break the OperationCreate schema outside the try: the   *)
(* call ends in an internal error of the server.                           *)
Dispatch(s) ==
  LET r == work[s].rpc IN
  /\ Step(s) = "dispatch"
  /\ \/ /\ \A tool \in Called(r) : ~ r.args \subseteq tool.params
        /\ Refuse(s, "bad_params")
     \/ \E tool \in Called(r) :
          /\ r.args \subseteq tool.params
          /\ \/ /\ tool.name \in {"payments_fetch_order", "payments_fetch_payment"}
                /\ Refuse(s, "read")
             \/ /\ tool.name = "payments_fetch_order"   \* the gateway does not answer
                /\ Refuse(s, "internal_error")
             \/ /\ tool.name = "payouts_create"
                /\ Refuse(s, "payouts_denied")
             \/ /\ tool.operation = NoOperation
                /\ tool.name \notin {"payments_fetch_order", "payments_fetch_payment",
                                     "payouts_create"}
                /\ Refuse(s, "internal_error")
             \/ /\ tool.operation # NoOperation /\ AmountOf(r) = 0
                /\ Refuse(s, "internal_error")
             \/ /\ tool.operation # NoOperation /\ AmountOf(r) > 0
                /\ work' = [work EXCEPT ![s].step = "request"]
                /\ UNCHANGED answers
  /\ UNCHANGED <<agentStatus, mandateStatus, operations, reviews, sent>>

(* What the pipeline leaves of an operation: the decision in its evaluation *)
(* details, its status, and whether it was handed to the gateway.          *)
Outcome(decision, status, dispatched) ==
  [decision |-> decision, status |-> status, dispatched |-> dispatched]

(* The statuses of an operation whose dispatch was allowed. *)
Dispatched(type, args) ==
  CASE type \in {"CREATE_ORDER", "CREATE_PAYMENT_LINK"} -> {"EXECUTING", "FAILED"}
    [] type = "CREATE_REFUND" -> IF "payment_id" \in args THEN {"SUCCEEDED", "FAILED"}
                                 ELSE {"FAILED"}
    [] OTHER -> {"RESERVED"}

(* How request_financial_operation can leave the operation; the rules other *)
(* than the whitelist, and the budget, may deny any of them.  The agent and *)
(* the mandate it looks at are the session's copies, which were active.    *)
Outcomes(m, type, args) ==
  {Outcome("DENY", "POLICY_REJECTED", FALSE)}
    \cup (IF AllowedOperationTypeRule([types |-> Whitelist[m]], [type |-> type]) = "DENY" THEN {}
          ELSE {Outcome("REQUIRE_HUMAN_REVIEW", "REQUIRES_APPROVAL", FALSE)}
                 \cup {Outcome("ALLOW", status, TRUE) : status \in Dispatched(type, args)})

(* Case B: the operation gets a fresh idempotency key.  It is committed,    *)
(* and read again before the answer.                                       *)
Request(s) ==
  LET r == work[s].rpc
      m == work[s].mandate
  IN
  /\ Step(s) = "request"
  /\ \E tool \in Called(r) : \E outcome \in Outcomes(m, tool.operation, r.args) :
       operations' = Append(operations,
                            [type |-> tool.operation, args |-> r.args,
                             decision |-> outcome.decision, status |-> outcome.status,
                             dispatched |-> outcome.dispatched])
  /\ work' = [work EXCEPT ![s].step = "answer", ![s].op = Len(operations')]
  /\ UNCHANGED <<agentStatus, mandateStatus, reviews, answers, sent>>

(* The pipeline raises, and its transaction is rolled back. *)
RequestFails(s) ==
  /\ Step(s) = "request"
  /\ Refuse(s, "failed")
  /\ UNCHANGED <<agentStatus, mandateStatus, operations, reviews, sent>>

(* Mutation: the verdict is told from the status. *)
VerdictOfStatus(o) == IF o.status = "POLICY_REJECTED" THEN "DENY" ELSE "ALLOW"

(* Every decision but DENY is reported as an execution, whatever became of  *)
(* the operation meanwhile.                                                *)
Verdict(o) == IF o.decision = "DENY" THEN "DENY" ELSE "ALLOW"

Report(s) ==
  LET op == work[s].op IN
  /\ Step(s) = "answer"
  /\ Answer(s, Verdict(operations[op]), op, work[s].mandate, {})
  /\ UNCHANGED <<agentStatus, mandateStatus, operations, reviews, sent>>

(* The answer is lost, or the process dies, and the client hears nothing. *)
Lose(s) ==
  /\ Step(s) # "idle"
  /\ work' = [work EXCEPT ![s] = NoWork]
  /\ UNCHANGED <<agentStatus, mandateStatus, operations, reviews, answers, sent>>

------------------------------------------------------------------------------
(* What changes an operation once it is committed, none of which touches    *)
(* its evaluation details.                                                 *)

Operations == 1..Len(operations)

(* A reviewer reads the status without a lock, and commits whatever it has  *)
(* become: reject, find the budget exhausted, or approve and dispatch.     *)
ReviewOpen(i) ==
  /\ operations[i].status = "REQUIRES_APPROVAL"
  /\ reviews' = reviews \cup {i}
  /\ UNCHANGED <<agentStatus, mandateStatus, operations, work, answers, sent>>

ReviewCommit(i) ==
  LET o == operations[i] IN
  /\ i \in reviews
  /\ \/ operations' = [operations EXCEPT ![i].status = "POLICY_REJECTED"]
     \/ \E status \in Dispatched(o.type, o.args) :
          operations' = [operations EXCEPT ![i].status = status, ![i].dispatched = TRUE]
  /\ UNCHANGED <<agentStatus, mandateStatus, reviews, work, answers, sent>>

(* A webhook or the sweep ends an operation that was dispatched, which had   *)
(* been reserved or executing when its status was read.                    *)
Settle(i) ==
  /\ operations[i].dispatched
  /\ \E status \in {"SUCCEEDED", "FAILED"} :
       operations' = [operations EXCEPT ![i].status = status]
  /\ UNCHANGED <<agentStatus, mandateStatus, reviews, work, answers, sent>>

(* verify_payment looks at the signature of the order and the payment it is *)
(* given, not at the status of the operation it is posted to.              *)
VerifyPayment(i) ==
  /\ operations' = [operations EXCEPT ![i].status = "SUCCEEDED"]
  /\ UNCHANGED <<agentStatus, mandateStatus, reviews, work, answers, sent>>

Next ==
  \/ \E a \in Agents : \/ RegisterAgent(a)
                       \/ \E status \in Statuses : UpdateAgentStatus(a, status)
  \/ \E m \in Mandates : \/ CreateMandate(m)
                         \/ \E status \in Statuses : UpdateMandateStatus(m, status)
  \/ \E s \in Sessions : \/ \E r \in Rpcs : Authenticate(s, r)
                         \/ SelectMandate(s) \/ Dispatch(s)
                         \/ Request(s) \/ RequestFails(s) \/ Report(s) \/ Lose(s)
  \/ \E i \in Operations : \/ ReviewOpen(i) \/ ReviewCommit(i)
                            \/ Settle(i) \/ VerifyPayment(i)

Spec == Init /\ [][Next]_vars
------------------------------------------------------------------------------
(* An operation that a client is told was denied has not been dispatched    *)
(* and never will be, though the status of others goes from POLICY_REJECTED *)
(* to EXECUTING, when a reviewer approves what another has just rejected    *)
(* (mcp_gateway.py answers from policy_evaluation_details, operations.py    *)
(* reviews by the status).                                                 *)
DeniedIsNeverDispatched ==
  \A answer \in answers :
    answer.op # 0 /\ answer.code = "DENY" => ~ operations[answer.op].dispatched

(* A financial tool that an agent is shown is one that the policy engine    *)
(* admits under the mandate it was shown for: catalog.py filters by its own *)
(* table of categories, engine.py by the whitelist (catalog.py, "the exact *)
(* subset authorized").                                                    *)
ListedToolsPassThePolicy ==
  \A answer \in answers : \A tool \in answer.tools :
    tool.operation # NoOperation =>
      AllowedOperationTypeRule([types |-> Whitelist[answer.mandate]],
                               [type |-> tool.operation]) = "ALLOW"
==============================================================================
