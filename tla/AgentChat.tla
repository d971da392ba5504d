------------------------------ MODULE AgentChat ------------------------------
(***************************************************************************)
(* The chat with an agent (apps/api/routes/agent_chat.py): a turn asks a    *)
(* model for tool calls (packages/agents/adapter.py), runs them one by one  *)
(* (runner.py), each through the pipeline, which is one step here, and asks *)
(* the model for the reply.  A turn is served in one database session: what *)
(* it has not committed is lost when it fails.  Amounts are in rupees.      *)
(***************************************************************************)
EXTENDS IntentParser, PolicyEngine, FiniteSets

CONSTANTS
  Agents, AgentType,   \* AgentType[a]: agent_type
  Grants,              \* the mandates that owners grant, in order, see Mandate
  Prompts,             \* what users write
  ModelCalls,          \* sequences of tool calls that the hosted model may ask for
  OpenAI,              \* the hosted model is configured
  Orders,              \* the orders that the coordinator is given: <<product, quantity>>
  Sessions,
  MaxTurns             \* bound: how many turns are begun in all

Mandate(agent, types, cap, origin) ==
  [agent |-> agent, types |-> types, cap |-> cap, origin |-> origin, status |-> "ACTIVE"]

NoMandate == Mandate("none", {}, 0, "none")

ASSUME ChatConstants ==
  /\ Grants \in Seq([agent : Agents, types : SUBSET STRING, cap : Nat,
                     origin : {"granted"}, status : {"ACTIVE"}])
  /\ \A p \in Prompts : IsPrompt(p)
  /\ Orders \subseteq Products \X Nat

VARIABLES
  agentStatus,   \* agents.status
  mandates,      \* the mandates stored, in the order of created_at
  operations,    \* the operations stored
  traces,        \* agent_execution_traces of financial calls: the operations' indices
  replies,       \* the replies given
  turns,         \* turns begun so far
  work           \* the sessions

vars == <<agentStatus, mandates, operations, traces, replies, turns, work>>

NoPrompt == Prompt({}, {}, 1, 0)
NoTurn == [step |-> "idle", turn |-> 0, prompt |-> NoPrompt, agent |-> "none",
           agentStatus |-> "none",          \* the session's copy of the agent
           mandate |-> 0,                   \* its mandate, 0 for the reissued one
           copy |-> NoMandate,              \* the session's copy of it
           calls |-> <<>>,                  \* the tool calls still to run
           pending |-> {}]                  \* traces that are not committed

Init ==
  /\ agentStatus = [a \in Agents |-> "ACTIVE"]
  /\ mandates = <<>> /\ operations = <<>>
  /\ traces = {} /\ replies = {}
  /\ turns = 0
  /\ work = [s \in Sessions |-> NoTurn]

Step(s) == work[s].step
------------------------------------------------------------------------------
(* What owners do: POST /mandates, a mandate's status, an agent's status.   *)

Granted == Cardinality({m \in DOMAIN mandates : mandates[m].origin = "granted"})

GrantMandate ==
  /\ Granted < Len(Grants)
  /\ mandates' = Append(mandates, Grants[Granted + 1])
  /\ UNCHANGED <<agentStatus, operations, traces, replies, turns, work>>

RevokeMandate(m) ==
  /\ mandates[m].status = "ACTIVE"
  /\ mandates' = [mandates EXCEPT ![m].status = "REVOKED"]
  /\ UNCHANGED <<agentStatus, operations, traces, replies, turns, work>>

SuspendAgent(a) ==
  /\ agentStatus[a] = "ACTIVE"
  /\ agentStatus' = [agentStatus EXCEPT ![a] = "SUSPENDED"]
  /\ UNCHANGED <<mandates, operations, traces, replies, turns, work>>
------------------------------------------------------------------------------
(* chat_with_agent *)

(* The mandate that an agent without an active one is given. *)
Reissued(a) ==
  CASE AgentType[a] = "SUPPORT" -> Mandate(a, {"CREATE_REFUND"}, 5000, "reissued")
    [] AgentType[a] = "SHOPPING" ->
         Mandate(a, {"CREATE_ORDER", "CREATE_PAYMENT_LINK"}, 25000, "reissued")
    [] OTHER -> Mandate(a, {"CREATE_ORDER"}, 10000, "reissued")

ActiveMandates(a) ==
  {m \in DOMAIN mandates : mandates[m].agent = a /\ mandates[m].status = "ACTIVE"}

(* With a key the agent must be active; without one nothing is asked. *)
Chat(s, a, p, hasKey) ==
  LET own == ActiveMandates(a)
      m == IF own = {} THEN 0 ELSE Max(own)
  IN
  /\ Step(s) = "idle" /\ turns < MaxTurns
  /\ hasKey => agentStatus[a] = "ACTIVE"
  /\ turns' = turns + 1
  /\ work' = [work EXCEPT ![s] =
       [NoTurn EXCEPT !.step = "model", !.turn = turns', !.prompt = p, !.agent = a,
                      !.agentStatus = agentStatus[a], !.mandate = m,
                      !.copy = IF m = 0 THEN Reissued(a) ELSE mandates[m]]]
  /\ UNCHANGED <<agentStatus, mandates, operations, traces, replies>>

(* db.commit: the reissued mandate and the pending traces are stored.       *)
(* Mutation: the traces wait for the end of the turn.                      *)
CommitWithoutTraces(s) ==
  /\ mandates' = IF work[s].mandate = 0 THEN Append(mandates, work[s].copy) ELSE mandates
  /\ traces' = IF Step(s) = "reply" THEN traces \cup work[s].pending ELSE traces

Commit(s) ==
  /\ mandates' = IF work[s].mandate = 0 THEN Append(mandates, work[s].copy) ELSE mandates
  /\ traces' = traces \cup work[s].pending

(* The mandate of the session, once it is committed. *)
Committed(s) == IF work[s].mandate = 0 THEN Len(mandates') ELSE work[s].mandate
------------------------------------------------------------------------------
(* execute_turn *)

(* OpenAILLMAdapter and MockLLMAdapter: the hosted model asks for anything; *)
(* when it is out of quota or cannot be reached, the parser answers.  The   *)
(* prompt is not needed again.                                             *)
FirstResponse(p) == {ParsedCalls(p)} \cup IF OpenAI THEN ModelCalls ELSE {}

FirstTurn(s) ==
  /\ Step(s) = "model"
  /\ \E calls \in FirstResponse(work[s].prompt) :
       work' = [work EXCEPT ![s].step = IF calls = <<>> THEN "reply" ELSE "tools",
                            ![s].calls = calls, ![s].prompt = NoPrompt]
  /\ UNCHANGED <<agentStatus, mandates, operations, traces, replies, turns>>

OperationType ==
  [create_purchase_order |-> "CREATE_ORDER",
   create_payment_link_for_customer |-> "CREATE_PAYMENT_LINK",
   issue_customer_refund |-> "CREATE_REFUND"]

(* A refund without an amount is one of Rs. 500. *)
AmountOf(call) ==
  CASE call.tool = "create_purchase_order" ->
         Price[call.product] * Max({1, call.quantity})
    [] call.tool = "create_payment_link_for_customer" -> Max({0, call.amount})
    [] call.tool = "issue_customer_refund" -> IF call.amount = Omitted THEN 500 ELSE call.amount

Outcome(decision, status) == [decision |-> decision, status |-> status]

(* request_financial_operation on the session's copies; the rules and the   *)
(* budget that are not modelled here may deny anything.                    *)
Outcomes(status, mandate, type, amount) ==
  {Outcome("DENY", "POLICY_REJECTED")}
    \cup IF "DENY" \in {AgentStatusRule(status),
                        AllowedOperationTypeRule(mandate, [type |-> type]),
                        PerTransactionLimitRule(mandate, [amount |-> amount])}
         THEN {}
         ELSE {Outcome("REQUIRE_HUMAN_REVIEW", "REQUIRES_APPROVAL"), Outcome("ALLOW", "FAILED"),
               Outcome("ALLOW", IF type = "CREATE_REFUND" THEN "SUCCEEDED" ELSE "EXECUTING")}

Operation(turn, mandate, outcome) ==
  [turn |-> turn, mandate |-> mandate, decision |-> outcome.decision, status |-> outcome.status,
   riskPassed |-> TRUE]

Executed == {"EXECUTING", "SUCCEEDED"}

Known(call) == call.tool # "create_purchase_order" \/ call.product \in Products

(* A tool that stores nothing: a lookup, the catalog, a product or a tool   *)
(* that does not exist.                                                    *)
CallLocalTool(s) ==
  LET call == Head(work[s].calls) IN
  /\ Step(s) = "tools"
  /\ call.tool \notin Financial \/ ~Known(call)
  /\ work' = [work EXCEPT ![s].calls = Tail(@),
                          ![s].step = IF Len(work[s].calls) = 1 THEN "reply" ELSE "tools"]
  /\ UNCHANGED <<agentStatus, mandates, operations, traces, replies, turns>>

(* A financial tool: the pipeline commits, and the trace of the call waits  *)
(* for the next commit.                                                    *)
CallTool(s) ==
  LET w == work[s]
      call == Head(w.calls)
  IN
  /\ Step(s) = "tools"
  /\ call.tool \in Financial /\ Known(call)
  /\ AmountOf(call) > 0
  /\ Commit(s)
  /\ \E outcome \in Outcomes(w.agentStatus, w.copy, OperationType[call.tool], AmountOf(call)) :
       /\ operations' = Append(operations,
            Operation(w.turn, Committed(s), outcome))
       /\ work' = [work EXCEPT
            ![s] = [w EXCEPT !.calls = Tail(@), !.mandate = Committed(s),
                             !.pending = {Len(operations')},
                             !.step = IF Len(w.calls) = 1 THEN "reply" ELSE "tools"]]
  /\ UNCHANGED <<agentStatus, replies, turns>>

(* The reply, for which the model is asked again when it called tools.  Its *)
(* wording is not modelled.                                                *)
Answer(s) ==
  /\ Step(s) = "reply"
  /\ Commit(s)
  /\ replies' = replies \cup {[turn |-> work[s].turn, mandate |-> Committed(s)]}
  /\ work' = [work EXCEPT ![s] = NoTurn]
  /\ UNCHANGED <<agentStatus, operations, turns>>

(* Mutation: the session is committed whatever happens. *)
FailAndCommit(s) ==
  /\ Step(s) # "idle"
  /\ Commit(s)
  /\ work' = [work EXCEPT ![s] = NoTurn]
  /\ UNCHANGED <<agentStatus, operations, replies, turns>>

(* The turn ends in an error: the hosted model refuses, a call has no       *)
(* positive amount, the pipeline raises, or the process dies.  The session  *)
(* is rolled back.                                                         *)
Fail(s) ==
  /\ Step(s) # "idle"
  /\ work' = [work EXCEPT ![s] = NoTurn]
  /\ UNCHANGED <<agentStatus, mandates, operations, traces, replies, turns>>
------------------------------------------------------------------------------
(* Mutation: the risk agent refuses what reaches the cap. *)
RiskPassedBelow(amount, mandate) == amount < mandate.cap

RiskPassed(amount, mandate) == amount <= mandate.cap

(* execute_procurement_flow (delegation.py): the risk agent's verdict is    *)
(* stored with the operation and decides nothing.                          *)
Collaborate(m, product, quantity) ==
  LET amount == Price[product] * quantity IN
  /\ turns < MaxTurns /\ turns' = turns + 1
  /\ \E outcome \in Outcomes(agentStatus[mandates[m].agent], mandates[m], "CREATE_ORDER", amount) :
       /\ mandates[m].status # "ACTIVE" => outcome.decision = "DENY"
       /\ operations' = Append(operations,
            [Operation(0, m, outcome) EXCEPT !.riskPassed = RiskPassed(amount, mandates[m])])
  /\ UNCHANGED <<agentStatus, mandates, traces, replies, work>>

Next ==
  \/ GrantMandate
  \/ \E m \in DOMAIN mandates : \/ RevokeMandate(m)
                                \/ \E order \in Orders : Collaborate(m, order[1], order[2])
  \/ \E a \in Agents : SuspendAgent(a)
  \/ \E s \in Sessions :
       \/ \E a \in Agents, p \in Prompts, hasKey \in BOOLEAN : Chat(s, a, p, hasKey)
       \/ FirstTurn(s) \/ CallLocalTool(s) \/ CallTool(s) \/ Answer(s) \/ Fail(s)

Spec == Init /\ [][Next]_vars
------------------------------------------------------------------------------
OfTurn(t) == {i \in DOMAIN operations : operations[i].turn = t}

(* A turn may fail after any of its calls, but the commit of a call carries  *)
(* the traces of those before it (runner.py, "Persist Execution Trace"):    *)
(* at most its last operation lacks its trace.                             *)
OnlyTheLastIsUntraced ==
  \A t \in 1..turns : \A i \in OfTurn(t) \ traces : \A j \in OfTurn(t) : j <= i

(* A mandate that the chat reissued is there only with an operation or a    *)
(* reply: a turn that fails leaves no authority behind (agent_chat.py       *)
(* flushes the mandate and leaves the commit to runner.py).                *)
ReissuedMandatesServe ==
  \A m \in DOMAIN mandates :
    mandates[m].origin = "reissued" =>
      \/ \E i \in DOMAIN operations : operations[i].mandate = m
      \/ \E reply \in replies : reply.mandate = m

(* A question that the parser is made to answer: about the ledger, the      *)
(* catalog, refunds, or a product by a word that its answers know.         *)
Question(p) == \/ p.cues \cap {"inspect", "browse", "refund_question"} # {}
               \/ "ask" \in p.cues /\ p.words \cap AskWords # {}

(* Such a question to the mock model leads to no call that moves funds,     *)
(* whatever purchase or refund the prompt mentions besides.  One about a    *)
(* product by a word that only the purchases know, as "ultrasharp", may     *)
(* (adapter.py, whose order of branches decides; of the first it says "Must *)
(* NOT buy or mutate funds").                                              *)
QuestionsMutateNothing ==
  \A s \in Sessions :
    Step(s) = "model" /\ Question(work[s].prompt) =>
      \A i \in DOMAIN ParsedCalls(work[s].prompt) :
        ParsedCalls(work[s].prompt)[i].tool \notin Financial

(* The coordinator ignores the risk agent, yet no order that it holds to be *)
(* risky is executed: the policy's limit per operation refuses it           *)
(* (delegation.py, "Risk Agent assesses velocity and anomaly score").       *)
RiskyOrdersAreNotExecuted ==
  \A i \in DOMAIN operations : operations[i].status \in Executed => operations[i].riskPassed
==============================================================================
