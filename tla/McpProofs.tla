------------------------------ MODULE McpProofs ------------------------------
(***************************************************************************)
(* For any agents, mandates and calls: an operation that a client of the    *)
(* MCP gateway is told was denied is never dispatched, whatever reviewers,  *)
(* webhooks and verified payments do to the operations, and the tools that  *)
(* are listed are those that the policy admits.                            *)
(***************************************************************************)
EXTENDS McpGateway, TLAPS

Job == [step : {"idle", "mandate", "dispatch", "request", "answer"}, rpc : Rpcs \cup {NoRpc},
        agent : Agents \cup {NoAgent}, mandate : Nat, op : Nat]

OperationStatus == {"POLICY_REJECTED", "REQUIRES_APPROVAL", "EXECUTING", "SUCCEEDED", "FAILED",
                    "RESERVED"}

Operation == [type : {t.operation : t \in Registry}, args : {r.args : r \in Rpcs \cup {NoRpc}},
              decision : PolicyDecision, status : OperationStatus, dispatched : BOOLEAN]

TypeInv ==
  /\ work \in [Sessions -> Job]
  /\ operations \in Seq(Operation)
------------------------------------------------------------------------------
LEMMA TypeInit == Init => TypeInv
BY DEF Init, TypeInv, Job, NoWork

LEMMA AuthenticateTyped ==
  ASSUME TypeInv, NEW s \in Sessions, NEW r \in Rpcs, Authenticate(s, r)
  PROVE  TypeInv'
<1>1. CASE Refuse(s, "unauthenticated")
  BY <1>1 DEF Authenticate, TypeInv, Refuse, Answer, Job, NoWork
<1>2. ASSUME NEW a \in Authenticated(r.key, r.id),
             work' = [work EXCEPT ![s] = [NoWork EXCEPT !.step = "mandate", !.rpc = r,
                                                        !.agent = a]]
      PROVE  TypeInv'
  <2> DEFINE w == [NoWork EXCEPT !.step = "mandate", !.rpc = r, !.agent = a]
  <2>1. w \in Job
    BY DEF NoWork, Job, Authenticated
  <2> HIDE DEF w
  <2> QED BY <1>2, <2>1 DEF Authenticate, TypeInv, w
<1> QED BY <1>1, <1>2 DEF Authenticate

LEMMA SelectTyped ==
  ASSUME TypeInv, NEW s \in Sessions, SelectMandate(s)
  PROVE  TypeInv'
<1>1. CASE work' = [work EXCEPT ![s] = NoWork]
  BY <1>1 DEF SelectMandate, TypeInv, Job, NoWork
<1>2. ASSUME NEW m \in Mandates, work' = [work EXCEPT ![s].step = "dispatch", ![s].mandate = m]
      PROVE  TypeInv'
  <2>1. m \in Nat
    BY McpConstants DEF Mandates
  <2> QED BY <1>2, <2>1 DEF SelectMandate, TypeInv, Job
<1> QED BY <1>1, <1>2 DEF SelectMandate, ActiveMandates, Refuse, Answer

LEMMA DispatchTyped ==
  ASSUME TypeInv, NEW s \in Sessions, Dispatch(s)
  PROVE  TypeInv'
<1>1. CASE work' = [work EXCEPT ![s] = NoWork]
  BY <1>1 DEF Dispatch, TypeInv, Job, NoWork
<1>2. CASE work' = [work EXCEPT ![s].step = "request"]
  BY <1>2 DEF Dispatch, TypeInv, Job
<1> QED BY <1>1, <1>2 DEF Dispatch, Refuse, Answer

LEMMA DispatchedStatuses ==
  ASSUME NEW type, NEW args
  PROVE  Dispatched(type, args) \subseteq OperationStatus
<1>1. CASE type \in {"CREATE_ORDER", "CREATE_PAYMENT_LINK"}
  BY <1>1 DEF Dispatched, OperationStatus
<1>2. CASE type = "CREATE_REFUND"
  BY <1>2 DEF Dispatched, OperationStatus
<1>3. CASE type \notin {"CREATE_ORDER", "CREATE_PAYMENT_LINK", "CREATE_REFUND"}
  BY <1>3 DEF Dispatched, OperationStatus
<1> QED BY <1>1, <1>2, <1>3

(* What the pipeline stores is well typed, and what it denies is neither    *)
(* dispatched nor left to a reviewer.                                      *)
LEMMA OutcomesFit ==
  ASSUME NEW m, NEW type, NEW args, NEW outcome \in Outcomes(m, type, args)
  PROVE  /\ outcome.decision \in PolicyDecision /\ outcome.status \in OperationStatus
         /\ outcome.dispatched \in BOOLEAN
         /\ outcome.decision = "DENY" =>
              ~outcome.dispatched /\ outcome.status # "REQUIRES_APPROVAL"
<1>1. CASE outcome = Outcome("DENY", "POLICY_REJECTED", FALSE)
  BY <1>1 DEF Outcome, PolicyDecision, OperationStatus
<1>2. CASE outcome = Outcome("REQUIRE_HUMAN_REVIEW", "REQUIRES_APPROVAL", FALSE)
  BY <1>2 DEF Outcome, PolicyDecision, OperationStatus
<1>3. CASE \E status \in Dispatched(type, args) : outcome = Outcome("ALLOW", status, TRUE)
  <2>1. PICK status \in OperationStatus : outcome = Outcome("ALLOW", status, TRUE)
    BY <1>3, DispatchedStatuses
  <2> QED BY <2>1 DEF Outcome, PolicyDecision
<1> QED BY <1>1, <1>2, <1>3 DEF Outcomes

(* The operation that a request appends. *)
LEMMA RequestStores ==
  ASSUME TypeInv, NEW s \in Sessions, Request(s)
  PROVE  \E o \in Operation :
           /\ operations' = Append(operations, o)
           /\ o.decision = "DENY" => ~o.dispatched /\ o.status # "REQUIRES_APPROVAL"
<1>1. PICK tool \in Called(work[s].rpc) :
        \E outcome \in Outcomes(work[s].mandate, tool.operation, work[s].rpc.args) :
          operations' = Append(operations,
            [type |-> tool.operation, args |-> work[s].rpc.args,
             decision |-> outcome.decision, status |-> outcome.status,
             dispatched |-> outcome.dispatched])
  BY DEF Request
<1>2. PICK outcome \in Outcomes(work[s].mandate, tool.operation, work[s].rpc.args) :
        operations' = Append(operations,
          [type |-> tool.operation, args |-> work[s].rpc.args,
           decision |-> outcome.decision, status |-> outcome.status,
           dispatched |-> outcome.dispatched])
  BY <1>1
<1> DEFINE o == [type |-> tool.operation, args |-> work[s].rpc.args,
                 decision |-> outcome.decision, status |-> outcome.status,
                 dispatched |-> outcome.dispatched]
<1>3. work[s].rpc \in Rpcs \cup {NoRpc} /\ tool.operation \in {t.operation : t \in Registry}
  BY DEF TypeInv, Job, Called
<1>4. /\ outcome.decision \in PolicyDecision /\ outcome.status \in OperationStatus
      /\ outcome.dispatched \in BOOLEAN
      /\ outcome.decision = "DENY" =>
           ~outcome.dispatched /\ outcome.status # "REQUIRES_APPROVAL"
  BY OutcomesFit
<1>5. /\ o \in Operation
      /\ o.decision = "DENY" => ~o.dispatched /\ o.status # "REQUIRES_APPROVAL"
  BY <1>3, <1>4 DEF Operation
<1> HIDE DEF o
<1> QED BY <1>2, <1>5 DEF o

LEMMA RequestTyped ==
  ASSUME TypeInv, NEW s \in Sessions, Request(s)
  PROVE  TypeInv'
<1>1. PICK o \in Operation : operations' = Append(operations, o)
  BY RequestStores
<1>2. operations' \in Seq(Operation) /\ Len(operations') \in Nat
  BY <1>1 DEF TypeInv
<1>3. work' = [work EXCEPT ![s].step = "answer", ![s].op = Len(operations')]
  BY DEF Request
<1> QED BY <1>2, <1>3 DEF TypeInv, Job

(* What happens to an operation after its request: its decision stands.     *)
LEMMA LaterSteps ==
  ASSUME TypeInv, NEW i \in Operations,
         ReviewOpen(i) \/ ReviewCommit(i) \/ Settle(i) \/ VerifyPayment(i)
  PROVE  /\ operations' \in Seq(Operation) /\ Len(operations') = Len(operations)
         /\ \A j \in Operations : operations'[j].decision = operations[j].decision
         /\ \A j \in Operations \ {i} : operations'[j] = operations[j]
         /\ UNCHANGED <<work, answers>>
<1>1. CASE UNCHANGED operations
  BY <1>1 DEF TypeInv, ReviewOpen, ReviewCommit, Settle, VerifyPayment
<1>2. ASSUME NEW status \in OperationStatus, NEW dispatched \in BOOLEAN,
             operations' = [operations EXCEPT ![i].status = status, ![i].dispatched = dispatched],
             UNCHANGED <<work, answers>>
      PROVE  /\ operations' \in Seq(Operation) /\ Len(operations') = Len(operations)
             /\ \A j \in Operations : operations'[j].decision = operations[j].decision
             /\ \A j \in Operations \ {i} : operations'[j] = operations[j]
             /\ UNCHANGED <<work, answers>>
  <2> DEFINE o == [operations[i] EXCEPT !.status = status, !.dispatched = dispatched]
  <2>1. operations[i] \in Operation /\ i \in 1..Len(operations)
    BY DEF TypeInv, Operations
  <2>2. o \in Operation /\ o.decision = operations[i].decision
    BY <2>1 DEF Operation
  <2>3. operations' = [operations EXCEPT ![i] = o]
    BY <1>2
  <2> HIDE DEF o
  <2>4. operations' \in Seq(Operation) /\ Len(operations') = Len(operations)
    BY <2>1, <2>2, <2>3 DEF TypeInv
  <2>5. operations'[i] = o /\ \A j \in Operations \ {i} : operations'[j] = operations[j]
    BY <2>1, <2>3 DEF TypeInv, Operations
  <2> QED BY <1>2, <2>2, <2>4, <2>5
<1>3. ASSUME NEW status \in OperationStatus,
             operations' = [operations EXCEPT ![i].status = status],
             UNCHANGED <<work, answers>>
      PROVE  /\ operations' \in Seq(Operation) /\ Len(operations') = Len(operations)
             /\ \A j \in Operations : operations'[j].decision = operations[j].decision
             /\ \A j \in Operations \ {i} : operations'[j] = operations[j]
             /\ UNCHANGED <<work, answers>>
  <2> DEFINE o == [operations[i] EXCEPT !.status = status]
  <2>1. operations[i] \in Operation /\ i \in 1..Len(operations)
    BY DEF TypeInv, Operations
  <2>2. o \in Operation /\ o.decision = operations[i].decision
    BY <2>1 DEF Operation
  <2>3. operations' = [operations EXCEPT ![i] = o]
    BY <1>3
  <2> HIDE DEF o
  <2>4. operations' \in Seq(Operation) /\ Len(operations') = Len(operations)
    BY <2>1, <2>2, <2>3 DEF TypeInv
  <2>5. operations'[i] = o /\ \A j \in Operations \ {i} : operations'[j] = operations[j]
    BY <2>1, <2>3 DEF TypeInv, Operations
  <2> QED BY <1>3, <2>2, <2>4, <2>5
<1>4. CASE ReviewOpen(i)
  BY <1>1, <1>4 DEF ReviewOpen
<1>5. CASE ReviewCommit(i)
  <2>1. UNCHANGED <<work, answers>>
    BY <1>5 DEF ReviewCommit
  <2>2. CASE operations' = [operations EXCEPT ![i].status = "POLICY_REJECTED"]
    BY <1>3, <2>1, <2>2 DEF OperationStatus
  <2>3. ASSUME NEW status \in Dispatched(operations[i].type, operations[i].args),
               operations' = [operations EXCEPT ![i].status = status, ![i].dispatched = TRUE]
        PROVE  operations' = [operations EXCEPT ![i].status = status, ![i].dispatched = TRUE]
                 /\ status \in OperationStatus
    BY <2>3, DispatchedStatuses
  <2> QED BY <1>2, <1>5, <2>1, <2>2, <2>3 DEF ReviewCommit
<1>6. CASE Settle(i)
  BY <1>3, <1>6 DEF Settle, OperationStatus
<1>7. CASE VerifyPayment(i)
  BY <1>3, <1>7 DEF VerifyPayment, OperationStatus
<1> QED BY <1>4, <1>5, <1>6, <1>7

LEMMA TypeStep ==
  ASSUME TypeInv, [Next]_vars
  PROVE  TypeInv'
<1>1. ASSUME NEW s \in Sessions, RequestFails(s) \/ Report(s) \/ Lose(s)
      PROVE  TypeInv'
  <2>1. work' = [work EXCEPT ![s] = NoWork] /\ UNCHANGED operations
    BY <1>1 DEF RequestFails, Report, Lose, Refuse, Answer
  <2> QED BY <2>1 DEF TypeInv, Job, NoWork
<1>2. CASE UNCHANGED <<work, operations>>
  BY <1>2 DEF TypeInv
<1>3. ASSUME NEW a \in Agents, NEW status \in Statuses,
             RegisterAgent(a) \/ UpdateAgentStatus(a, status)
      PROVE  TypeInv'
  BY <1>2, <1>3 DEF RegisterAgent, UpdateAgentStatus
<1>4. ASSUME NEW m \in Mandates, NEW status \in Statuses,
             CreateMandate(m) \/ UpdateMandateStatus(m, status)
      PROVE  TypeInv'
  BY <1>2, <1>4 DEF CreateMandate, UpdateMandateStatus
<1>5. ASSUME NEW i \in Operations,
             ReviewOpen(i) \/ ReviewCommit(i) \/ Settle(i) \/ VerifyPayment(i)
      PROVE  TypeInv'
  BY <1>5, LaterSteps DEF TypeInv
<1>6. CASE UNCHANGED vars
  BY <1>2, <1>6 DEF vars
<1> QED BY <1>1, <1>3, <1>4, <1>5, <1>6, AuthenticateTyped, SelectTyped, DispatchTyped,
           RequestTyped
        DEF Next, Statuses
------------------------------------------------------------------------------
(* What the answers tell.                                                  *)

(* A denied operation is out of the reach of reviewers. *)
Barred(i) ==
  operations[i].decision = "DENY" =>
    ~operations[i].dispatched /\ operations[i].status # "REQUIRES_APPROVAL" /\ i \notin reviews

(* The answer that says denied tells of an operation that is. *)
Truthful(answer) ==
  /\ answer.op \in 0..Len(operations)
  /\ answer.op # 0 /\ answer.code = "DENY" => operations[answer.op].decision = "DENY"

(* Every tool an answer lists is one the policy engine admits. *)
Admitted(answer) ==
  \A tool \in answer.tools : tool.operation # NoOperation =>
    AllowedOperationTypeRule([types |-> Whitelist[answer.mandate]],
                             [type |-> tool.operation]) = "ALLOW"

(* The inductive invariant.  A decision never changes, and only what a      *)
(* reviewer found waiting can be dispatched late: a denied operation never  *)
(* waits, and so no reviewer ever holds one.                               *)
AnswerInv ==
  /\ reviews \subseteq Operations
  /\ \A i \in Operations : Barred(i)
  /\ \A s \in Sessions : Step(s) = "answer" => work[s].op \in Operations
  /\ \A answer \in answers : Truthful(answer) /\ Admitted(answer)

(* It says what the two properties say.                                     *)
LEMMA AnswersTell ==
  ASSUME TypeInv, AnswerInv
  PROVE  DeniedIsNeverDispatched /\ ListedToolsPassThePolicy
<1>1. Len(operations) \in Nat
  BY DEF TypeInv
<1>2. ASSUME NEW answer \in answers, answer.op # 0, answer.code = "DENY"
      PROVE  ~operations[answer.op].dispatched
  <2>1. Truthful(answer)
    BY DEF AnswerInv
  <2>2. answer.op \in Operations
    BY <1>1, <1>2, <2>1 DEF Truthful, Operations
  <2>3. Barred(answer.op)
    BY <2>2 DEF AnswerInv
  <2> QED BY <1>2, <2>1, <2>3 DEF Truthful, Barred
<1>3. ListedToolsPassThePolicy
  BY DEF AnswerInv, Admitted, ListedToolsPassThePolicy
<1> QED BY <1>2, <1>3 DEF DeniedIsNeverDispatched

(* The filter of the catalog shows no tool that the whitelist bars.         *)
LEMMA FilteredIsAdmitted ==
  ASSUME NEW type, NEW allowed, NEW tool \in Filtered(type, allowed),
         tool.operation # NoOperation
  PROVE  AllowedOperationTypeRule([types |-> allowed], [type |-> tool.operation]) = "ALLOW"
BY DEF Filtered, AllowedOperationTypeRule, DenyIf

(* No answer, no operation.                                                 *)
LEMMA AnswerInit == Init => AnswerInv
BY DEF Init, AnswerInv, NoWork, Step, Operations

(* A session moves and stores nothing, with or without an answer.           *)
LEMMA AnswerMoves ==
  ASSUME TypeInv, AnswerInv, UNCHANGED <<operations, reviews>>,
         \A s \in Sessions : Step(s)' = "answer" => work'[s] = work[s],
         \A answer \in answers' : answer \in answers \/ (Truthful(answer) /\ Admitted(answer))
  PROVE  AnswerInv'
<1>1. \A answer \in answers' : Truthful(answer) /\ Admitted(answer)
  BY DEF AnswerInv
<1>2. \A answer : Truthful(answer)' <=> Truthful(answer)
  BY DEF Truthful
<1>3. \A answer : Admitted(answer)' <=> Admitted(answer)
  BY DEF Admitted
<1>4. (\A i \in Operations : Barred(i))' /\ (reviews \subseteq Operations)'
  BY DEF AnswerInv, Barred, Operations
<1>5. \A s \in Sessions : Step(s)' = "answer" => work'[s].op \in Operations'
  BY DEF AnswerInv, Step, Operations
<1> QED BY <1>1, <1>2, <1>3, <1>4, <1>5 DEF AnswerInv

(* A session ends, having told of its operation or listed its tools.        *)
LEMMA AnswerGiven ==
  ASSUME TypeInv, AnswerInv, UNCHANGED <<operations, reviews>>, NEW s \in Sessions,
         NEW code, NEW op \in 0..Len(operations), NEW mandate, NEW tools,
         Answer(s, code, op, mandate, tools),
         op # 0 /\ code = "DENY" => operations[op].decision = "DENY",
         \A tool \in tools : tool.operation # NoOperation =>
           AllowedOperationTypeRule([types |-> Whitelist[mandate]],
                                    [type |-> tool.operation]) = "ALLOW"
  PROVE  AnswerInv'
<1> DEFINE given == [code |-> code, op |-> op, mandate |-> mandate, tools |-> tools]
<1>1. answers' = answers \cup {given} /\ work' = [work EXCEPT ![s] = NoWork]
  BY DEF Answer
<1>2. Truthful(given) /\ Admitted(given)
  BY DEF Truthful, Admitted
<1>3. \A t \in Sessions : Step(t)' = "answer" => work'[t] = work[t]
  BY <1>1 DEF TypeInv, NoWork, Step
<1> HIDE DEF given
<1> QED BY <1>1, <1>2, <1>3, AnswerMoves

(* A refusal tells of no operation. *)
LEMMA RefusalGiven ==
  ASSUME TypeInv, AnswerInv, UNCHANGED <<operations, reviews>>, NEW s \in Sessions, NEW code,
         Refuse(s, code)
  PROVE  AnswerInv'
<1> DEFINE tools == {}
<1>1. Answer(s, code, 0, 0, tools) /\ 0 \in 0..Len(operations)
  BY DEF Refuse, TypeInv
<1>2. \A tool \in tools : FALSE
  OBVIOUS
<1> HIDE DEF tools
<1> QED BY <1>1, <1>2, AnswerGiven

(* A session goes on without an answer.                                     *)
LEMMA AnswerPending ==
  ASSUME TypeInv, AnswerInv, NEW s \in Sessions, NEW w, w.step # "answer",
         work' = [work EXCEPT ![s] = w], UNCHANGED <<operations, reviews, answers>>
  PROVE  AnswerInv'
<1>1. \A t \in Sessions : Step(t)' = "answer" => work'[t] = work[t]
  BY DEF TypeInv, Step
<1> QED BY <1>1, AnswerMoves

(* The tools listed are those of the mandate that serves the call.          *)
LEMMA SelectAnswers ==
  ASSUME TypeInv, AnswerInv, NEW s \in Sessions, SelectMandate(s)
  PROVE  AnswerInv'
<1>1. UNCHANGED <<operations, reviews>> /\ 0 \in 0..Len(operations)
  BY DEF SelectMandate, TypeInv
<1>2. CASE \E code : Refuse(s, code)
  BY <1>1, <1>2, RefusalGiven
<1>3. CASE \E m \in Mandates :
             Answer(s, "tools", 0, m, Filtered(AgentType[work[s].agent], Whitelist[m]))
  <2>1. PICK m \in Mandates :
          Answer(s, "tools", 0, m, Filtered(AgentType[work[s].agent], Whitelist[m]))
    BY <1>3
  <2>2. \A tool \in Filtered(AgentType[work[s].agent], Whitelist[m]) :
          tool.operation # NoOperation =>
            AllowedOperationTypeRule([types |-> Whitelist[m]], [type |-> tool.operation])
              = "ALLOW"
    BY FilteredIsAdmitted
  <2>3. ~ (0 # 0)
    OBVIOUS
  <2> QED BY <1>1, <2>1, <2>2, <2>3, AnswerGiven
<1>4. ASSUME NEW m, work' = [work EXCEPT ![s].step = "dispatch", ![s].mandate = m],
             UNCHANGED answers
      PROVE  AnswerInv'
  <2> DEFINE w == [work[s] EXCEPT !.step = "dispatch", !.mandate = m]
  <2>1. w.step # "answer" /\ work' = [work EXCEPT ![s] = w]
    BY <1>4 DEF TypeInv, Job
  <2> HIDE DEF w
  <2> QED BY <1>1, <1>4, <2>1, AnswerPending
<1> QED BY <1>2, <1>3, <1>4 DEF SelectMandate, ActiveMandates

(* A dispatch refuses, or goes on to the request.                           *)
LEMMA DispatchAnswers ==
  ASSUME TypeInv, AnswerInv, NEW s \in Sessions, Dispatch(s)
  PROVE  AnswerInv'
<1>1. UNCHANGED <<operations, reviews>>
  BY DEF Dispatch
<1>2. CASE \E code : Refuse(s, code)
  BY <1>1, <1>2, RefusalGiven
<1>3. CASE work' = [work EXCEPT ![s].step = "request"] /\ UNCHANGED answers
  <2> DEFINE w == [work[s] EXCEPT !.step = "request"]
  <2>1. w.step # "answer" /\ work' = [work EXCEPT ![s] = w]
    BY <1>3 DEF TypeInv, Job
  <2> HIDE DEF w
  <2> QED BY <1>1, <1>3, <2>1, AnswerPending
<1> QED BY <1>2, <1>3 DEF Dispatch

(* An operation that is stored leaves the others, and what was told of them *)
(* remains true.                                                           *)
LEMMA RequestAnswers ==
  ASSUME TypeInv, AnswerInv, NEW s \in Sessions, Request(s)
  PROVE  AnswerInv'
<1> DEFINE n == Len(operations) + 1
<1>1. operations \in Seq(Operation) /\ Len(operations) \in Nat
  BY DEF TypeInv
<1>2. PICK o \in Operation :
        /\ operations' = Append(operations, o)
        /\ o.decision = "DENY" => ~o.dispatched /\ o.status # "REQUIRES_APPROVAL"
  BY RequestStores
<1>3. /\ Len(operations') = n /\ operations'[n] = o
      /\ \A i \in Operations : operations'[i] = operations[i]
  BY <1>1, <1>2 DEF Operations
<1>4. /\ Operations' = Operations \cup {n} /\ n \notin Operations
      /\ reviews' = reviews /\ n \notin reviews
  BY <1>1, <1>3 DEF Operations, Request, AnswerInv
<1>5. ASSUME NEW i \in Operations' PROVE Barred(i)'
  <2>1. CASE i = n
    BY <1>2, <1>3, <1>4, <2>1 DEF Barred
  <2>2. CASE i \in Operations
    <3>1. Barred(i)
      BY <2>2 DEF AnswerInv
    <3> QED BY <1>3, <1>4, <2>2, <3>1 DEF Barred
  <2> QED BY <1>4, <2>1, <2>2
<1>6. work' = [work EXCEPT ![s].step = "answer", ![s].op = Len(operations')] /\ answers' = answers
  BY DEF Request
<1>7. ASSUME NEW t \in Sessions, Step(t)' = "answer" PROVE work'[t].op \in Operations'
  <2>1. CASE t = s
    BY <1>3, <1>4, <1>6, <2>1 DEF TypeInv, Job
  <2>2. CASE t # s
    <3>1. work'[t] = work[t]
      BY <1>6, <2>2 DEF TypeInv
    <3>2. work[t].op \in Operations
      BY <1>7, <3>1 DEF AnswerInv, Step
    <3> QED BY <1>4, <3>1, <3>2
  <2> QED BY <2>1, <2>2
<1>8. ASSUME NEW answer \in answers PROVE Truthful(answer)' /\ Admitted(answer)'
  <2>1. Truthful(answer) /\ Admitted(answer)
    BY DEF AnswerInv
  <2>2. answer.op \in 0..Len(operations')
    BY <1>1, <1>3, <2>1 DEF Truthful
  <2>3. answer.op # 0 => operations'[answer.op] = operations[answer.op]
    BY <1>1, <1>3, <2>1 DEF Truthful, Operations
  <2> QED BY <2>1, <2>2, <2>3 DEF Truthful, Admitted
<1>9. (reviews \subseteq Operations)'
  BY <1>4 DEF AnswerInv
<1> QED BY <1>5, <1>6, <1>7, <1>8, <1>9 DEF AnswerInv

(* The answer repeats the verdict of the operation.                         *)
LEMMA ReportAnswers ==
  ASSUME TypeInv, AnswerInv, NEW s \in Sessions, Report(s)
  PROVE  AnswerInv'
<1> DEFINE op == work[s].op
           code == Verdict(operations[op])
           tools == {}
<1>1. Answer(s, code, op, work[s].mandate, tools) /\ UNCHANGED <<operations, reviews>>
  BY DEF Report
<1>2. op \in 0..Len(operations)
  BY DEF Report, AnswerInv, TypeInv, Operations
<1>3. code = "DENY" => operations[op].decision = "DENY"
  BY DEF Verdict
<1>4. \A tool \in tools : FALSE
  OBVIOUS
<1> HIDE DEF op, code, tools
<1> QED BY <1>1, <1>2, <1>3, <1>4, AnswerGiven

(* A reviewer who reads an operation finds one that was not denied.         *)
LEMMA ReviewOpenAnswers ==
  ASSUME TypeInv, AnswerInv, NEW i \in Operations, ReviewOpen(i)
  PROVE  AnswerInv'
<1>1. Barred(i) /\ operations[i].status = "REQUIRES_APPROVAL"
  BY DEF AnswerInv, ReviewOpen
<1>2. operations[i].decision # "DENY"
  BY <1>1 DEF Barred
<1>3. reviews' = reviews \cup {i} /\ UNCHANGED <<operations, work, answers>>
  BY DEF ReviewOpen
<1>4. \A j \in Operations' : Barred(j)'
  BY <1>2, <1>3 DEF AnswerInv, Barred, Operations
<1>5. (reviews \subseteq Operations)'
  BY <1>3 DEF AnswerInv, Operations
<1>6. \A s \in Sessions : Step(s)' = "answer" => work'[s].op \in Operations'
  BY <1>3 DEF AnswerInv, Step, Operations
<1>7. \A answer \in answers' : Truthful(answer)' /\ Admitted(answer)'
  BY <1>3 DEF AnswerInv, Truthful, Admitted
<1> QED BY <1>4, <1>5, <1>6, <1>7 DEF AnswerInv

(* An operation that changes later was not denied, or changes neither to be *)
(* dispatched nor to be reviewed.                                          *)
LEMMA LaterAnswers ==
  ASSUME TypeInv, AnswerInv, NEW i \in Operations,
         ReviewCommit(i) \/ Settle(i) \/ VerifyPayment(i)
  PROVE  AnswerInv'
<1>1. /\ operations' \in Seq(Operation) /\ Len(operations') = Len(operations)
      /\ \A j \in Operations : operations'[j].decision = operations[j].decision
      /\ \A j \in Operations \ {i} : operations'[j] = operations[j]
      /\ UNCHANGED <<work, answers>>
  BY LaterSteps
<1>2. reviews' = reviews /\ Operations' = Operations
  BY <1>1 DEF ReviewCommit, Settle, VerifyPayment, Operations
<1>3. operations[i] \in Operation /\ i \in 1..Len(operations) /\ Barred(i)
  BY DEF TypeInv, Operations, AnswerInv
<1>4. ASSUME operations[i].decision = "DENY"
      PROVE  ~operations'[i].dispatched /\ operations'[i].status # "REQUIRES_APPROVAL"
  <2>1. i \notin reviews /\ ~operations[i].dispatched
    BY <1>3, <1>4 DEF Barred
  <2>2. operations' = [operations EXCEPT ![i].status = "SUCCEEDED"]
    BY <2>1 DEF ReviewCommit, Settle, VerifyPayment
  <2> QED BY <1>3, <2>1, <2>2 DEF TypeInv, Operation
<1>5. ASSUME NEW j \in Operations' PROVE Barred(j)'
  <2>1. Barred(j)
    BY <1>2 DEF AnswerInv
  <2> QED BY <1>1, <1>2, <1>3, <1>4, <2>1 DEF Barred
<1>6. ASSUME NEW answer \in answers PROVE Truthful(answer)' /\ Admitted(answer)'
  <2>1. Truthful(answer) /\ Admitted(answer) /\ Len(operations) \in Nat
    BY DEF AnswerInv, TypeInv
  <2>2. answer.op # 0 => operations'[answer.op].decision = operations[answer.op].decision
    BY <1>1, <2>1 DEF Truthful, Operations
  <2> QED BY <1>1, <2>1, <2>2 DEF Truthful, Admitted
<1> QED BY <1>1, <1>2, <1>5, <1>6 DEF AnswerInv, Step

(* One step per action. *)
LEMMA AnswerStep ==
  ASSUME TypeInv, AnswerInv, [Next]_vars
  PROVE  AnswerInv'
<1>1. ASSUME UNCHANGED <<work, operations, reviews, answers>> PROVE AnswerInv'
  BY <1>1, AnswerMoves
<1>2. ASSUME NEW a \in Agents, NEW status \in Statuses,
             RegisterAgent(a) \/ UpdateAgentStatus(a, status)
      PROVE  AnswerInv'
  BY <1>1, <1>2 DEF RegisterAgent, UpdateAgentStatus
<1>3. ASSUME NEW m \in Mandates, NEW status \in Statuses,
             CreateMandate(m) \/ UpdateMandateStatus(m, status)
      PROVE  AnswerInv'
  BY <1>1, <1>3 DEF CreateMandate, UpdateMandateStatus
<1>4. ASSUME NEW s \in Sessions, NEW r \in Rpcs, Authenticate(s, r) PROVE AnswerInv'
  <2>1. CASE Refuse(s, "unauthenticated")
    BY <1>4, <2>1, RefusalGiven DEF Authenticate
  <2>2. ASSUME NEW a, UNCHANGED answers,
               work' = [work EXCEPT ![s] = [NoWork EXCEPT !.step = "mandate", !.rpc = r,
                                                          !.agent = a]]
        PROVE  AnswerInv'
    <3> DEFINE w == [NoWork EXCEPT !.step = "mandate", !.rpc = r, !.agent = a]
    <3>1. w.step # "answer" /\ work' = [work EXCEPT ![s] = w]
      BY <2>2 DEF NoWork
    <3> HIDE DEF w
    <3> QED BY <1>4, <2>2, <3>1, AnswerPending DEF Authenticate
  <2> QED BY <1>4, <2>1, <2>2 DEF Authenticate
<1>5. ASSUME NEW s \in Sessions, RequestFails(s) PROVE AnswerInv'
  BY <1>5, RefusalGiven DEF RequestFails
<1>6. ASSUME NEW s \in Sessions, Lose(s) PROVE AnswerInv'
  <2>1. NoWork.step # "answer"
    BY DEF NoWork
  <2> QED BY <1>6, <2>1, AnswerPending DEF Lose
<1>7. CASE UNCHANGED vars
  BY <1>1, <1>7 DEF vars
<1> QED BY <1>2, <1>3, <1>4, <1>5, <1>6, <1>7, SelectAnswers, DispatchAnswers,
           RequestAnswers, ReportAnswers, ReviewOpenAnswers, LaterAnswers
        DEF Next, Statuses

(* A denial that a client was told of stands: whatever reviewers who read   *)
(* an old status, webhooks, sweeps and verified payments commit, the       *)
(* operation is not handed to the gateway (mcp_gateway.py with             *)
(* operations.py).                                                         *)
THEOREM DenialsStand == Spec => []DeniedIsNeverDispatched
<1>1. TypeInv /\ AnswerInv => DeniedIsNeverDispatched
  BY AnswersTell
<1>2. TypeInv /\ AnswerInv /\ [Next]_vars => AnswerInv'
  BY AnswerStep
<1>3. TypeInv /\ [Next]_vars => TypeInv'
  BY TypeStep
<1> QED BY <1>1, <1>2, <1>3, TypeInit, AnswerInit, PTL DEF Spec

(* An agent is never shown a financial tool that the rules would bar under  *)
(* the mandate it is shown for, whatever its type and whatever strings the  *)
(* whitelist holds (catalog.py with engine.py).                             *)
THEOREM ListedToolsAreAllowed == Spec => []ListedToolsPassThePolicy
<1>1. TypeInv /\ AnswerInv => ListedToolsPassThePolicy
  BY AnswersTell
<1>2. TypeInv /\ AnswerInv /\ [Next]_vars => AnswerInv'
  BY AnswerStep
<1>3. TypeInv /\ [Next]_vars => TypeInv'
  BY TypeStep
<1> QED BY <1>1, <1>2, <1>3, TypeInit, AnswerInit, PTL DEF Spec
==============================================================================
