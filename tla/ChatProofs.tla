------------------------------ MODULE ChatProofs ------------------------------
(***************************************************************************)
(* For any grants, prompts, answers of the hosted model and sessions, and   *)
(* wherever a turn fails: what is stored of a turn of the chat is traced up *)
(* to its last operation, a reissued mandate serves, and neither a question *)
(* nor a risky order moves funds.                                          *)
(***************************************************************************)
EXTENDS AgentChat, FiniteSetTheorems, WellFoundedInduction, TLAPS

OperationTypes == {"CREATE_ORDER", "CREATE_PAYMENT_LINK", "CREATE_REFUND"}

MandateRow ==
  [agent : Agents, types : SUBSET (STRING \cup OperationTypes), cap : Nat,
   origin : {"granted", "reissued"}, status : {"ACTIVE", "REVOKED"}]

Statuses == {"POLICY_REJECTED", "REQUIRES_APPROVAL", "FAILED", "SUCCEEDED", "EXECUTING"}

OperationRow ==
  [turn : Nat, mandate : Nat, decision : PolicyDecision, status : Statuses, riskPassed : BOOLEAN]

WorkColumns ==
  {"step", "turn", "prompt", "agent", "agentStatus", "mandate", "copy", "calls", "pending"}

Rows ==
  /\ mandates \in Seq(MandateRow)
  /\ operations \in Seq(OperationRow)
  /\ turns \in Nat
  /\ DOMAIN work = Sessions
  /\ \A s \in Sessions : DOMAIN work[s] = WorkColumns
  /\ \A i \in DOMAIN operations : operations[i].turn <= turns

(* A turn that is being served knows which of its operations are untraced,  *)
(* and has a mandate to store until it has stored it.                      *)
Serving(s) ==
  /\ Step(s) # "idle" =>
       /\ work[s].turn \in 1..turns
       /\ OfTurn(work[s].turn) \subseteq traces \cup work[s].pending
       /\ work[s].mandate \in Nat
       /\ work[s].mandate = 0 => work[s].copy \in MandateRow
  /\ Step(s) = "model" => work[s].prompt \in Prompts

OneSessionPerTurn ==
  \A s, t \in Sessions :
    Step(s) # "idle" /\ Step(t) # "idle" /\ work[s].turn = work[t].turn => s = t

ChatInv ==
  /\ Rows
  /\ \A s \in Sessions : Serving(s)
  /\ OneSessionPerTurn
  /\ OnlyTheLastIsUntraced
  /\ ReissuedMandatesServe
  /\ RiskyOrdersAreNotExecuted
------------------------------------------------------------------------------
(* A set of numbers has a least one. *)
LEMMA LeastNumber ==
  ASSUME NEW S \in SUBSET Nat, S # {}
  PROVE  \E n \in S : \A m \in S : n <= m
<1>1. PICK n \in S : \A m \in S : ~ (<<m, n>> \in OpToRel(<, Nat))
  BY NatLessThanWellFounded, WFMin
<1>2. \A m \in S : ~ (m < n)
  BY <1>1 DEF OpToRel
<1> QED BY <1>2

(* A set of some of 1..n has a greatest element. *)
LEMMA Greatest ==
  ASSUME NEW n \in Nat, NEW S \in SUBSET (1..n), S # {}
  PROVE  Max(S) \in S /\ \A x \in S : x <= Max(S)
<1> DEFINE T == {n - x : x \in S}
<1>0. PICK x \in S : TRUE
  OBVIOUS
<1>1. T \in SUBSET Nat /\ n - x \in T
  OBVIOUS
<1>2. PICK m \in T : \A k \in T : m <= k
  BY <1>1, LeastNumber
<1>3. PICK y \in S : m = n - y
  BY <1>2
<1>4. \A z \in S : n - y <= n - z
  BY <1>2, <1>3
<1>5. \A z \in S : y >= z
  BY <1>4
<1> QED BY <1>5 DEF Max

(* The least element is the one that Min chooses. *)
LEMMA Least ==
  ASSUME NEW S \in SUBSET Nat, S # {}
  PROVE  Min(S) \in S /\ \A x \in S : Min(S) <= x
BY LeastNumber DEF Min

(* A mandate that is granted or reissued is a row of its table. *)
LEMMA ReissuedIsARow ==
  ASSUME NEW a \in Agents
  PROVE  Reissued(a) \in MandateRow
BY DEF Reissued, Mandate, MandateRow, OperationTypes

LEMMA GrantIsARow ==
  ASSUME ChatInv, GrantMandate
  PROVE  /\ Grants[Granted + 1] \in MandateRow
         /\ Grants[Granted + 1].origin = "granted"
<1> DEFINE G == {m \in DOMAIN mandates : mandates[m].origin = "granted"}
<1>1. Len(mandates) \in Nat /\ G \in SUBSET (1..Len(mandates))
  BY DEF ChatInv, Rows
<1>2. IsFiniteSet(1..Len(mandates))
  BY <1>1, FS_Interval
<1>3. Cardinality(G) \in Nat
  BY <1>1, <1>2, FS_Subset, FS_CardinalityType
<1>4. Granted \in Nat
  BY <1>3 DEF Granted
<1> DEFINE Given == [agent : Agents, types : SUBSET STRING, cap : Nat,
                     origin : {"granted"}, status : {"ACTIVE"}]
<1>5. Grants \in Seq(Given)
  BY ChatConstants
<1> HIDE DEF Given
<1>6. Grants[Granted + 1] \in Given
  BY <1>4, <1>5 DEF GrantMandate
<1> QED BY <1>6 DEF Given, MandateRow

(* What becomes of an operation; none above the cap is executed. *)
LEMMA OutcomesObeyTheCap ==
  ASSUME NEW status, NEW mandate, NEW type, NEW amount,
         NEW outcome, outcome \in Outcomes(status, mandate, type, amount)
  PROVE  /\ outcome.decision \in PolicyDecision /\ outcome.status \in Statuses
         /\ outcome.status \in Executed => ~(amount > mandate.cap)
BY DEF Outcomes, Outcome, PolicyDecision, Statuses, Executed, PerTransactionLimitRule, DenyIf

------------------------------------------------------------------------------
(* A session that a step leaves alone stays as it was: its turn gains no    *)
(* operation and loses no trace.                                           *)
LEMMA OtherTurnsGoOn ==
  ASSUME ChatInv, NEW t \in Sessions, work'[t] = work[t], turns' \in Nat, turns <= turns',
         traces \subseteq traces',
         Step(t) # "idle" =>
           \A i \in DOMAIN operations' :
             operations'[i].turn = work[t].turn => i \in OfTurn(work[t].turn)
  PROVE  Serving(t)'
<1>1. Serving(t) /\ turns \in Nat
  BY DEF ChatInv, Rows
<1>2. Step(t)' = Step(t)
  BY DEF Step
<1>3. ASSUME Step(t) # "idle"
      PROVE  /\ work'[t].turn \in 1..turns'
             /\ OfTurn(work[t].turn)' \subseteq traces' \cup work'[t].pending
  <2>1. work[t].turn \in 1..turns
    BY <1>1, <1>3 DEF Serving
  <2>2. OfTurn(work[t].turn) \subseteq traces \cup work[t].pending
    BY <1>1, <1>3 DEF Serving
  <2>3. {i \in DOMAIN operations' : operations'[i].turn = work[t].turn} \subseteq OfTurn(work[t].turn)
    BY <1>3
  <2>4. OfTurn(work[t].turn)' = {i \in DOMAIN operations' : operations'[i].turn = work'[t].turn}
    BY DEF OfTurn
  <2> QED BY <1>1, <2>1, <2>2, <2>3, <2>4
<1> QED BY <1>1, <1>2, <1>3 DEF Serving

(* Turns that go on keep a session each, and an idle session has none. *)
LEMMA TurnsStayApart ==
  ASSUME ChatInv, NEW s \in Sessions,
         \A t \in Sessions \ {s} : work'[t] = work[t],
         \/ work'[s].step = "idle"
         \/ Step(s) # "idle" /\ work'[s].turn = work[s].turn
         \/ \A t \in Sessions \ {s} : Step(t) # "idle" => work[t].turn # work'[s].turn
  PROVE  OneSessionPerTurn'
<1>1. OneSessionPerTurn
  BY DEF ChatInv
<1> QED BY <1>1 DEF OneSessionPerTurn, Step

(* What the next state finds in the operations when none is added: the      *)
(* traces, mandates and replies may only grow.                             *)
LEMMA StoredStays ==
  ASSUME ChatInv, UNCHANGED operations, turns' \in Nat, turns <= turns', traces \subseteq traces'
  PROVE  OnlyTheLastIsUntraced' /\ RiskyOrdersAreNotExecuted'
         /\ \A i \in DOMAIN operations' : operations'[i].turn <= turns'
<1>1. /\ operations \in Seq(OperationRow) /\ turns \in Nat
      /\ \A i \in DOMAIN operations : operations[i].turn <= turns
  BY DEF ChatInv, Rows
<1>2. ASSUME NEW i \in DOMAIN operations
      PROVE  operations[i].turn \in Nat
  <2>1. operations[i] \in OperationRow
    BY <1>1
  <2> QED BY <2>1 DEF OperationRow
<1>3. OnlyTheLastIsUntraced'
  <2> SUFFICES ASSUME NEW t \in 1..turns', NEW i \in OfTurn(t), i \notin traces', NEW j \in OfTurn(t)
               PROVE  j <= i
    BY DEF OnlyTheLastIsUntraced, OfTurn
  <2>1. t \in 1..turns
    BY <1>1 DEF OfTurn
  <2> QED BY <2>1 DEF ChatInv, OnlyTheLastIsUntraced
<1>4. RiskyOrdersAreNotExecuted'
  BY DEF ChatInv, RiskyOrdersAreNotExecuted
<1> QED BY <1>1, <1>2, <1>3, <1>4

(* A mandate that is stored serves as it did. *)
LEMMA ServingMandates ==
  ASSUME ChatInv, replies \subseteq replies',
         \A i \in DOMAIN operations : i \in DOMAIN operations' /\ operations'[i] = operations[i],
         \A m \in DOMAIN mandates' :
           mandates'[m].origin = "reissued" =>
             \/ m \in DOMAIN mandates /\ mandates[m].origin = "reissued"
             \/ \E i \in DOMAIN operations' : operations'[i].mandate = m
             \/ \E reply \in replies' : reply.mandate = m
  PROVE  ReissuedMandatesServe'
BY DEF ChatInv, ReissuedMandatesServe
------------------------------------------------------------------------------
(* A commit stores the session's mandate and the traces of its turn. *)
LEMMA CommitStores ==
  ASSUME ChatInv, NEW s \in Sessions, Step(s) # "idle", Commit(s)
  PROVE  /\ mandates' \in Seq(MandateRow)
         /\ traces \subseteq traces'
         /\ OfTurn(work[s].turn) \subseteq traces'
         /\ Committed(s) \in Nat \ {0}
         /\ \A m \in DOMAIN mandates' :
              m = Committed(s) \/ (m \in DOMAIN mandates /\ mandates'[m] = mandates[m])
<1>1. /\ work[s].mandate \in Nat /\ OfTurn(work[s].turn) \subseteq traces \cup work[s].pending
      /\ work[s].mandate = 0 => work[s].copy \in MandateRow
  BY DEF ChatInv, Serving
<1>2. mandates \in Seq(MandateRow)
  BY DEF ChatInv, Rows
<1> HIDE DEF MandateRow
<1>3. traces' = traces \cup work[s].pending
  BY DEF Commit
<1>4. CASE work[s].mandate = 0
  <2>1. mandates' = Append(mandates, work[s].copy) /\ work[s].copy \in MandateRow
    BY <1>1, <1>4 DEF Commit
  <2>2. /\ mandates' \in Seq(MandateRow) /\ Len(mandates') = Len(mandates) + 1
        /\ \A m \in 1..Len(mandates) : mandates'[m] = mandates[m]
    BY <1>2, <2>1
  <2>3. Committed(s) = Len(mandates')
    BY <1>4 DEF Committed
  <2> QED BY <1>1, <1>2, <1>3, <2>2, <2>3
<1>5. CASE work[s].mandate # 0
  BY <1>1, <1>2, <1>3, <1>5 DEF Commit, Committed
<1> QED BY <1>4, <1>5

(* Owners grant and revoke mandates; no session notices. *)
LEMMA OwnersKeep ==
  ASSUME ChatInv, UNCHANGED <<operations, traces, replies, turns, work>>,
         mandates' \in Seq(MandateRow),
         \A m \in DOMAIN mandates' :
           mandates'[m].origin = "reissued" =>
             m \in DOMAIN mandates /\ mandates[m].origin = "reissued"
  PROVE  ChatInv'
<1>1. turns \in Nat
  BY DEF ChatInv, Rows
<1>2. \A s \in Sessions : Serving(s)'
  BY <1>1, OtherTurnsGoOn DEF OfTurn
<1>3. OneSessionPerTurn'
  BY DEF ChatInv, OneSessionPerTurn, Step
<1>4. OnlyTheLastIsUntraced' /\ RiskyOrdersAreNotExecuted'
  BY <1>1, StoredStays
<1>5. ReissuedMandatesServe'
  BY ServingMandates
<1>6. Rows'
  BY DEF ChatInv, Rows
<1> QED BY <1>2, <1>3, <1>4, <1>5, <1>6 DEF ChatInv

LEMMA GrantMandateKeeps == ChatInv /\ GrantMandate => ChatInv'
<1> SUFFICES ASSUME ChatInv, GrantMandate
             PROVE  ChatInv'
  OBVIOUS
<1> DEFINE row == Grants[Granted + 1]
<1>1. row \in MandateRow /\ row.origin = "granted"
  BY GrantIsARow
<1>2. mandates \in Seq(MandateRow) /\ mandates' = Append(mandates, row)
  BY DEF ChatInv, Rows, GrantMandate
<1> HIDE DEF row
<1>3. /\ mandates' \in Seq(MandateRow)
      /\ \A m \in DOMAIN mandates' :
           mandates'[m] = row \/ (m \in DOMAIN mandates /\ mandates'[m] = mandates[m])
  BY <1>1, <1>2
<1>4. \A m \in DOMAIN mandates' :
        mandates'[m].origin = "reissued" =>
          m \in DOMAIN mandates /\ mandates[m].origin = "reissued"
  BY <1>1, <1>3
<1> QED BY <1>3, <1>4, OwnersKeep DEF GrantMandate

LEMMA RevokeMandateKeeps ==
  ASSUME ChatInv, NEW n \in DOMAIN mandates, RevokeMandate(n)
  PROVE  ChatInv'
<1>1. mandates \in Seq(MandateRow)
  BY DEF ChatInv, Rows
<1>2. mandates[n] \in MandateRow
  BY <1>1
<1> DEFINE row == [mandates[n] EXCEPT !.status = "REVOKED"]
<1>3. row \in MandateRow /\ row.origin = mandates[n].origin
  BY <1>2 DEF MandateRow
<1>4. mandates' = [mandates EXCEPT ![n] = row]
  BY DEF RevokeMandate
<1> HIDE DEF row
<1>5. /\ mandates' \in Seq(MandateRow) /\ DOMAIN mandates' = DOMAIN mandates
      /\ \A m \in DOMAIN mandates : mandates'[m] = IF m = n THEN row ELSE mandates[m]
  BY <1>1, <1>3, <1>4
<1>6. \A m \in DOMAIN mandates' :
        mandates'[m].origin = "reissued" =>
          m \in DOMAIN mandates /\ mandates[m].origin = "reissued"
  BY <1>3, <1>5
<1> QED BY <1>5, <1>6, OwnersKeep DEF RevokeMandate
------------------------------------------------------------------------------
(* A session moves on in its turn, or ends it, and nothing is stored. *)
LEMMA SessionKeeps ==
  ASSUME ChatInv, NEW s \in Sessions, UNCHANGED <<mandates, operations, traces, replies, turns>>,
         DOMAIN work' = Sessions, DOMAIN work'[s] = WorkColumns,
         \A t \in Sessions \ {s} : work'[t] = work[t],
         \/ work'[s].step = "idle"
         \/ /\ Step(s) # "idle" /\ work'[s].step # "model"
            /\ work'[s].turn = work[s].turn /\ work'[s].pending = work[s].pending
            /\ work'[s].mandate = work[s].mandate /\ work'[s].copy = work[s].copy
  PROVE  ChatInv'
<1>1. turns \in Nat
  BY DEF ChatInv, Rows
<1>2. ASSUME NEW t \in Sessions \ {s}
      PROVE  Serving(t)'
  BY <1>1, OtherTurnsGoOn DEF OfTurn
<1>3. Serving(s)'
  <2>1. CASE work'[s].step = "idle"
    BY <2>1 DEF Serving, Step
  <2>2. CASE work'[s].step # "idle"
    <3>1. /\ work[s].turn \in 1..turns /\ work[s].mandate \in Nat
          /\ OfTurn(work[s].turn) \subseteq traces \cup work[s].pending
          /\ work[s].mandate = 0 => work[s].copy \in MandateRow
      BY <2>2 DEF ChatInv, Serving
    <3>2. OfTurn(work[s].turn)' = OfTurn(work[s].turn)
      BY <2>2 DEF OfTurn
    <3> QED BY <2>2, <3>1, <3>2 DEF Serving, Step
  <2> QED BY <2>1, <2>2
<1>4. OneSessionPerTurn'
  BY TurnsStayApart
<1>5. OnlyTheLastIsUntraced' /\ RiskyOrdersAreNotExecuted'
  BY <1>1, StoredStays
<1>6. ReissuedMandatesServe'
  BY DEF ChatInv, ReissuedMandatesServe
<1>7. Rows'
  BY DEF ChatInv, Rows
<1> QED BY <1>2, <1>3, <1>4, <1>5, <1>6, <1>7 DEF ChatInv

LEMMA FirstTurnKeeps ==
  ASSUME ChatInv, NEW s \in Sessions, FirstTurn(s)
  PROVE  ChatInv'
<1>1. /\ DOMAIN work = Sessions /\ DOMAIN work[s] = WorkColumns
  BY DEF ChatInv, Rows
<1>2. PICK calls \in FirstResponse(work[s].prompt) :
        work' = [work EXCEPT ![s].step = IF calls = <<>> THEN "reply" ELSE "tools",
                             ![s].calls = calls, ![s].prompt = NoPrompt]
  BY DEF FirstTurn
<1>3. /\ DOMAIN work' = Sessions /\ DOMAIN work'[s] = WorkColumns
      /\ \A t \in Sessions \ {s} : work'[t] = work[t]
  BY <1>1, <1>2
<1>4. /\ work'[s].step # "model" /\ work'[s].turn = work[s].turn
      /\ work'[s].pending = work[s].pending
      /\ work'[s].mandate = work[s].mandate /\ work'[s].copy = work[s].copy
  BY <1>1, <1>2 DEF WorkColumns
<1> QED BY <1>3, <1>4, SessionKeeps DEF FirstTurn

LEMMA CallLocalToolKeeps ==
  ASSUME ChatInv, NEW s \in Sessions, CallLocalTool(s)
  PROVE  ChatInv'
<1>1. /\ DOMAIN work = Sessions /\ DOMAIN work[s] = WorkColumns
  BY DEF ChatInv, Rows
<1>2. work' = [work EXCEPT ![s].calls = Tail(@),
                           ![s].step = IF Len(work[s].calls) = 1 THEN "reply" ELSE "tools"]
  BY DEF CallLocalTool
<1>3. /\ DOMAIN work' = Sessions /\ DOMAIN work'[s] = WorkColumns
      /\ \A t \in Sessions \ {s} : work'[t] = work[t]
  BY <1>1, <1>2
<1>4. /\ work'[s].step # "model" /\ work'[s].turn = work[s].turn
      /\ work'[s].pending = work[s].pending
      /\ work'[s].mandate = work[s].mandate /\ work'[s].copy = work[s].copy
  BY <1>1, <1>2 DEF WorkColumns
<1> QED BY <1>3, <1>4, SessionKeeps DEF CallLocalTool

LEMMA FailKeeps ==
  ASSUME ChatInv, NEW s \in Sessions, Fail(s)
  PROVE  ChatInv'
<1>1. DOMAIN work = Sessions /\ work' = [work EXCEPT ![s] = NoTurn]
  BY DEF ChatInv, Rows, Fail
<1>2. DOMAIN NoTurn = WorkColumns /\ NoTurn.step = "idle"
  BY DEF NoTurn, WorkColumns
<1> QED BY <1>1, <1>2, SessionKeeps DEF Fail

(* A new turn has no operations yet. *)
LEMMA ChatKeeps ==
  ASSUME ChatInv, NEW s \in Sessions, NEW a \in Agents, NEW p \in Prompts,
         NEW hasKey \in BOOLEAN, Chat(s, a, p, hasKey)
  PROVE  ChatInv'
<1> DEFINE own == ActiveMandates(a)
           m == IF own = {} THEN 0 ELSE Max(own)
           given == IF m = 0 THEN Reissued(a) ELSE mandates[m]
           new == [NoTurn EXCEPT !.step = "model", !.turn = turns', !.prompt = p, !.agent = a,
                                 !.agentStatus = agentStatus[a], !.mandate = m, !.copy = given]
<1>1. /\ DOMAIN work = Sessions /\ turns \in Nat /\ turns' = turns + 1
      /\ \A i \in DOMAIN operations : operations[i] \in OperationRow /\ operations[i].turn <= turns
  BY DEF ChatInv, Rows, Chat
<1>2. m \in Nat
  <2>1. Len(mandates) \in Nat /\ own \in SUBSET (1..Len(mandates))
    BY DEF ChatInv, Rows, ActiveMandates
  <2>2. ASSUME own # {}
        PROVE  Max(own) \in own
    <3> HIDE DEF own
    <3> QED BY <2>1, <2>2, Greatest
  <2> QED BY <2>1, <2>2
<1>3. m = 0 => given \in MandateRow
  BY ReissuedIsARow
<1>4. work' = [work EXCEPT ![s] = new]
  BY DEF Chat
<1>5. /\ DOMAIN new = WorkColumns /\ new.step = "model" /\ new.turn = turns + 1
      /\ new.prompt = p /\ new.mandate = m /\ new.copy = given
  BY <1>1 DEF NoTurn, WorkColumns
<1> HIDE DEF new, given, m
<1>6. /\ DOMAIN work' = Sessions /\ work'[s] = new
      /\ \A t \in Sessions \ {s} : work'[t] = work[t]
  BY <1>1, <1>4
<1>7. UNCHANGED <<mandates, operations, traces, replies>>
  BY DEF Chat
<1>8. ASSUME NEW t \in Sessions \ {s}
      PROVE  Serving(t)'
  BY <1>1, <1>6, <1>7, OtherTurnsGoOn DEF OfTurn
<1>9. Serving(s)'
  <2>1. ASSUME NEW i \in DOMAIN operations
        PROVE  operations[i].turn # turns + 1
    <3>1. operations[i].turn \in Nat /\ operations[i].turn <= turns
      BY <1>1 DEF OperationRow
    <3> QED BY <1>1, <3>1
  <2>2. OfTurn(work[s].turn)' = {}
    BY <1>5, <1>6, <1>7, <2>1 DEF OfTurn
  <2> QED BY <1>1, <1>2, <1>3, <1>5, <1>6, <2>2 DEF Serving, Step
<1>10. OneSessionPerTurn'
  <2>1. ASSUME NEW t \in Sessions, Step(t) # "idle"
        PROVE  work[t].turn # turns + 1
    <3>1. work[t].turn \in 1..turns
      BY <2>1 DEF ChatInv, Serving
    <3> QED BY <1>1, <3>1
  <2> QED BY <1>5, <1>6, <2>1, TurnsStayApart
<1>11. OnlyTheLastIsUntraced' /\ RiskyOrdersAreNotExecuted'
  BY <1>1, <1>7, StoredStays
<1>12. ReissuedMandatesServe'
  BY <1>7 DEF ChatInv, ReissuedMandatesServe
<1>13. Rows'
  BY <1>1, <1>5, <1>6, <1>7, <1>11, StoredStays DEF ChatInv, Rows
<1> QED BY <1>8, <1>9, <1>10, <1>11, <1>12, <1>13 DEF ChatInv
------------------------------------------------------------------------------
LEMMA AnswerKeeps ==
  ASSUME ChatInv, NEW s \in Sessions, Answer(s)
  PROVE  ChatInv'
<1>1. /\ DOMAIN work = Sessions /\ turns \in Nat /\ operations \in Seq(OperationRow)
      /\ UNCHANGED <<operations, turns>>
  BY DEF ChatInv, Rows, Answer
<1>2. work' = [work EXCEPT ![s] = NoTurn] /\ Step(s) # "idle" /\ Commit(s)
  BY DEF Answer
<1>3. DOMAIN NoTurn = WorkColumns /\ NoTurn.step = "idle"
  BY DEF NoTurn, WorkColumns
<1>4. /\ DOMAIN work' = Sessions /\ work'[s] = NoTurn
      /\ \A t \in Sessions \ {s} : work'[t] = work[t]
  BY <1>1, <1>2
<1>5. /\ mandates' \in Seq(MandateRow) /\ traces \subseteq traces'
      /\ \A m \in DOMAIN mandates' :
           m = Committed(s) \/ (m \in DOMAIN mandates /\ mandates'[m] = mandates[m])
  BY <1>2, CommitStores
<1>6. ASSUME NEW t \in Sessions \ {s}
      PROVE  Serving(t)'
  BY <1>1, <1>4, <1>5, OtherTurnsGoOn DEF OfTurn
<1>7. Serving(s)'
  BY <1>3, <1>4 DEF Serving, Step
<1>8. OneSessionPerTurn'
  BY <1>3, <1>4, TurnsStayApart
<1>9. OnlyTheLastIsUntraced' /\ RiskyOrdersAreNotExecuted'
  BY <1>1, <1>5, StoredStays
<1>10. ReissuedMandatesServe'
  <2> DEFINE reply == [turn |-> work[s].turn, mandate |-> Committed(s)]
  <2>1. replies' = replies \cup {reply}
    BY DEF Answer
  <2>2. reply.mandate = Committed(s)
    OBVIOUS
  <2> HIDE DEF reply
  <2>3. \A m \in DOMAIN mandates' :
          \/ m \in DOMAIN mandates /\ mandates'[m] = mandates[m]
          \/ \E r \in replies' : r.mandate = m
    BY <1>5, <2>1, <2>2
  <2> QED BY <1>1, <2>1, <2>3, ServingMandates
<1>11. Rows'
  BY <1>1, <1>3, <1>4, <1>5 DEF ChatInv, Rows
<1> QED BY <1>6, <1>7, <1>8, <1>9, <1>10, <1>11 DEF ChatInv

(* An operation is added with the number of a turn, 0 for none, whose other *)
(* operations are traced by now.                                           *)
LEMMA AddedOperation ==
  ASSUME ChatInv, NEW row \in OperationRow, operations' = Append(operations, row),
         turns' \in Nat, turns <= turns', traces \subseteq traces',
         row.turn <= turns,
         row.turn # 0 => OfTurn(row.turn) \subseteq traces',
         row.status \in Executed => row.riskPassed
  PROVE  /\ operations' \in Seq(OperationRow)
         /\ Len(operations') \in DOMAIN operations'
         /\ operations'[Len(operations')] = row
         /\ \A i \in DOMAIN operations : i \in DOMAIN operations' /\ operations'[i] = operations[i]
         /\ \A i \in DOMAIN operations' :
              i = Len(operations') \/ (i \in DOMAIN operations /\ operations'[i] = operations[i])
         /\ \A i \in DOMAIN operations' : operations'[i].turn <= turns'
         /\ OnlyTheLastIsUntraced'
         /\ RiskyOrdersAreNotExecuted'
<1>1. /\ operations \in Seq(OperationRow) /\ turns \in Nat
      /\ \A i \in DOMAIN operations : operations[i].turn <= turns
  BY DEF ChatInv, Rows
<1>2. row.turn \in Nat
  BY DEF OperationRow
<1>3. ASSUME NEW i \in DOMAIN operations
      PROVE  operations[i].turn \in Nat
  <2>1. operations[i] \in OperationRow
    BY <1>1
  <2> QED BY <2>1 DEF OperationRow
<1> HIDE DEF OperationRow
<1>4. /\ operations' \in Seq(OperationRow)
      /\ Len(operations') \in DOMAIN operations'
      /\ operations'[Len(operations')] = row
      /\ \A i \in DOMAIN operations : i \in DOMAIN operations' /\ operations'[i] = operations[i]
      /\ \A i \in DOMAIN operations' :
           i = Len(operations') \/ (i \in DOMAIN operations /\ operations'[i] = operations[i])
      /\ \A i \in DOMAIN operations' : i \in Nat /\ i <= Len(operations')
  BY <1>1
<1>5. \A i \in DOMAIN operations' : operations'[i].turn <= turns'
  BY <1>1, <1>2, <1>3, <1>4
<1>6. OnlyTheLastIsUntraced'
  <2> SUFFICES ASSUME NEW t \in 1..turns', NEW i \in OfTurn(t)', i \notin traces', NEW j \in OfTurn(t)'
               PROVE  j <= i
    BY DEF OnlyTheLastIsUntraced
  <2>1. /\ i \in DOMAIN operations' /\ operations'[i].turn = t
        /\ j \in DOMAIN operations' /\ operations'[j].turn = t
    BY DEF OfTurn
  <2>2. CASE i = Len(operations')
    BY <1>4, <2>1, <2>2
  <2>3. CASE i # Len(operations')
    <3>1. i \in DOMAIN operations /\ operations[i].turn = t
      BY <1>4, <2>1, <2>3
    <3>2. i \in OfTurn(t) /\ i \notin traces /\ t \in 1..turns
      BY <1>1, <3>1 DEF OfTurn
    <3>3. row.turn # t
      BY <1>1, <3>2
    <3>4. j \in OfTurn(t)
      BY <1>4, <2>1, <3>3 DEF OfTurn
    <3> QED BY <3>2, <3>4 DEF ChatInv, OnlyTheLastIsUntraced
  <2> QED BY <2>2, <2>3
<1>7. RiskyOrdersAreNotExecuted'
  BY <1>4 DEF ChatInv, RiskyOrdersAreNotExecuted
<1> QED BY <1>4, <1>5, <1>6, <1>7
------------------------------------------------------------------------------
LEMMA CallToolKeeps ==
  ASSUME ChatInv, NEW s \in Sessions, CallTool(s)
  PROVE  ChatInv'
<1> DEFINE w == work[s]
           call == Head(w.calls)
<1>1. /\ DOMAIN work = Sessions /\ DOMAIN w = WorkColumns
      /\ turns \in Nat /\ operations \in Seq(OperationRow)
  BY DEF ChatInv, Rows
<1>2. /\ w.turn \in 1..turns /\ Step(s) # "idle"
  BY DEF ChatInv, Serving, CallTool
<1>3. Commit(s) /\ UNCHANGED <<replies, turns>>
  BY DEF CallTool
<1>4. /\ mandates' \in Seq(MandateRow) /\ traces \subseteq traces'
      /\ OfTurn(w.turn) \subseteq traces' /\ Committed(s) \in Nat \ {0}
      /\ \A m \in DOMAIN mandates' :
           m = Committed(s) \/ (m \in DOMAIN mandates /\ mandates'[m] = mandates[m])
  BY <1>2, <1>3, CommitStores
<1>5. PICK outcome \in Outcomes(w.agentStatus, w.copy, OperationType[call.tool], AmountOf(call)) :
        /\ operations' = Append(operations, Operation(w.turn, Committed(s), outcome))
        /\ work' = [work EXCEPT
             ![s] = [w EXCEPT !.calls = Tail(@), !.mandate = Committed(s),
                              !.pending = {Len(operations')},
                              !.step = IF Len(w.calls) = 1 THEN "reply" ELSE "tools"]]
  BY DEF CallTool
<1> DEFINE row == Operation(w.turn, Committed(s), outcome)
           new == [w EXCEPT !.calls = Tail(@), !.mandate = Committed(s),
                            !.pending = {Len(operations')},
                            !.step = IF Len(w.calls) = 1 THEN "reply" ELSE "tools"]
<1>6. row \in OperationRow
  <2>1. outcome.decision \in PolicyDecision /\ outcome.status \in Statuses
    BY <1>5, OutcomesObeyTheCap
  <2>2. w.turn \in Nat
    BY <1>1, <1>2
  <2> HIDE DEF w
  <2> QED BY <1>4, <2>1, <2>2 DEF Operation, OperationRow
<1>7. row.turn = w.turn /\ row.mandate = Committed(s) /\ row.riskPassed
  BY DEF Operation
<1>8. /\ DOMAIN new = WorkColumns /\ new.step \notin {"idle", "model"} /\ new.turn = w.turn
      /\ new.mandate = Committed(s) /\ new.pending = {Len(operations')}
  BY <1>1 DEF WorkColumns
<1> HIDE DEF row, new, call
<1>9. operations' = Append(operations, row) /\ work' = [work EXCEPT ![s] = new]
  BY <1>5 DEF row, new, call
<1>10. /\ operations' \in Seq(OperationRow)
       /\ Len(operations') \in DOMAIN operations'
       /\ operations'[Len(operations')] = row
       /\ \A i \in DOMAIN operations : i \in DOMAIN operations' /\ operations'[i] = operations[i]
       /\ \A i \in DOMAIN operations' :
            i = Len(operations') \/ (i \in DOMAIN operations /\ operations'[i] = operations[i])
       /\ \A i \in DOMAIN operations' : operations'[i].turn <= turns'
       /\ OnlyTheLastIsUntraced' /\ RiskyOrdersAreNotExecuted'
  BY <1>1, <1>2, <1>3, <1>4, <1>6, <1>7, <1>9, AddedOperation
<1>11. /\ DOMAIN work' = Sessions /\ work'[s] = new
       /\ \A t \in Sessions \ {s} : work'[t] = work[t]
  BY <1>1, <1>9
<1>12. ASSUME NEW t \in Sessions \ {s}
       PROVE  Serving(t)'
  <2>1. Step(t) # "idle" => work[t].turn # w.turn
    BY <1>2 DEF ChatInv, OneSessionPerTurn
  <2>2. Step(t) # "idle" =>
          \A i \in DOMAIN operations' :
            operations'[i].turn = work[t].turn => i \in OfTurn(work[t].turn)
    BY <1>7, <1>10, <2>1 DEF OfTurn
  <2> QED BY <1>1, <1>3, <1>4, <1>11, <2>2, OtherTurnsGoOn
<1>13. Serving(s)'
  <2>1. OfTurn(w.turn)' \subseteq traces' \cup {Len(operations')}
    <3> SUFFICES ASSUME NEW i \in DOMAIN operations', operations'[i].turn = work'[s].turn,
                        i # Len(operations')
                 PROVE  i \in traces'
      BY DEF OfTurn
    <3>1. i \in OfTurn(w.turn)
      BY <1>8, <1>10, <1>11 DEF OfTurn
    <3> QED BY <1>4, <3>1
  <2>2. OfTurn(work[s].turn)' \subseteq traces' \cup work'[s].pending
    BY <1>8, <1>11, <2>1
  <2> QED BY <1>2, <1>3, <1>4, <1>8, <1>11, <2>2 DEF Serving, Step
<1>14. OneSessionPerTurn'
  BY <1>2, <1>8, <1>11, TurnsStayApart
<1>15. ReissuedMandatesServe'
  <2>1. \A m \in DOMAIN mandates' :
          \/ m \in DOMAIN mandates /\ mandates'[m] = mandates[m]
          \/ \E i \in DOMAIN operations' : operations'[i].mandate = m
    BY <1>4, <1>7, <1>10
  <2> QED BY <1>3, <1>10, <2>1, ServingMandates
<1>16. Rows'
  BY <1>1, <1>3, <1>4, <1>8, <1>10, <1>11 DEF ChatInv, Rows
<1> QED BY <1>10, <1>12, <1>13, <1>14, <1>15, <1>16 DEF ChatInv

(* The policy refuses what the risk agent does: an order above the cap. *)
LEMMA CollaborateKeeps ==
  ASSUME ChatInv, NEW m \in DOMAIN mandates, NEW order \in Orders,
         Collaborate(m, order[1], order[2])
  PROVE  ChatInv'
<1> DEFINE amount == Price[order[1]] * order[2]
           passed == RiskPassed(amount, mandates[m])
<1>1. /\ DOMAIN work = Sessions /\ turns \in Nat /\ turns' = turns + 1
      /\ operations \in Seq(OperationRow) /\ mandates \in Seq(MandateRow)
      /\ UNCHANGED <<mandates, traces, replies, work>>
  BY DEF ChatInv, Rows, Collaborate
<1>2. amount \in Int
  <2>1. order[1] \in Products /\ order[2] \in Nat
    BY ChatConstants
  <2>2. Price[order[1]] \in Nat
    BY <2>1 DEF Products, Price
  <2> QED BY <2>1, <2>2
<1>3. mandates[m].cap \in Nat /\ m \in Nat
  <2>1. mandates[m] \in MandateRow /\ m \in Nat
    BY <1>1
  <2> QED BY <2>1 DEF MandateRow
<1>4. PICK outcome \in Outcomes(agentStatus[mandates[m].agent], mandates[m], "CREATE_ORDER", amount) :
        operations' = Append(operations, [Operation(0, m, outcome) EXCEPT !.riskPassed = passed])
  BY DEF Collaborate
<1> HIDE DEF amount
<1>5. passed \in BOOLEAN
  BY DEF RiskPassed
<1>6. /\ outcome.decision \in PolicyDecision /\ outcome.status \in Statuses
      /\ outcome.status \in Executed => ~(amount > mandates[m].cap)
  BY <1>4, OutcomesObeyTheCap
<1>7. outcome.status \in Executed => passed
  BY <1>2, <1>3, <1>6 DEF RiskPassed
<1> HIDE DEF passed
<1> DEFINE row == [Operation(0, m, outcome) EXCEPT !.riskPassed = passed]
<1>8. row \in OperationRow
  BY <1>3, <1>5, <1>6 DEF Operation, OperationRow
<1>9. row.turn = 0 /\ row.status = outcome.status /\ row.riskPassed = passed
  BY DEF Operation
<1>10. operations' = Append(operations, row)
  BY <1>4
<1> HIDE DEF row
<1>11. /\ operations' \in Seq(OperationRow)
       /\ Len(operations') \in DOMAIN operations'
       /\ operations'[Len(operations')] = row
       /\ \A i \in DOMAIN operations : i \in DOMAIN operations' /\ operations'[i] = operations[i]
       /\ \A i \in DOMAIN operations' :
            i = Len(operations') \/ (i \in DOMAIN operations /\ operations'[i] = operations[i])
       /\ \A i \in DOMAIN operations' : operations'[i].turn <= turns'
       /\ OnlyTheLastIsUntraced' /\ RiskyOrdersAreNotExecuted'
  BY <1>1, <1>7, <1>8, <1>9, <1>10, AddedOperation
<1>12. ASSUME NEW t \in Sessions
       PROVE  Serving(t)'
  <2>1. ASSUME Step(t) # "idle"
        PROVE  work[t].turn # 0
    <3>1. work[t].turn \in 1..turns
      BY <2>1 DEF ChatInv, Serving
    <3> QED BY <1>1, <3>1
  <2>2. Step(t) # "idle" =>
          \A i \in DOMAIN operations' :
            operations'[i].turn = work[t].turn => i \in OfTurn(work[t].turn)
    BY <1>9, <1>11, <2>1 DEF OfTurn
  <2> QED BY <1>1, <2>2, OtherTurnsGoOn
<1>13. OneSessionPerTurn'
  BY <1>1 DEF ChatInv, OneSessionPerTurn, Step
<1>14. ReissuedMandatesServe'
  BY <1>1, <1>11, ServingMandates
<1>15. Rows'
  BY <1>1, <1>11 DEF ChatInv, Rows
<1> QED BY <1>11, <1>12, <1>13, <1>14, <1>15 DEF ChatInv
------------------------------------------------------------------------------
(* The branches that answer questions come before those that move funds. *)
LEMMA QuestionRows ==
  ASSUME NEW words
  PROVE  LET rows == Intents(words) IN
         /\ Len(rows) = 10
         /\ \A i \in 1..6 : rows[i].tool \in {"reply", "lookup_transaction", "browse_catalog"}
         /\ rows[3].needs = {"inspect"} /\ rows[3].unless = {}
         /\ rows[4].needs = {"browse"} /\ rows[4].unless = {}
         /\ rows[5].needs = {"ask"} /\ (words \cap AskWords # {} => rows[5].unless = {})
         /\ rows[6].needs = {"refund", "refund_question"} /\ rows[6].unless = {}
BY DEF Intents, Row

(* A question meets one of the first six branches. *)
LEMMA QuestionsAreAnswered ==
  ASSUME NEW p, p.cues \in PossibleCues, Question(p)
  PROVE  IntentOf(p) \in {"reply", "lookup_transaction", "browse_catalog"}
<1> DEFINE rows == Intents(p.words)
           met == {i \in 1..Len(rows) : /\ rows[i].needs \subseteq p.cues
                                        /\ rows[i].unless \cap p.cues = {}}
<1>1. /\ Len(rows) = 10
      /\ \A i \in 1..6 : rows[i].tool \in {"reply", "lookup_transaction", "browse_catalog"}
      /\ rows[3].needs = {"inspect"} /\ rows[3].unless = {}
      /\ rows[4].needs = {"browse"} /\ rows[4].unless = {}
      /\ rows[5].needs = {"ask"} /\ (p.words \cap AskWords # {} => rows[5].unless = {})
      /\ rows[6].needs = {"refund", "refund_question"} /\ rows[6].unless = {}
  BY QuestionRows
<1>2. IntentOf(p) = rows[Min(met)].tool
  BY DEF IntentOf, FirstRow
<1> HIDE DEF rows
<1>3. PICK k \in 3..6 : rows[k].needs \subseteq p.cues /\ rows[k].unless \cap p.cues = {}
  <2>1. \/ "inspect" \in p.cues \/ "browse" \in p.cues
        \/ "refund_question" \in p.cues /\ "refund" \in p.cues
        \/ "ask" \in p.cues /\ p.words \cap AskWords # {}
    BY DEF Question, PossibleCues
  <2>2. CASE "inspect" \in p.cues
    <3>1. rows[3].needs \subseteq p.cues /\ rows[3].unless \cap p.cues = {}
      BY <1>1, <2>2
    <3> QED BY <3>1
  <2>3. CASE "browse" \in p.cues
    <3>1. rows[4].needs \subseteq p.cues /\ rows[4].unless \cap p.cues = {}
      BY <1>1, <2>3
    <3> QED BY <3>1
  <2>4. CASE "refund_question" \in p.cues /\ "refund" \in p.cues
    <3>1. rows[6].needs \subseteq p.cues /\ rows[6].unless \cap p.cues = {}
      BY <1>1, <2>4
    <3> QED BY <3>1
  <2>5. CASE "ask" \in p.cues /\ p.words \cap AskWords # {}
    <3>1. rows[5].needs \subseteq p.cues /\ rows[5].unless \cap p.cues = {}
      BY <1>1, <2>5
    <3> QED BY <3>1
  <2> QED BY <2>1, <2>2, <2>3, <2>4, <2>5
<1>4. k \in met /\ met \in SUBSET (1..10) /\ met \in SUBSET Nat
  BY <1>1, <1>3
<1> HIDE DEF met
<1>5. Min(met) \in 1..6
  <2>1. Min(met) \in met /\ Min(met) <= k
    BY <1>4, Least
  <2>2. Min(met) \in 1..10
    BY <1>4, <2>1
  <2> DEFINE least == Min(met)
  <2> HIDE DEF least
  <2>3. k \in 3..6 /\ least \in 1..10 /\ least <= k
    BY <1>3, <2>1, <2>2 DEF least
  <2>4. least \in 1..6
    BY <2>3
  <2> QED BY <2>4 DEF least
<1> QED BY <1>1, <1>2, <1>5

LEMMA QuestionsAreHarmless ==
  ASSUME NEW p \in Prompts, Question(p), NEW i \in DOMAIN ParsedCalls(p)
  PROVE  ParsedCalls(p)[i].tool \notin Financial
<1> DEFINE tool == IntentOf(p)
<1>1. tool \in {"reply", "lookup_transaction", "browse_catalog"}
  BY ChatConstants, QuestionsAreAnswered DEF IsPrompt
<1>2. CASE tool = "reply"
  <2>1. ParsedCalls(p) = <<>>
    BY <1>2 DEF ParsedCalls
  <2> QED BY <2>1
<1>3. CASE tool # "reply"
  <2>1. ParsedCalls(p) = <<Call(tool, NoProduct, 1, Omitted)>>
    BY <1>1, <1>3 DEF ParsedCalls
  <2>2. ParsedCalls(p)[i].tool = tool
    BY <2>1 DEF Call
  <2> QED BY <1>1, <2>2 DEF Financial
<1> QED BY <1>2, <1>3
------------------------------------------------------------------------------
LEMMA ChatInit == Init => ChatInv
<1> SUFFICES ASSUME Init
             PROVE  ChatInv
  OBVIOUS
<1>1. /\ mandates = <<>> /\ operations = <<>> /\ turns = 0
      /\ DOMAIN work = Sessions /\ \A s \in Sessions : work[s] = NoTurn
  BY DEF Init
<1>2. DOMAIN NoTurn = WorkColumns /\ NoTurn.step = "idle"
  BY DEF NoTurn, WorkColumns
<1>3. Rows
  BY <1>1, <1>2 DEF Rows
<1>4. (\A s \in Sessions : Serving(s)) /\ OneSessionPerTurn
  BY <1>1, <1>2 DEF Serving, OneSessionPerTurn, Step
<1>5. OnlyTheLastIsUntraced /\ ReissuedMandatesServe /\ RiskyOrdersAreNotExecuted
  BY <1>1 DEF OnlyTheLastIsUntraced, OfTurn, ReissuedMandatesServe, RiskyOrdersAreNotExecuted
<1> QED BY <1>3, <1>4, <1>5 DEF ChatInv

LEMMA ChatNext == ChatInv /\ [Next]_vars => ChatInv'
<1> SUFFICES ASSUME ChatInv, [Next]_vars
             PROVE  ChatInv'
  OBVIOUS
<1>1. CASE GrantMandate
  BY <1>1, GrantMandateKeeps
<1>2. ASSUME NEW m \in DOMAIN mandates, RevokeMandate(m)
      PROVE  ChatInv'
  BY <1>2, RevokeMandateKeeps
<1>3. ASSUME NEW m \in DOMAIN mandates, NEW order \in Orders, Collaborate(m, order[1], order[2])
      PROVE  ChatInv'
  BY <1>3, CollaborateKeeps
<1>4. ASSUME NEW a \in Agents, SuspendAgent(a)
      PROVE  ChatInv'
  BY <1>4, OwnersKeep DEF SuspendAgent, ChatInv, Rows
<1>5. ASSUME NEW s \in Sessions, NEW a \in Agents, NEW p \in Prompts, NEW hasKey \in BOOLEAN,
             Chat(s, a, p, hasKey)
      PROVE  ChatInv'
  BY <1>5, ChatKeeps
<1>6. ASSUME NEW s \in Sessions,
             FirstTurn(s) \/ CallLocalTool(s) \/ CallTool(s) \/ Answer(s) \/ Fail(s)
      PROVE  ChatInv'
  BY <1>6, FirstTurnKeeps, CallLocalToolKeeps, CallToolKeeps, AnswerKeeps, FailKeeps
<1>7. CASE UNCHANGED vars
  <2>1. UNCHANGED <<mandates, operations, traces, replies, turns, work>>
    BY <1>7 DEF vars
  <2> QED BY <2>1, OwnersKeep DEF ChatInv, Rows
<1> QED BY <1>1, <1>2, <1>3, <1>4, <1>5, <1>6, <1>7 DEF Next

LEMMA ChatAlways == Spec => []ChatInv
BY ChatInit, ChatNext, PTL DEF Spec

(* However turns interleave and wherever they fail, at most the last        *)
(* operation of a turn lacks its execution trace.                          *)
THEOREM TracesFallBehindByOne == Spec => []OnlyTheLastIsUntraced
<1>1. ChatInv => OnlyTheLastIsUntraced
  BY DEF ChatInv
<1> QED BY <1>1, ChatAlways, PTL

(* A mandate that the chat reissued is stored with an operation or a reply. *)
THEOREM NoReissuedMandateIsIdle == Spec => []ReissuedMandatesServe
<1>1. ChatInv => ReissuedMandatesServe
  BY DEF ChatInv
<1> QED BY <1>1, ChatAlways, PTL

(* What the risk agent refuses, the policy refuses too: the cap of a mandate *)
(* bounds every order that the coordinator has executed.                    *)
THEOREM RiskyOrdersAreRefused == Spec => []RiskyOrdersAreNotExecuted
<1>1. ChatInv => RiskyOrdersAreNotExecuted
  BY DEF ChatInv
<1> QED BY <1>1, ChatAlways, PTL

(* The mock model parses no question that it is made to answer into a call  *)
(* that moves funds, whatever else the prompt holds.                       *)
THEOREM QuestionsAreOnlyAnswered == Spec => []QuestionsMutateNothing
<1>1. ChatInv => QuestionsMutateNothing
  <2> SUFFICES ASSUME ChatInv, NEW s \in Sessions, Step(s) = "model", Question(work[s].prompt),
                      NEW i \in DOMAIN ParsedCalls(work[s].prompt)
               PROVE  ParsedCalls(work[s].prompt)[i].tool \notin Financial
    BY DEF QuestionsMutateNothing
  <2>1. work[s].prompt \in Prompts
    BY DEF ChatInv, Serving
  <2> QED BY <2>1, QuestionsAreHarmless
<1> QED BY <1>1, ChatAlways, PTL
==============================================================================
