----------------------------- MODULE MandateTree -----------------------------
(***************************************************************************)
(* The delegation tree of mandates: issuing and delegating, the cascades of *)
(* suspension and revocation, reactivation, and the charges that agents     *)
(* make to a mandate under the policy engine.                               *)
(*                                                                         *)
(* As in OperationPipeline, a handler is a database session under READ      *)
(* COMMITTED whose writes wait for its COMMIT.  A charge that reads and     *)
(* writes only the row it has locked is one step.                           *)
(***************************************************************************)
EXTENDS PolicyEngine, Sequences, FiniteSets, FiniteSetsExt

CONSTANTS
  Sessions,    \* database sessions open at the same time
  RootTerms,   \* the terms a principal issues root mandates under
  ChildTerms,  \* the terms agents ask for when they delegate
  Requests,    \* the operations agents request
  Calls,       \* the entry points that are used, of AllCalls
  MaxDepth,    \* max_delegation_depth
  MaxRoots,    \* bound: root mandates issued
  MaxMandates, \* bound: rows in the table
  Horizon      \* bound: the last instant of the clock

Types == {"CREATE_ORDER", "CAPTURE_PAYMENT", "CREATE_REFUND",
          "CREATE_PAYMENT_LINK", "CANCEL_PAYMENT_LINK"}
AllCalls == {"delegate", "cascade", "activate", "mcp", "request", "approve", "reject", "webhook"}
Instants == 0..Horizon
Terms == [limit : Nat \ {0}, cap : Nat \ {0}, types : SUBSET Types, until : Nat,
          threshold : Nat, currency : STRING]

ASSUME TreeConstants ==
  /\ RootTerms \subseteq Terms /\ ChildTerms \subseteq Terms
  /\ \A op \in Requests : op.amount \in Nat \ {0} /\ op.type \in Types /\ ~op.approved
  /\ Calls \subseteq AllCalls
  /\ MaxDepth \in Nat /\ MaxRoots \in Nat /\ MaxMandates \in Nat /\ Horizon \in Nat

(* An operation charged to a mandate: none with its idempotency key, one    *)
(* that waits for a review, one whose budget is reserved, or a closed one. *)
Stages == {"none", "waiting", "open", "closed"}

VARIABLES
  rows,       \* the committed mandates, in the order of their insertion
  work,       \* what each session is doing
  now,        \* the clock
  overlapped  \* history: two of the sessions were open at the same time

vars == <<rows, work, now, overlapped>>

Ids == 1..Len(rows)

(* 0 stands for no mandate, <<>> for no record. *)
NoWork == [call |-> "none", step |-> "idle", id |-> 0, target |-> "ACTIVE",
           todo |-> {}, visited |-> {}, writes |-> {}, view |-> <<>>, want |-> <<>>]

Step(s) == work[s].step
Id(s) == work[s].id

(* Each mandate and those above it, up to the root. *)
Lines(table) ==
  LET line[i \in 0..Len(table)] == IF i = 0 THEN {} ELSE {i} \cup line[table[i].parent]
  IN  line
LineOf(i) == Lines(rows)[i]
Ancestors(i) == LineOf(i) \ {i}
Children(i) == {j \in Ids : rows[j].parent = i}
------------------------------------------------------------------------------
TypeOK ==
  /\ \A i \in Ids :
       /\ rows[i].status \in MandateStatus
       /\ rows[i].parent \in 0..(i - 1)
       /\ rows[i].depth = Cardinality(Ancestors(i)) /\ rows[i].depth <= MaxDepth
       /\ rows[i].used \in Nat /\ rows[i].allocated \in Nat /\ rows[i].late \in Nat
       /\ rows[i].ops \in [Requests -> Stages] /\ rows[i].asked \subseteq Requests
  /\ \A s \in Sessions : Id(s) \in 0..Len(rows) /\ work[s].todo \subseteq Ids
  /\ now \in Instants /\ overlapped \in BOOLEAN

Init ==
  /\ rows = <<>>
  /\ work = [s \in Sessions |-> NoWork]
  /\ now = 0
  /\ overlapped = FALSE
------------------------------------------------------------------------------
Begin(s, job) ==
  /\ job.call \in Calls
  /\ Step(s) = "idle"
  /\ work' = [work EXCEPT ![s] = job]
  /\ overlapped' = (overlapped \/ \E t \in Sessions \ {s} : Step(t) # "idle")
  /\ UNCHANGED now

End(s) == work' = [work EXCEPT ![s] = NoWork] /\ UNCHANGED <<now, overlapped>>

Goto(s, step) == work' = [work EXCEPT ![s].step = step]

(* Mutation: the parent is selected without FOR UPDATE. *)
NeverLocked(i, others) == TRUE

(* No delegation by the others holds the row, FOR UPDATE until its COMMIT. *)
RowFree(i, others) == \A t \in others : work[t].call # "delegate" \/ Id(t) # i
------------------------------------------------------------------------------
(* POST /mandates and POST /mandates/{id}/delegate.                        *)

(* valid_from is the instant of the INSERT, which is never in the future.   *)
(* Two columns are history: asked, the operations that were ever stored for *)
(* a review, and late, what captures added that found nothing reserved.    *)
NewRow(terms, parent, depth) ==
  [parent |-> parent, depth |-> depth, status |-> "ACTIVE", currency |-> terms.currency,
   limit |-> terms.limit, cap |-> terms.cap, types |-> terms.types, from |-> 0,
   until |-> terms.until, threshold |-> terms.threshold,
   used |-> 0, allocated |-> 0,
   ops |-> [op \in Requests |-> "none"], asked |-> {}, late |-> 0]

(* A root mandate is one INSERT that reads no other mandate. *)
CreateMandate(terms) ==
  /\ Cardinality(Children(0)) < MaxRoots
  /\ rows' = Append(rows, NewRow(terms, 0, 0))
  /\ UNCHANGED <<work, now, overlapped>>

(* Mutation: a delegated mandate is as deep as its parent. *)
SameDepth(m) == m.depth

ChildDepth(m) == m.depth + 1

(* The budget of m that is neither used nor given to its children. *)
Available(m) == Max({0, m.limit - (m.used + m.allocated)})

(* _validate_delegation_invariants.  The empty currency is the parent's. *)
ValidDelegation(m, terms) ==
  /\ m.depth < MaxDepth
  /\ terms.currency \in {"", m.currency}
  /\ terms.cap <= m.cap
  /\ m.types # {} => terms.types \subseteq m.types
  /\ terms.until <= m.until
  /\ terms.limit <= Available(m)

(* The parent is locked, read and found fit for the terms; a refusal        *)
(* changes nothing.                                                        *)
DelegateOpen(s, p, terms) ==
  /\ Len(rows) < MaxMandates
  /\ RowFree(p, Sessions \ {s})
  /\ rows[p].status = "ACTIVE" /\ ValidDelegation(rows[p], terms)
  /\ Begin(s, [NoWork EXCEPT !.call = "delegate", !.step = "commit", !.id = p,
                             !.view = rows[p], !.want = terms])
  /\ UNCHANGED rows

(* Mutation: an empty whitelist is stored as it was asked for. *)
ChildTermsAsAsked(m, terms) == [terms EXCEPT !.currency = m.currency]

(* What the parent's terms fill in. *)
GrantedTerms(m, terms) ==
  [terms EXCEPT !.currency = m.currency,
                !.types = IF @ = {} THEN m.types ELSE @,
                !.threshold = IF @ = 0 THEN m.threshold ELSE @]

(* The new allocation is computed from the row that was read. *)
DelegateCommit(s) ==
  LET parent == work[s].view
      terms == GrantedTerms(parent, work[s].want)
  IN
  /\ work[s].call = "delegate" /\ Step(s) = "commit" /\ Len(rows) < MaxMandates
  /\ rows' = Append([rows EXCEPT ![Id(s)].allocated = parent.allocated + terms.limit],
                    NewRow(terms, Id(s), ChildDepth(parent)))
  /\ End(s)
------------------------------------------------------------------------------
(* POST /mandates/{id}/suspend and /revoke: _cascade_mandate_status.  The   *)
(* tree is read row by row without a lock; an unchanged status is not       *)
(* written.                                                                *)

Visit(job, i) ==
  [job EXCEPT !.id = i, !.step = "list", !.todo = @ \ {i}, !.visited = @ \cup {i},
              !.writes = IF rows[i].status # job.target THEN @ \cup {i} ELSE @]

CascadeOpen(s, i, target) ==
  /\ Begin(s, Visit([NoWork EXCEPT !.call = "cascade", !.target = target], i))
  /\ UNCHANGED rows

(* Mutation: the children of the children are not queued. *)
CascadeListOnce(s) ==
  LET todo == IF Cardinality(work[s].visited) > 1 THEN work[s].todo
              ELSE work[s].todo \cup Children(Id(s))
  IN
  /\ Step(s) = "list"
  /\ work' = [work EXCEPT ![s].todo = todo, ![s].step = IF todo = {} THEN "commit" ELSE "visit"]
  /\ UNCHANGED <<rows, now, overlapped>>

(* The committed children of the visited mandate join the queue. *)
CascadeList(s) ==
  LET todo == work[s].todo \cup Children(Id(s)) IN
  /\ Step(s) = "list"
  /\ work' = [work EXCEPT ![s].todo = todo, ![s].step = IF todo = {} THEN "commit" ELSE "visit"]
  /\ UNCHANGED <<rows, now, overlapped>>

CascadeVisit(s) ==
  /\ Step(s) = "visit"
  /\ \E i \in work[s].todo : work' = [work EXCEPT ![s] = Visit(@, i)]
  /\ UNCHANGED <<rows, now, overlapped>>

(* POST /mandates/{id}/activate: any status gives way to ACTIVE, unless the *)
(* parent is found not to be.                                              *)
ActivateOpen(s, i) ==
  /\ Begin(s, [NoWork EXCEPT !.call = "activate", !.id = i, !.visited = {i},
                 !.writes = IF rows[i].status # "ACTIVE" THEN {i} ELSE {},
                 !.step = IF rows[i].parent = 0 THEN "commit" ELSE "parent"])
  /\ UNCHANGED rows

ActivateCheck(s) ==
  /\ Step(s) = "parent"
  /\ IF rows[rows[Id(s)].parent].status = "ACTIVE"
     THEN Goto(s, "commit") /\ UNCHANGED <<now, overlapped>>
     ELSE End(s)
  /\ UNCHANGED rows

(* The COMMIT of a cascade or an activation writes every visited row. *)
StatusCommit(s) ==
  /\ work[s].call \in {"cascade", "activate"} /\ Step(s) = "commit"
  /\ \A i \in work[s].visited : RowFree(i, Sessions \ {s})
  /\ rows' = [i \in Ids |-> IF i \in work[s].writes
                            THEN [rows[i] EXCEPT !.status = work[s].target] ELSE rows[i]]
  /\ End(s)
------------------------------------------------------------------------------
(* Charges.  The request pipeline evaluates the policy without a database   *)
(* session in its context and reserves with a conditional UPDATE; a request *)
(* that needs a review waits for a principal.                              *)

(* Mutation: the reservation trusts the policy. *)
FitsAlways(i, op) == TRUE

Fits(i, op) == rows[i].used + op.amount <= rows[i].limit

(* The operation goes on to a stage, and the mandate is charged for it. *)
Stage(i, op, stage, amount) ==
  rows' = [rows EXCEPT ![i].ops = [@ EXCEPT ![op] = stage], ![i].used = @ + amount]

(* The operation ends, and its amount is given back: OperationPipeline has  *)
(* what comes of a reservation that is released twice, where reserved_spend *)
(* falls below zero; here no release takes more than there is.             *)
GiveBack(i, op) == op.amount <= rows[i].used /\ Stage(i, op, "closed", -op.amount)

(* The request is decided on the copy view of the locked row i; a known     *)
(* idempotency key is answered with the row it has, and what is denied      *)
(* charges nothing.                                                        *)
Decide(i, view, op, agentStatus, hasQuota) ==
  LET decision == Evaluate(agentStatus, view, op, now, {}, FALSE, hasQuota) IN
  /\ rows[i].ops[op] = "none"
  /\ \/ decision = "ALLOW" /\ Fits(i, op) /\ Stage(i, op, "open", op.amount)
     \/ /\ decision = "REQUIRE_HUMAN_REVIEW"
        /\ rows' = [rows EXCEPT ![i].ops = [@ EXCEPT ![op] = "waiting"],
                                ![i].asked = @ \cup {op}]

(* POST /operations: the row is read by the statement that locks it. *)
Charge(i, op) ==
  /\ "request" \in Calls
  /\ RowFree(i, Sessions)
  /\ \E agentStatus \in AgentStatus, hasQuota \in BOOLEAN :
       Decide(i, rows[i], op, agentStatus, hasQuota)
  /\ UNCHANGED <<work, now, overlapped>>

(* The MCP gateway selects an ACTIVE mandate of the agent first, and the    *)
(* session keeps that copy when the row is locked later.                   *)
McpOpen(s, i, op) ==
  /\ rows[i].status = "ACTIVE"
  /\ Begin(s, [NoWork EXCEPT !.call = "mcp", !.step = "charge", !.id = i,
                             !.view = rows[i], !.want = op])
  /\ UNCHANGED rows

McpCharge(s) ==
  /\ Step(s) = "charge" /\ RowFree(Id(s), Sessions)
  /\ \/ \E agentStatus \in AgentStatus, hasQuota \in BOOLEAN :
          Decide(Id(s), work[s].view, work[s].want, agentStatus, hasQuota)
     \/ UNCHANGED rows   \* denied, out of budget, or a known key
  /\ End(s)

(* A handler about operation op of mandate i reads its status first, without *)
(* a lock, and acts on it later.                                           *)
ReadStage(s, call, i, op, stage) ==
  /\ rows[i].ops[op] = stage
  /\ Begin(s, [NoWork EXCEPT !.call = call, !.step = "act", !.id = i, !.want = op])
  /\ UNCHANGED rows

(* POST /operations/{id}/approve and /reject. *)
ReviewOpen(s, i, op) == \E call \in {"approve", "reject"} : ReadStage(s, call, i, op, "waiting")

(* The budget is the only thing an approval still looks at, whatever has    *)
(* become of the operation meanwhile.                                      *)
ApproveCommit(s) ==
  LET op == work[s].want IN
  /\ work[s].call = "approve" /\ Step(s) = "act" /\ RowFree(Id(s), Sessions)
  /\ IF Fits(Id(s), op) THEN Stage(Id(s), op, "open", op.amount)
                        ELSE Stage(Id(s), op, "closed", 0)
  /\ End(s)

RejectCommit(s) ==
  /\ work[s].call = "reject" /\ Step(s) = "act"
  /\ Stage(Id(s), work[s].want, "closed", 0)
  /\ End(s)

(* The gateway reports a payment of an open operation.  Whether the amount  *)
(* is seen reserved depends on settlements that OperationPipeline has as    *)
(* steps of its own; here it may be or not.                                *)
WebhookOpen(s, i, op) == ReadStage(s, "webhook", i, op, "open")

(* A capture moves what is reserved to the spend, which changes nothing     *)
(* here, or, when it finds nothing reserved, is added to the spend without *)
(* a look at the limit; a failed payment releases what it sees reserved.   *)
WebhookCommit(s) ==
  LET i == Id(s)
      op == work[s].want
  IN
  /\ work[s].call = "webhook" /\ Step(s) = "act" /\ RowFree(i, Sessions)
  /\ \/ Stage(i, op, "closed", 0)
     \/ GiveBack(i, op)
     \/ rows' = [rows EXCEPT ![i].ops = [@ EXCEPT ![op] = "closed"],
                             ![i].used = @ + op.amount, ![i].late = @ + op.amount]
  /\ End(s)

(* The dispatch of an operation or the sweep, which holds the row of the    *)
(* operation, settles its reservation or releases it.                      *)
Settle(i, op) ==
  /\ rows[i].ops[op] = "open" /\ RowFree(i, Sessions)
  /\ Stage(i, op, "closed", 0) \/ GiveBack(i, op)
  /\ UNCHANGED <<work, now, overlapped>>

Tick == now < Horizon /\ now' = now + 1 /\ UNCHANGED <<rows, work, overlapped>>
------------------------------------------------------------------------------
Next ==
  \/ \E terms \in RootTerms : CreateMandate(terms)
  \/ \E s \in Sessions :
       \/ \E i \in Ids :
            \/ \E terms \in ChildTerms : DelegateOpen(s, i, terms)
            \/ \E target \in {"SUSPENDED", "REVOKED"} : CascadeOpen(s, i, target)
            \/ ActivateOpen(s, i)
            \/ \E op \in Requests : \/ McpOpen(s, i, op) \/ ReviewOpen(s, i, op)
                                    \/ WebhookOpen(s, i, op)
       \/ DelegateCommit(s) \/ CascadeList(s) \/ CascadeVisit(s)
       \/ ActivateCheck(s) \/ StatusCommit(s)
       \/ McpCharge(s) \/ ApproveCommit(s) \/ RejectCommit(s) \/ WebhookCommit(s)
  \/ \E i \in Ids, op \in Requests : Charge(i, op) \/ Settle(i, op)
  \/ Tick

Spec == Init /\ [][Next]_vars
------------------------------------------------------------------------------
(* The currency units given to the children of i, as a set: a sum that      *)
(* needs no recursion.                                                     *)
Delegated(i) == UNION {{j} \X (1..rows[j].limit) : j \in Children(i)}

(* What a mandate records as delegated is what its children were given, and *)
(* no more than it has, however delegations from it interleave              *)
(* (mandates.py: "Atomically reserve budget from parent").                 *)
AllocationIsSumOfChildren ==
  \A i \in Ids :
    /\ rows[i].allocated = Cardinality(Delegated(i))
    /\ rows[i].allocated <= rows[i].limit

(* The rules that the terms of a mandate alone decide. *)
Forbids(m, op, instant) ==
  \/ "DENY" \in {CurrencyMatchRule(m, op), AllowedOperationTypeRule(m, op),
                 PerTransactionLimitRule(m, op)}
  \/ op.amount > m.limit
  \/ instant > m.until

(* Strict non-escalation: what any ancestor's terms forbid, the terms of a  *)
(* delegated mandate forbid too, at every instant (mandates.py,             *)
(* delegate_child_mandate).                                                *)
NeverWiderThanAncestors ==
  \A i \in Ids : \A j \in Ancestors(i) : \A op \in Requests, instant \in Instants :
    Forbids(rows[j], op, instant) => Forbids(rows[i], op, instant)

(* As long as handlers that change the tree run one at a time, the dry run, *)
(* which looks at the ancestors, and the request pipeline, which does not,  *)
(* decide alike: the cascades keep every mandate below an inactive one      *)
(* inactive (policies.py and operations.py; engine.py, the rule on the      *)
(* delegation hierarchy).                                                  *)
DryRunAgrees ==
  ~overlapped =>
    \A i \in Ids, op \in Requests, agentStatus \in AgentStatus, hasQuota \in BOOLEAN :
      Evaluate(agentStatus, rows[i], op, now,
               {rows[j].status : j \in Ancestors(i)}, TRUE, hasQuota)
        = Evaluate(agentStatus, rows[i], op, now, {}, FALSE, hasQuota)

(* A mandate is charged within its limit, and so a delegated subtree within *)
(* what was allocated to it, though the policy may decide on a copy of the *)
(* row that other charges have overtaken and two approvals may charge one  *)
(* operation: nothing but captures whose reservation was gone goes beyond  *)
(* (mcp_gateway.py, operations.py; webhooks.py, the else branch).          *)
UsedWithinLimit == \A i \in Ids : rows[i].used <= rows[i].limit + rows[i].late

(* What a mandate is charged in one step is below its review threshold or   *)
(* the amount of an operation that was stored for a principal to review,   *)
(* though reviews and payment events act on a status that others have left *)
(* (engine.py, rule on the threshold; operations.py, approval).            *)
LargeChargesAreReviewed ==
  [][\A i \in Ids :
       LET charge == rows'[i].used - rows[i].used
       IN  rows[i].threshold # 0 /\ charge >= rows[i].threshold
             => \E op \in rows[i].asked : op.amount = charge]_vars

(* The budget reserved from a parent for its children stays out of the      *)
(* parent's own reach (mandates.py: "Atomically reserve budget from parent  *)
(* for this child delegation tree").                                       *)
DelegatedBudgetIsReserved == \A i \in Ids : rows[i].used + rows[i].allocated <= rows[i].limit
==============================================================================
