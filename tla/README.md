# A verification of the Mandate control plane

Mandate lets AI agents spend money through Razorpay under *mandates*: budgets with
rules, delegated in trees. An agent requests a *financial operation*; a
deterministic policy decides on it, its amount is reserved on the mandate's row, and
only then is the gateway called. Webhooks, the checkout page and a reconciliation
worker later turn the reservation into spend or give it back. The handlers run
concurrently on PostgreSQL under READ COMMITTED. These modules model that core from the
source, TLC checks small instances of it, and TLAPS proves part of it for every
instance.

## Inventory

| Part | Source | State | Operations | What is hard | What makes it correct |
|---|---|---|---|---|---|
| Operation pipeline | `apps/api/routes/operations.py`, `packages/core/concurrency.py` | `financial_operations`, `transactions`, the mandate's `reserved_spend` and `current_aggregate_spend` | request, approve, reject, verify-payment | unlocked reads before locked writes; the gateway call before the COMMIT; retries | no dispatch without a reservation; the limit; one commit or one release; one object per key |
| Operation states | `packages/core/state_machine.py` | `status` | transition matrix | consulted by one handler only | terminal states are final |
| Webhooks | `apps/api/routes/webhooks.py` | `webhook_events` and all of the above | order.paid, payment.captured, payment.failed, refund.processed | repeated, late, lost, concurrent deliveries | the first verdict stays; dead letters only for late captures |
| Worker | `services/worker/main.py`, embedded task in `apps/api/main.py` | all of the above | sweep | two sweeps, races with webhooks, deadlocks | every reservation ends, once |
| Policy engine | `packages/policy/engine.py` | none | nine rules, evaluation | context without a database; an older copy of the row | same decision by dry run and pipeline |
| Mandates | `apps/api/routes/mandates.py` | `mandates` | issue, delegate, suspend, revoke, activate | cascades read the tree without locks | allocations add up; no escalation; no mandate outlives its parent |
| MCP gateway | `apps/api/routes/mcp_gateway.py`, `packages/mcp/catalog.py` | none of its own; reads `agents`, `mandates` | tools/list, tools/call | a session that keeps its first copies; reviewers and webhooks change an operation while its answer is built from older details; answers lost | what was told to be denied is never dispatched; only tools the policy admits are listed |
| Agents, authentication | `apps/api/routes/agents.py`, `packages/shared/auth.py` | `agents` | register, change status, resolve a caller | status changes between a look-up and its use | a key in any of its forms identifies its own agent, and an id header agrees with it |
| Rate limiter | `packages/shared/rate_limiter.py` | a sorted set in Redis, a bucket per process | check | old clocks, two calls per rejection, Redis failing in mid-window | no more than the limit per window |
| Razorpay client | `packages/razorpay/client.py` | attempts of a call; the gateway's objects | nine endpoints | late, lost and garbled answers; retries | a creation is carried out at most once, an object is returned only after it; calls end |
| Audit against the gateway | `services/worker/reconciliation.py` | `reconciliation_reports` | one walk over the ledger | statuses are older than the orders they are compared with; fetches fail | what was missed is reported |
| Chat, coordinator | `apps/api/routes/agent_chat.py`, `packages/agents/*` | `agent_execution_traces`, a reissued mandate | a turn, a procurement | several commits in a turn that may fail after each | operations are traced; no authority outlives a failed turn; questions move no money |
| Others | demo, evaluation, telemetry, audit trail, web console | audit rows | clients and reports | - | - |

The parts share the database only; the MCP gateway, the chat and the coordinator call
`request_financial_operation` as a function within their own session.
The event bus has no subscriber in the services. `PROJECT.json` lists every part with
its status, and under `hazards` what is hard to test in it, at its line.

## Modules

| Module | What it is |
|---|---|
| `OperationStates` | the statuses and the transition matrix |
| `BudgetLedger` | abstract: operations reserved, then committed once or released once, within the limit |
| `OperationPipeline` | the detailed system: sessions, row locks, handlers, worker, gateway, payer, clock |
| `OperationProperties` | its properties, fairness, and the refinement of `BudgetLedger` |
| `MCOperations` | instances of it |
| `PolicyEngine` | one operator per rule, and `Evaluate` |
| `MandateTree` | the delegation tree, cascades, and charges under the policy, with their properties |
| `MCTree` | instances of it |
| `RateLimiter`, `MCRateLimiter` | the limiter, its callers, Redis and the processes' memories, with their properties; an instance |
| `GatewayCall` | abstract: what the pipeline relies on in a call that creates something |
| `GatewayClient` | the client's attempts, the requests and answers in transit, and the refinement of `GatewayCall` |
| `GatewayAudit`, `MCAudit` | the audit beside requests and payments, all through `GatewayClient`; an instance |
| `RefundWebhooks`, `MCRefunds` | refunds and the events that report them; an instance |
| `ToolRegistry` | the catalog of tools and its filter |
| `McpGateway`, `MCMcp` | JSON-RPC calls, authentication, agents and mandates that change; an instance |
| `IntentParser` | the mock model: cues and product words of a prompt, the branches that are tried, the calls that come out |
| `AgentChat`, `MCChat` | turns of the chat, reissued mandates, traces, the coordinator; an instance |
| `BudgetLedgerProofs`, `OperationProofs`, `RateLimiterProofs`, `GatewayClientProofs` (with the audit's), `MandateTreeProofs`, `RefundProofs`, `McpProofs`, `ChatProofs` | theorems |

`OperationPipeline` has the steps of one operation. The modules of its callers,
`McpGateway` and `AgentChat`, take an operation as one step with the outcomes the
pipeline can leave it in; `PolicyEngine`'s rules bound those outcomes. `GatewayCall` is
the contract between the pipeline and the client: `CreateAtGateway` of the pipeline
carries a call out at most once and goes on with an object only if it did, and
`GatewayClient` is shown to keep to that over its retries.

### How the pipeline corresponds to the code

A *session* is one SQLAlchemy session serving one call. `job[s]` is where its handler
stands, `seen[s]` what it has read, `dirty[s]` what it has written and not committed,
`locks[s]` the row locks it holds. The session factory turns autoflush off, so an ORM
assignment to a status reaches the database at the COMMIT (`Commit`), an
explicit `UPDATE` at its place (`UpdateMandate`, `SweepSettle`, and the reservation).
Steps are split where another session can come between: at every read of a committed
row that is used later, every statement that waits for a lock, every call of the
gateway. Runs of statements that nobody can tell apart are one step.

- *Request*: `RequestOpen` (idempotency SELECT), `RequestDecide` (SELECT FOR UPDATE,
  INSERT, policy, `reserve_budget`), `Dispatch...`, `Commit`. `RequestDuplicate` is the
  unique key's violation. Through the MCP gateway the session keeps the mandate it
  loaded first, since a locking SELECT does not refresh a loaded object; the
  conditional UPDATE compares the committed columns.
- *Review*: `ApproveOpen`, `ApproveReserve`, `ApproveFlush`, dispatch; or `RejectOpen`.
- *Checkout*: `VerifyOpen`, `UpdateMandate`, `VerifyRow`. All that is tested is the
  signature of the order and the payment that are posted: any paid order will do for any
  operation, whatever its kind or status.
- *Webhooks*: `WebhookOpen`, `WebhookRecord`, `WebhookLookup`, `WebhookMandate`,
  `UpdateMandate`, `Commit`; any order, any number, or never.
- *Worker*: `SweepOpen` locks what is stuck and free (SKIP LOCKED), then for each
  operation `SweepRead` and `SweepSettle`, then one `Commit`. The lock that keeps
  sweeps apart is a lock of the process, and the API embeds a worker of its own, so
  two sweeps may overlap.
- *Failures*: `Crash` rolls a session back at any step; a gateway call may be carried
  out and its answer lost (`timeout`), or refused; fetching an order may fail; one of
  two sessions in a deadlock is aborted (either).

Abstractions: one mandate; amounts are small numbers; the rules on agent, status,
currency, type and rate are one nondeterministic `ruledOut` here (they are
`PolicyEngine`'s subject); `CAPTURE_PAYMENT` and `CANCEL_PAYMENT_LINK`, for which the
dispatcher has no branch, are `BARE`; an order is paid only after the answer that names
it was sent, which follows the COMMIT; a paid link is reported with an order no
transaction names; deliveries carry an `event_id`
(`RefundWebhooks` has those that do not). Age counts from `created_at`, as the
worker's does, so waiting for review counts.

### How the tree corresponds to the code

A row of `rows` is a committed mandate; `used` is `current_aggregate_spend +
reserved_spend`, whose split is the pipeline's subject. `DelegateOpen` locks and
validates the parent, `DelegateCommit` writes the allocation computed from what was
read and inserts the child. A cascade reads the tree row by row without locks
(`CascadeList`, `CascadeVisit`; any order of the queue) and writes, at `StatusCommit`,
the statuses that differed when it read them. `ActivateOpen` and `ActivateCheck` are
the two reads of a reactivation.

Charges are operations with a stage each (`Stages`): none, waiting for a review, open
(reserved) or closed. A `Charge` reads and writes only the row it has locked, so it is
one step; `McpOpen` and `McpCharge` are two, with the older copy. Reviewers and payment
events read the stage without a lock and act on it later: `ReviewOpen` is followed by
`ApproveCommit`, which looks at the budget only, or by `RejectCommit`, and `WebhookOpen`
by `WebhookCommit`. Two approvals of one operation may therefore both charge it. A
capture that does not see its amount reserved is added to the spend without a look at the
limit; the row's history variable `late` adds these up. Whether it sees the reservation
is open here, since `used` is one number. `Settle` stands for the dispatch and the sweep,
which hold the row of the operation. `GiveBack` takes no more than there is: what becomes
of a reservation that is released twice is the pipeline's subject. Checkout verification
takes from one of the two columns what it adds to the other, so it is not a step.

### How the rate limiter corresponds to the code

A check is `Stamp` (the clock is read), then the MULTI/EXEC (`RedisGrants`,
`RedisExceeds`; `RedisAnswerLost` when it was carried out and nobody was told,
`RedisDown` when it was not), then, for a request that exceeds, the ZREM of a second
call (`Withdraw`, `WithdrawFails`). The except branch is `FailClosed` in production and
`LocalGrants` or `LocalDenies` elsewhere, on a bucket from whose head expired members
are popped (`AfterPops`), which out-of-order stamps make different from what a sorted
set keeps (`InWindow`). `Expire` is the key's time to live. `MaxDelay` is the longest a
check may take, which the timeouts of the Redis client bound: what a store admits is
bounded in every window shorter by that much. `Production` is the set of processes
whose environment is production.

### How the client and the audit correspond to the code

A call is a loop of attempts: `Send` puts a request in transit, the gateway may
`Serve` it at any later time or never, and the client waits for that very request until
it takes the answer (`Return`, `RaiseOnBody`) or its timeout fires (`TimeOut`), which
leads to the next attempt or ends the call. Nothing calls `raise_for_status`, so a
status does not matter and only the body does. A mutation behind a failed answer may
have been carried out. Of the bodies only four kinds are told apart.

`GatewayAudit` extends the client. A `Request` commits after its creating call has
returned; `Begin` reads the rows (the join with the transactions, so operations that
asked the gateway for nothing are not among them), and the walk is `Skip`, or `Fetch`
through the client and then `Check` or `CheckFails`, and `Finish`. Meanwhile operations
are requested, paid, settled and grow too old. `due` and `shown` are history: what the
ledger had missed at `Begin`, and which of the client's requests were shown a paid
order, so that a late answer of an earlier attempt is told from that of the attempt the
client returns from. The amount comparison is left out, since an order is created with
its operation's amount.

### How refunds correspond to the code

`RefundAtGateway` and `RefundRecord` are the two sides of a refund by the mandate's own
operation, between which its process may die; a refund at the dashboard has only the
first. A delivery is `DeliverOpen` (the SELECT), `DeliverFlush` (the INSERT, which fails
if another delivery has stored the event, or the UPDATE, which waits for it),
`DeliverApply` and `DeliverCommit`. `scalar_one_or_none` raises on two transactions
(`Ambiguous`); the except branch then commits what the session holds. The spend may
become negative, as in the code. An event without an `event_id` is new at each delivery.

### How the MCP gateway corresponds to the code

A call is `Authenticate` (key and id headers, the agent's status), `SelectMandate` (the
newest active mandate; tools/list ends here with `Filtered`), `Dispatch` (parameters,
read-only tools, what no branch knows), `Request` (the pipeline, in one step) and
`Report`. The session keeps the agent and the mandate it read first, so what changes in
between is not seen. The client may lose any answer.

A key has a form (`KeyForms`): the raw key, the stored hash of it and the agent's id all
authenticate, in every environment. `Production` is FALSE in the run because whatever
authenticates in production does so elsewhere too, and ids alone only elsewhere. Of an
agent or a mandate only "active or not" matters, so `SUSPENDED` stands for `REVOKED` too.

Operations stay alive after `Request`: reviewers read them waiting (`ReviewOpen`) and
commit whatever they have become (`ReviewCommit`), webhooks and sweeps settle what was
dispatched (`Settle`), and a checkout may be verified for any of them (`VerifyPayment`),
before the answer is built as well as after it. `Report` builds it from the policy's
details (`Verdict`), which none of these touches, and not from the status.

### How the chat corresponds to the code

A prompt is the set of cues in it, the product words it names, a quantity and an amount.
The branches of the parser look for different words: `AskWords` are those the answers
about products know, `RefundWords` those of refunds, and `BuyWords`, the widest, those
of purchases. `Intents` is the order of the branches, `ParsedCalls` the calls. With the
hosted model any of `ModelCalls` may come instead. A turn is `Chat` (the mandate, or a
reissued one that is only flushed), `FirstTurn`, one `CallLocalTool` or `CallTool` per
call, `Answer`. Each financial call commits the session, and with it the traces of the
calls before it; `Fail` at any step rolls the rest back. The coordinator's `Collaborate`
stores a risk verdict that decides nothing. Amounts are whole rupees, the wording of
replies is left out.

## Runs

"One session" means handlers one after the other. Names of bounds: `MaxCalls` calls
per operation (insertions, in the limiter), `MaxDeliveries` recorded deliveries per
event, `MaxMandates` rows, `MaxRoots` roots, `Horizon` and `MaxTime` instants,
`MaxSends` JSON-RPC calls, `MaxTurns` turns and procurements; `begun` allows one audit.

| Run | Instance | Shows |
|---|---|---|
| `serial` | one session, an order and a reviewed refund, all faults, 4 deliveries | the pipeline implements `BudgetLedger`; terminal statuses are final; nothing but a late capture becomes a dead letter |
| `recovery` | two sessions, timeouts and refusals, two sweeps | the ledger again, one gateway object per key, every reservation ends |
| `races` | two sessions, every handler, an order with review and up to four calls, a refund, two deliveries | dispatch is backed by a reservation, budget grows within the limit, the verdict of a first delivery is not revised, every handler ends |
| `tree` | two sessions, three mandates in up to three generations | allocations add up, children never wider than ancestors, dry run and pipeline agree |
| `charges` | one mandate, two sessions: charges, MCP copies, reviewers and payment events that act on stages others have left | limits hold but for what late captures add, large charges are stored for a review first |
| `quota` | three callers, one process in production and one not, every fault of Redis, limit 1 | each store keeps the limit in every window; together they exceed it only by what a process outside production falls back to |
| `audit` | an order, a payment link and a capture, three attempts per fetch | missed webhooks are reported unless their fetch was given up; the client implements `GatewayCall`; its calls end |
| `refunds` | three refunds of two payments, two sessions, three deliveries each | credited once; what is given up is not credited |
| `tool_calls` | two agents, three mandates, 13 calls, two sessions | what was told to be denied is never dispatched, before the answer or after; listed tools pass the policy |
| `chat` | two turns at once, a granted mandate, procurements within and above its cap | at most the last operation of a turn is untraced; reissued mandates serve; risky orders are not executed; questions lead to no call that moves funds |
| `overspend`, `tree_overspend` | smallest instances | what a document or comment promises and the code does not do; see `findings` |

Why the bounds suffice: each hazard needs at most two handlers at once on one
operation and a second operation to compete for the limit; three dead-letter attempts
need three deliveries that reach the verdict, and a fourth to be refused; a cascade that
misses someone needs three generations, and two delegations that collide need two
siblings. In the passing runs the limits are chosen so that the operations do not always
fit together. Amounts 2 and 1 tell sums apart. In `quota` the clock reaches beyond the
window and the delay, so members leave it, and three insertions exceed what one store
may admit and reach what two may. `audit` has the three attempts of the code. In
`tool_calls` two calls at once give two operations whose reviews, settlements and
answers interleave freely. In `chat` two turns are enough for one to commit between two
reads of the other; the mandate of the chat is granted, revoked and reissued
within the bound, and the prompts put every kind of question beside every kind of
mutation, without a product, with one by a word that every branch knows and with one by a
word that only purchases know: the parser stops at the first branch that fits.
Deadlock is not checked, because the system may really stop: when all calls are made
nothing has to happen.

Which calls a passing run includes says where a property holds. `ImplementsLedger` holds
for serial handlers without checkout verification, and under concurrency for requests
and sweeps; webhooks that run at the same time, verification and racing reviews break
it. `OneObjectPerKey` is checked without crashes; see the hazards. The theorems state
these conditions as assumptions (`Isolated`, and no "crash" among the faults).
`FirstVerdictIsFinal` is about events whose first recorded delivery was processed: for
an event that failed before, two deliveries that read the row at the same time may both
settle it, since the read takes no lock.

### Divergences met while modelling

Two disagreements of the code with its documents are runs that expect a violation
(`overspend`, `tree_overspend`). The following were met as well. The models do what the
code does; the passing properties are stated so that they do not claim the contrary.
Paths are under `src/`.

- Pipeline: `verify_payment` commits whatever the status (`operations.py:430`); a
  rejection overwrites an approval that was carried out (`operations.py:358`); a timeout
  fails an operation at once, where `client.py:184` leaves it to the worker
  (`operations.py:306`); a crash before the COMMIT lets the key be used again
  (`operations.py:227`); an approval does not look at the mandate's status
  (`operations.py:376`); two approvals of one operation charge it twice, since its status
  is read without a lock (`operations.py:347`); a verification is not tied to the operation
  it is posted to, nor to its order (`operations.py:418`).
- Webhooks and worker: a late payment.failed releases what was paid (`webhooks.py:238`);
  a payment link's reservation never ends (`services/worker/main.py:119`); two
  transactions of one operation stop the sweep (`services/worker/main.py:81`); a refund
  reported before its capture is dropped (`webhooks.py:282`), the mandate's own refund
  makes its event a dead letter (`webhooks.py:280`), and an event without an id is
  credited at each delivery (`webhooks.py:80`); a capture that finds nothing reserved
  adds to the spend without a look at the limit (`webhooks.py:197`).
- Mandates: a revoked mandate can be activated (`mandates.py:295`); a child may have a
  higher review threshold than its parent (`mandates.py:198`).
- Limiter and client: each process that falls back admits the limit anew
  (`rate_limiter.py:132`); a request that is rejected counts until it is withdrawn
  (`rate_limiter.py:82`); a dry run uses up quota (`policies.py:146`); an error status is
  never retried (`client.py:146`).
- MCP gateway: what waits for review or failed is reported as executed
  (`mcp_gateway.py:337`); an agent suspended after authentication is served
  (`operations.py:117`); a repeated call gets a fresh idempotency key
  (`mcp_gateway.py:299`); a listed tool without a branch is an internal error
  (`mcp_gateway.py:294`); an operation that a reviewer rejects, or cannot reserve, before
  the answer is built is answered from the details of the policy's decision as executed,
  with the status `POLICY_REJECTED` (`operations.py:357`, `mcp_gateway.py:315`); the key
  header accepts the stored hash and the id of an agent besides its key (`auth.py:53`).
- Chat: the last trace of a failing turn is lost (`runner.py:150`); a revoked mandate is
  reissued, and by two messages at once twice (`agent_chat.py:118`, `:94`); a reply
  tells of the last call only (`adapter.py:484`); a refund without an amount is one of
  Rs. 500 (`runner.py:341`); quantities are searched for as substrings
  (`adapter.py:419`); a question about a product that only the purchase knows by that
  word becomes a purchase if a cue of one is beside it (`adapter.py:290`, `:421`).
- Audit: an operation settled while it runs is reported as missed
  (`reconciliation.py:86`); orphan reservations are not looked at
  (`reconciliation.py:78`).

### Fairness

`FairSpec` assumes strong fairness of each session's steps: PostgreSQL queues
the waiters of a row lock, so one whose lock is free again and again gets it; weak
fairness of `SweepOpen`, since `run_worker_loop` sweeps for ever; and of `Aging`, since
time passes. Calls, payments, deliveries and crashes are not fair.

`CallsGoOn` of the client assumes weak fairness of `TimeOut` and `Resume`, the two
things the client's own event loop does after a delay of its own. The gateway is not
fair: it may never serve a request. The other modules state no liveness.

## Proofs

TLAPS proves, for every value of the constants that satisfies the named assumptions
(`PipelineConstants`, `TreeConstants`, `LimiterConstants`, `ClientConstants`,
`AuditAssumption`, `RefundConstants`, `McpConstants` and `ChatConstants`, which the runs
evaluate; `LedgerConstants`, stated in the theorem). Every invariant that a passing run
checks is stated by a theorem, and every property without fairness.

- `LedgerSafe`: the abstract ledger keeps its columns equal to the sums over its
  operations and within the limit. The sum is the cardinality of a set of currency
  units, so it needs no recursion; disjointness of the phases carries the argument.
- `TypeCorrect`: `TypeOK` of the pipeline. It is strengthened by `JobsNameOps`: a
  session past "idle" that writes rows has an operation to name.
- `DispatchBacked` and `GrowthWithinLimit`: the safety of reservations, for any number
  of sessions, crashes and interleavings. The properties alone are not inductive: a
  session about to dispatch must have a grant nobody else will use, and what it added
  must still fit the row it is about to write. `ReservationInv` adds that at most one
  session holds the mandate's lock; a session between reservation and dispatch holds it,
  with an unused grant; uncommitted budget is written under the lock; and what is
  pending still fits the committed row. The lock is why no other session disturbs the
  last two.
- `OneObject` and `DenialWithoutEffects`: the idempotency keys, for any interleaving of
  handlers and any fault but a crash. `KeyInv` says that a request dispatches only under
  the mandate's lock, for a key without a row and without an object (`CreatesOnce`); and
  that an object without a row belongs to a request that is about to commit one
  (`AtMostOne`). The theorems assume `"crash" \notin Faults` because the code needs it: a
  process that dies between the gateway's answer and the COMMIT leaves an object whose
  key is free (see the divergences).
- `LedgerImplemented`, `TerminalStaysFinal`, `DeadLettersAreLateCaptures` and
  `SpendStaysWithinLimit`: what holds of isolated handlers, with crashes, timeouts,
  refusals and events lost, repeated and reordered. `Isolated` excludes
  `verify_payment`, which overwrites any status, and asks for `Alone` (one session) or
  `RowLocked` (requests, rejections and sweeps, any number of them beside each other);
  beyond it TLC has the counterexamples the hazards name. `IsolationInv` is one idea for
  every handler: what it decided on is still so when it commits (`StillTrue`), by a lock
  it holds or because it is alone (`Guarded`), and the changes it makes to the columns
  are the amounts of the rows it has written (`Balanced`). Each COMMIT is then one step
  of `BudgetLedger` and every other step a stutter; the spending limit follows from the
  ledger's own invariant.
- `FirstVerdictStands`: `FirstVerdictIsFinal`, for any number of sessions, deliveries and
  faults, isolated or not. `DeliveryInv` says that two handlers never hold one event at
  the same time, by the unique `event_id` and the row lock of the flush (`DeliveriesApart`);
  that one which found no row still finds none when it holds it; and that one which found
  a row found it past a first attempt that processed nothing (`DeliveryOK`).
- `TreeTypeOK`, `TreeNeverWider`, `TreeUsedWithinLimit`, `TreeChargesReviewed` and
  `TreeDryRunAgrees`: the delegation tree, for any table, depth and terms. `Sound` says
  that every row fits below its own parent's: a parent issued before it, a depth one
  more, terms no wider; and that its charges are `Within`: beyond the limit by no more
  than late captures added, and no large operation with a stage that was not stored for
  a review. A handler that acts on an operation knows one that had a stage when it
  looked, and a row never forgets one (`Remembers`), so that a later approval, though it
  may be the second, charges an amount that was asked for. Every step of a charge
  changes one row in such a way (`ChargedRow`), which is all the rest of the argument
  needs. `TreeInv` adds that an open handler's copy still has the row's terms, which
  nothing changes, and that a delegation was found valid for that copy. What holds of a
  whole line of ancestors (its number, its narrowing, that all of it is active) follows
  from `Sound` by the search for a least counterexample (`LeastNatural`), since the
  induction theorems of the library are out of reach. `TreeDryRunAgrees` needs `Orderly`
  besides: while no two handlers have overlapped, a cascade has visited or queued every
  child of a mandate it has listed and writes exactly the visited rows that differ, an
  activation commits below an active parent only, and so active mandates hang below
  active ones.
- `TreeAllocations`: what a mandate records as delegated is the sum of its children's
  limits. `AllocationInv` adds that a delegation in progress holds its parent's row alone
  and read the column as it is. The sum is the cardinality of the set of currency units
  the children were given (`Delegated`), so that adding a child adds a disjoint set.
- `StoreQuota` and `ProductionQuota`: the limiter, for any number of callers and
  processes and any faults. What was admitted lately must still be counted by every
  later transaction, whose clock may be older. `LimiterInv` says why: an admission that
  is in the window now is still in its store (`AdmissionsAreKept`), since nobody clears by
  a clock ahead of the time; a withdrawal takes its own member and never an admitted one
  (`WithdrawalsSpareAdmissions`); and the key lives as long as what is in it
  (`KeyOutlivesMembers`). The lemmas `RecentIsCounted` and `CountedFits` turn that into
  the cardinality. Where every process is in production nothing is admitted to another
  store, and the bound of one store is the whole's.
- `ClientImplementsCall`: every step of the client maps to a step of `GatewayCall` or a
  stutter. The invariant `SentOnce` says that a creation has one request, which is
  unsent, in transit or answered, and its effects go with that.
- `AuditedCalls`: the composition of the audit, the requests and the payments is, seen
  from the client, a behaviour of the client, and so implements `GatewayCall`.
- `ReportsAreComplete`: an order that was due when the audit began is found, unanswered
  or still among the rows to come. `AuditInv` adds why: no order was fetched before the
  audit (`FetchesAreOwn`), so every answer shows what was due as paid (`DueIsShown`), a
  call that returned was answered, and the rows are an ordering of all recent operations,
  which leaves none out (`OrderingsAreComplete`).
- `RefundCreditedOnce` and `RefundGivenUpUncredited`: between the flush of an event and
  its COMMIT no other delivery works on it (`Exclusive`), what a delivery carries agrees
  with the stored row (`Serving`), and an ambiguous payment stays ambiguous.
- `DenialsStand` and `ListedToolsAreAllowed`: `AnswerInv` says that the decision in the
  details of an operation never changes, so what was answered stays true; that an
  operation with a denial is not dispatched, does not wait for a review and is held by no
  reviewer, of which the property says only the first (`Barred`); and that the catalog's
  table of categories lists no type the engine refuses (a case for each category, for
  every whitelist).
- `TracesFallBehindByOne`, `NoReissuedMandateIsIdle`, `RiskyOrdersAreRefused` and
  `QuestionsAreOnlyAnswered`: the chat. `ChatInv` says that a turn being served belongs
  to one session, whose pending traces cover the operations of the turn that are not
  traced, and that a session whose mandate is not stored holds one fit to be stored; so
  the COMMIT of each call brings trace and mandate up to date. For the orders the limit
  per operation compares the amount and the cap the risk agent compares. For the
  questions, `QuestionsAreAnswered` shows of every set of cues and product words that
  the least branch a question meets is one of the first six, which call nothing
  financial; a question about a product is one only if the words of the answers name it.

Only model-checked: liveness (`EveryReservationEnds` and `EventuallyReturns`), which is
out of the prover's reach.

## Not modelled

- Demo, evaluation and telemetry: fixtures, benchmarks and aggregates that only read.
- Audit trail and event bus: audit rows go with the transaction they describe and decide
  nothing; the bus has no subscriber in the services.
- Web console: renders what the API returns.
- Signatures of webhooks and payments and the hashing of keys: a call or an event passes
  or does not, and a key is known by its form and its agent. Floating-point amounts
  (`runner.py:304`): rupees are whole numbers here.
- The read routes, the registry's statistics, the conversation history and the wording
  of replies. Mock mode of the client, a gateway that never fails.

## Plan

Done: the pipeline with its ledger, the policy engine, the mandate tree, the rate
limiter, the client with its contract, the audit composed with the client, refund
webhooks, the MCP gateway with authentication and the registry of agents, the chat with
its parser and the coordinator, and the theorems above.

Left:

1. Composition: several mandates of a tree with the pipeline's operations charged to
   them, and the refund events in the pipeline with a refunded phase of the ledger.
2. Proofs: what webhooks for different operations keep when they run side by side
   (`RowLocked` leaves them out altogether); the compositions of item 1, from the theorems
   of their parts.
