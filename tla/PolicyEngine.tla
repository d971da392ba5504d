---------------------------- MODULE PolicyEngine ----------------------------
(***************************************************************************)
(* The deterministic policy engine (packages/policy/engine.py): one         *)
(* operator per rule, each a verdict on a request.                          *)
(*                                                                         *)
(* A mandate m is a record of the columns the rules read, an operation op   *)
(* a record [amount, type, currency, approved].  In m, types is the         *)
(* whitelist allowed_operations, cap is max_amount_per_op, limit is         *)
(* aggregate_spend_limit, used is current_aggregate_spend + reserved_spend, *)
(* threshold is review_threshold_amount (0 when it is null) and from and    *)
(* until are the validity window.                                           *)
(***************************************************************************)
EXTENDS Integers

AgentStatus == {"ACTIVE", "SUSPENDED", "REVOKED"}
MandateStatus ==
  {"PENDING_APPROVAL", "ACTIVE", "SUSPENDED", "EXPIRED", "EXHAUSTED", "REVOKED"}
PolicyDecision == {"ALLOW", "DENY", "REQUIRE_HUMAN_REVIEW"}

DenyIf(condition) == IF condition THEN "DENY" ELSE "ALLOW"

AgentStatusRule(agentStatus) == DenyIf(agentStatus # "ACTIVE")

MandateLifecycleRule(m, now) ==
  DenyIf(m.status # "ACTIVE" \/ now < m.from \/ now > m.until)

(* The statuses of the ancestors are looked up only through a database      *)
(* session in the context: without one the rule is satisfied.               *)
HierarchicalDelegationRule(ancestorStatuses, hasDb) ==
  DenyIf(hasDb /\ \E status \in ancestorStatuses : status # "ACTIVE")

CurrencyMatchRule(m, op) == DenyIf(op.currency # m.currency)

(* An empty whitelist admits every type. *)
AllowedOperationTypeRule(m, op) == DenyIf(m.types # {} /\ op.type \notin m.types)

PerTransactionLimitRule(m, op) == DenyIf(op.amount > m.cap)

AggregateSpendLimitRule(m, op) == DenyIf(m.used + op.amount > m.limit)

(* Mutation: the threshold itself needs no review. *)
HumanReviewAboveThreshold(m, op) ==
  IF ~op.approved /\ m.threshold # 0 /\ op.amount > m.threshold
  THEN "REQUIRE_HUMAN_REVIEW" ELSE "ALLOW"

HumanReviewThresholdRule(m, op) ==
  IF ~op.approved /\ m.threshold # 0 /\ op.amount >= m.threshold
  THEN "REQUIRE_HUMAN_REVIEW" ELSE "ALLOW"

(* hasQuota is the rate limiter's answer. *)
RateLimitRule(hasQuota) == DenyIf(~hasQuota)

(* The loop over the rules: DENY dominates, then a review, then ALLOW. *)
Evaluate(agentStatus, m, op, now, ancestorStatuses, hasDb, hasQuota) ==
  LET verdicts == {AgentStatusRule(agentStatus),
                   MandateLifecycleRule(m, now),
                   HierarchicalDelegationRule(ancestorStatuses, hasDb),
                   CurrencyMatchRule(m, op),
                   AllowedOperationTypeRule(m, op),
                   PerTransactionLimitRule(m, op),
                   AggregateSpendLimitRule(m, op),
                   HumanReviewThresholdRule(m, op),
                   RateLimitRule(hasQuota)}
  IN  IF "DENY" \in verdicts THEN "DENY"
      ELSE IF "REQUIRE_HUMAN_REVIEW" \in verdicts THEN "REQUIRE_HUMAN_REVIEW"
      ELSE "ALLOW"
==============================================================================
