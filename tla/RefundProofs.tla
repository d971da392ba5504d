---------------------------- MODULE RefundProofs ----------------------------
(***************************************************************************)
(* For any payments, refunds and sessions: a refund whose event carries an  *)
(* event_id is credited once at most, and one that was given up was not     *)
(* credited.                                                               *)
(***************************************************************************)
EXTENDS RefundWebhooks, TLAPS

Open(s) == Step(s) \in {"apply", "commit"}

(* What is known of a session between its flush and its COMMIT. *)
Serving(s) ==
  LET r == Refund(s) IN
  Open(s) /\ r \in Named =>
    /\ credited[r] = 0
    /\ work[s].attempts = 0 => inbox[r].attempts = 0
    /\ work[s].attempts > 0 => Ambiguous(PaymentOf[r])
    /\ Step(s) = "commit" =>
         \/ work[s].verdict = "PROCESSED" /\ work[s].attempts = 0
         \/ /\ work[s].verdict \in {"FAILED", "DEAD_LETTER"}
            /\ work[s].credit = 0 /\ Ambiguous(PaymentOf[r])

(* The events that sessions serve are locked by one of them each. *)
Exclusive ==
  \A s, t \in Sessions :
    Open(s) /\ Open(t) /\ Refund(s) = Refund(t) /\ Refund(s) \in Named => s = t

(* A session that waits for the row of an event it has read. *)
Waiting(s) ==
  LET r == Refund(s) IN
  Step(s) = "flush" /\ r \in Named /\ work[s].attempts > 0 =>
    Ambiguous(PaymentOf[r]) /\ credited[r] = 0 /\ inbox[r].attempts > 0

Stored(r) ==
  /\ r \in Named => credited[r] <= 1
  /\ inbox[r].attempts = 0 => inbox[r].status = "none" /\ (r \in Named => credited[r] = 0)
  /\ inbox[r].attempts > 0 =>
       \/ inbox[r].status = "PROCESSED"
       \/ /\ inbox[r].status \in {"FAILED", "DEAD_LETTER"}
          /\ r \in Named => credited[r] = 0
          /\ Ambiguous(PaymentOf[r])
  /\ r \notin Named => inbox[r].attempts = 0

Inbox == [status : {"none", "PROCESSED", "FAILED", "DEAD_LETTER"}, attempts : Nat]
Work == [step : {"idle", "flush", "apply", "commit"}, refund : Refunds \cup {"none"},
         attempts : Nat, verdict : {"none", "PROCESSED", "FAILED", "DEAD_LETTER"},
         credit : Nat]

RowTypes ==
  /\ settled \in [Local -> {"open", "linked", "unlinked"}]
  /\ recorded \subseteq Refunds /\ refunded \subseteq Refunds
  /\ inbox \in [Refunds -> Inbox]
  /\ work \in [Sessions -> Work]
  /\ credited \in [Refunds -> Nat]
  /\ \A s \in Sessions : Step(s) # "idle" => Refund(s) \in Refunds

RefundInv ==
  /\ RowTypes
  /\ Exclusive
  /\ \A s \in Sessions : Serving(s) /\ Waiting(s)
  /\ \A r \in Refunds : Stored(r)
------------------------------------------------------------------------------
LEMMA RefundInit == Init => RefundInv
<1> SUFFICES ASSUME Init PROVE RefundInv
  OBVIOUS
<1>1. RowTypes
  BY DEF Init, RowTypes, NoWork, Step, Refund, Inbox, Work
<1>2. \A s \in Sessions : Step(s) = "idle"
  BY DEF Init, NoWork, Step
<1>3. Exclusive /\ \A s \in Sessions : Serving(s) /\ Waiting(s)
  BY <1>2 DEF Exclusive, Serving, Waiting, Open
<1>4. \A r \in Refunds : Stored(r)
  BY DEF Init, Stored
<1> QED BY <1>1, <1>3, <1>4 DEF RefundInv

(* Transactions are only added, so an ambiguous payment stays ambiguous. *)
LEMMA AmbiguityGrows ==
  ASSUME NEW p, Ambiguous(p), Rows(p) \subseteq Rows(p)'
  PROVE  Ambiguous(p)'
BY DEF Ambiguous

(* The steps outside the deliveries. *)
LEMMA OthersKeep ==
  ASSUME RefundInv,
         \/ \E p \in Local : \E how \in {"linked", "unlinked"} : Settle(p, how)
         \/ \E r \in Refunds : RefundAtGateway(r) \/ RefundRecord(r)
  PROVE  RefundInv'
<1>1. RowTypes'
  BY RefundConstants DEF RefundInv, RowTypes, Settle, RefundAtGateway, RefundRecord, Step, Refund
<1>2. inbox' = inbox /\ work' = work /\ credited' = credited
  BY DEF Settle, RefundAtGateway, RefundRecord
<1>3. \A x \in Payments : Rows(x) \subseteq Rows(x)'
  <2>1. recorded \subseteq recorded'
    BY DEF Settle, RefundAtGateway, RefundRecord
  <2>2. \A x \in Local : settled[x] = "linked" => settled'[x] = "linked"
    BY DEF Settle, RefundAtGateway, RefundRecord, RefundInv, RowTypes
  <2> QED BY <2>1, <2>2 DEF Rows
<1>4. \A x \in Refunds : Ambiguous(PaymentOf[x]) => Ambiguous(PaymentOf[x])'
  BY <1>3, AmbiguityGrows, RefundConstants
<1>5. \A s \in Sessions : Serving(s)' /\ Waiting(s)'
  <2> SUFFICES ASSUME NEW s \in Sessions PROVE Serving(s)' /\ Waiting(s)'
    OBVIOUS
  <2>1. Serving(s) /\ Waiting(s) /\ (Step(s) # "idle" => Refund(s) \in Refunds)
    BY DEF RefundInv, RowTypes
  <2> QED BY <1>2, <1>4, <2>1 DEF Serving, Waiting, Open, Step, Refund
<1>6. \A x \in Refunds : Stored(x)'
  BY <1>2, <1>4 DEF RefundInv, Stored
<1>7. Exclusive'
  BY <1>2 DEF RefundInv, Exclusive, Open, Step, Refund
<1> QED BY <1>1, <1>5, <1>6, <1>7 DEF RefundInv

(* A step of one session that writes no row: the rest follows from what the *)
(* session itself is doing afterwards.                                     *)
LEMMA SessionStep ==
  ASSUME RefundInv, NEW s \in Sessions, NEW w \in Work,
         work' = [work EXCEPT ![s] = w],
         UNCHANGED <<settled, refunded, recorded, inbox, credited>>,
         w.step # "idle" => w.refund \in Refunds,
         Serving(s)', Waiting(s)',
         w.step \in {"apply", "commit"} /\ w.refund \in Named =>
           \A t \in Sessions \ {s} : Open(t) => Refund(t) # w.refund
  PROVE  RefundInv'
<1>1. work'[s] = w /\ \A t \in Sessions \ {s} : work'[t] = work[t]
  BY DEF RefundInv, RowTypes
<1>2. RowTypes'
  <2>1. work' \in [Sessions -> Work]
    BY DEF RefundInv, RowTypes
  <2> QED BY <1>1, <2>1 DEF RefundInv, RowTypes, Step, Refund
<1>3. \A t \in Sessions \ {s} : /\ Open(t)' = Open(t) /\ Step(t)' = Step(t)
                               /\ Refund(t)' = Refund(t)
  BY <1>1 DEF Open, Step, Refund
<1>4. Open(s)' = (w.step \in {"apply", "commit"}) /\ Refund(s)' = w.refund
  BY <1>1 DEF Open, Step, Refund
<1>5. Exclusive'
  <2> SUFFICES ASSUME NEW t \in Sessions, NEW u \in Sessions, Open(t)', Open(u)',
                      Refund(t)' = Refund(u)', Refund(t)' \in Named
               PROVE  t = u
    BY DEF Exclusive
  <2>1. CASE t = s \/ u = s
    BY <1>3, <1>4, <2>1
  <2>2. CASE t # s /\ u # s
    BY <1>3, <2>2 DEF RefundInv, Exclusive
  <2> QED BY <2>1, <2>2
<1>6. \A x \in Payments : Ambiguous(x)' <=> Ambiguous(x)
  BY DEF Ambiguous, Rows
<1>7. \A t \in Sessions : Serving(t)' /\ Waiting(t)'
  <2> SUFFICES ASSUME NEW t \in Sessions \ {s} PROVE Serving(t)' /\ Waiting(t)'
    OBVIOUS
  <2>1. Serving(t) /\ Waiting(t) /\ (Step(t) # "idle" => Refund(t) \in Refunds)
    BY DEF RefundInv, RowTypes
  <2>2. Step(t) # "idle" => PaymentOf[Refund(t)] \in Payments
    BY <2>1, RefundConstants
  <2>3. Serving(t)'
    BY <1>1, <1>3, <1>6, <2>1, <2>2 DEF Serving, Open
  <2>4. Waiting(t)'
    BY <1>1, <1>3, <1>6, <2>1, <2>2 DEF Waiting
  <2> QED BY <2>3, <2>4
<1>8. \A x \in Refunds : Stored(x)'
  BY <1>6, RefundConstants DEF RefundInv, Stored
<1> QED BY <1>2, <1>5, <1>7, <1>8 DEF RefundInv

LEMMA CrashKeeps == ASSUME RefundInv, NEW s \in Sessions, Crash(s) PROVE RefundInv'
<1>1. NoWork \in Work /\ NoWork.step = "idle"
  BY DEF NoWork, Work
<1>2. work' = [work EXCEPT ![s] = NoWork]
  BY DEF Crash, Close
<1>3. Step(s)' = "idle"
  BY <1>1, <1>2 DEF RefundInv, RowTypes, Step
<1>4. Serving(s)' /\ Waiting(s)'
  BY <1>3 DEF Serving, Waiting, Open
<1> QED BY <1>1, <1>2, <1>4, SessionStep DEF Crash

LEMMA OpenKeeps ==
  ASSUME RefundInv, NEW s \in Sessions, NEW r \in Refunds, DeliverOpen(s, r)
  PROVE  RefundInv'
<1> DEFINE w == [NoWork EXCEPT !.step = "flush", !.refund = r,
                   !.attempts = IF r \in Named THEN inbox[r].attempts ELSE 0]
<1>1. w \in Work /\ w.step = "flush" /\ w.refund = r
      /\ (r \in Named => w.attempts = inbox[r].attempts)
  BY DEF NoWork, Work, RefundInv, RowTypes, Inbox
<1>2. work' = [work EXCEPT ![s] = w] /\ UNCHANGED <<settled, refunded, recorded, inbox, credited>>
  BY DEF DeliverOpen
<1>3. work'[s] = w
  BY <1>2 DEF RefundInv, RowTypes
<1>4. Serving(s)'
  BY <1>1, <1>3 DEF Serving, Open, Step
<1>5. Waiting(s)'
  <2> SUFFICES ASSUME r \in Named, inbox[r].attempts > 0
               PROVE  Ambiguous(PaymentOf[r])' /\ credited'[r] = 0 /\ inbox'[r].attempts > 0
    BY <1>1, <1>3 DEF Waiting, Step, Refund
  <2>1. Ambiguous(PaymentOf[r]) /\ credited[r] = 0
    BY DEF DeliverOpen, RefundInv, Stored
  <2> QED BY <1>2, <2>1 DEF Ambiguous, Rows
<1> HIDE DEF w
<1> QED BY <1>1, <1>2, <1>4, <1>5, SessionStep

LEMMA FlushKeeps ==
  ASSUME RefundInv, NEW s \in Sessions, DeliverFlush(s)
  PROVE  RefundInv'
<1>1. CASE Taken(s)
  <2>1. NoWork \in Work /\ NoWork.step = "idle"
    BY DEF NoWork, Work
  <2>2. work' = [work EXCEPT ![s] = NoWork]
    BY <1>1 DEF DeliverFlush, Close
  <2>3. Step(s)' = "idle"
    BY <2>1, <2>2 DEF RefundInv, RowTypes, Step
  <2>4. Serving(s)' /\ Waiting(s)'
    BY <2>3 DEF Serving, Waiting, Open
  <2> QED BY <2>1, <2>2, <2>4, SessionStep DEF DeliverFlush
<1>2. CASE ~Taken(s)
  <2> DEFINE w == [work[s] EXCEPT !.step = "apply"]
  <2>1. w \in Work /\ w.step = "apply" /\ w.refund = Refund(s) /\ w.attempts = work[s].attempts
    BY DEF RefundInv, RowTypes, Work, Refund
  <2>2. work' = [work EXCEPT ![s] = w] /\ UNCHANGED <<settled, refunded, recorded, inbox, credited>>
    BY <1>2 DEF DeliverFlush, Goto
  <2>3. work'[s] = w
    BY <2>2 DEF RefundInv, RowTypes
  <2>4. Refund(s) \in Refunds /\ Waiting(s) /\ Stored(Refund(s)) /\ Step(s) = "flush"
    BY DEF DeliverFlush, RefundInv, RowTypes
  <2>5. Waiting(s)'
    BY <2>1, <2>3 DEF Waiting, Step
  <2>6. Serving(s)'
    <3> HIDE DEF w
    <3> USE DEF Refund
    <3>1. work[s].attempts \in Nat /\ inbox[Refund(s)].attempts \in Nat
      BY <2>4 DEF RefundInv, RowTypes, Work, Inbox
    <3>2. Refund(s) \in Named =>
            /\ credited[Refund(s)] = 0
            /\ work[s].attempts = 0 => inbox[Refund(s)].attempts = 0
            /\ work[s].attempts > 0 => Ambiguous(PaymentOf[Refund(s)])
      BY <1>2, <2>4, <3>1 DEF Taken, Waiting, Stored
    <3>3. \A x : Ambiguous(x) => Ambiguous(x)'
      BY <2>2 DEF Ambiguous, Rows
    <3>4. Refund(s)' = Refund(s) /\ Step(s)' = "apply" /\ work'[s].attempts = work[s].attempts
      BY <2>1, <2>3 DEF Step
    <3> QED BY <2>2, <3>2, <3>3, <3>4 DEF Serving
  <2>7. Refund(s) \in Named => \A t \in Sessions \ {s} : Open(t) => Refund(t) # Refund(s)
    BY DEF DeliverFlush, EventFree, Open
  <2> HIDE DEF w
  <2> QED BY <2>1, <2>2, <2>4, <2>5, <2>6, <2>7, SessionStep
<1> QED BY <1>1, <1>2

LEMMA ApplyKeeps ==
  ASSUME RefundInv, NEW s \in Sessions, DeliverApply(s)
  PROVE  RefundInv'
<1>1. Refund(s) \in Refunds /\ Step(s) = "apply" /\ Open(s) /\ Serving(s)
  BY DEF DeliverApply, RefundInv, RowTypes, Open
<1>2. PICK verdict \in {"PROCESSED", "FAILED", "DEAD_LETTER"}, credit \in Nat :
        /\ Finish(s, verdict, credit)
        /\ \/ verdict = "PROCESSED" /\ ~Ambiguous(PaymentOf[Refund(s)])
           \/ verdict # "PROCESSED" /\ credit = 0 /\ Ambiguous(PaymentOf[Refund(s)])
  <2>1. Amount[Refund(s)] \in Nat /\ FailedVerdict(s) \in {"FAILED", "DEAD_LETTER"}
    BY <1>1, RefundConstants DEF FailedVerdict
  <2>2. Rows(PaymentOf[Refund(s)]) = {} => ~Ambiguous(PaymentOf[Refund(s)])
    BY DEF Ambiguous
  <2> QED BY <2>1, <2>2 DEF DeliverApply
<1> DEFINE w == [work[s] EXCEPT !.step = "commit", !.verdict = verdict, !.credit = credit]
<1>3. /\ w \in Work /\ w.step = "commit" /\ w.refund = Refund(s)
      /\ w.attempts = work[s].attempts /\ w.verdict = verdict /\ w.credit = credit
  BY DEF RefundInv, RowTypes, Work, Refund
<1>4. work' = [work EXCEPT ![s] = w] /\ UNCHANGED <<settled, refunded, recorded, inbox, credited>>
  BY <1>2 DEF DeliverApply, Finish
<1>5. work'[s] = w
  BY <1>4 DEF RefundInv, RowTypes
<1> HIDE DEF w
<1>6. Waiting(s)'
  BY <1>3, <1>5 DEF Waiting, Step
<1>7. \A x : Ambiguous(x) => Ambiguous(x)'
  BY <1>4 DEF Ambiguous, Rows
<1>8. Serving(s)'
  <2>1. Refund(s) \in Named =>
          /\ credited[Refund(s)] = 0
          /\ work[s].attempts = 0 => inbox[Refund(s)].attempts = 0
          /\ work[s].attempts > 0 => Ambiguous(PaymentOf[Refund(s)])
    BY <1>1 DEF Serving
  <2>2. work[s].attempts \in Nat
    BY DEF RefundInv, RowTypes, Work
  <2>3. Refund(s)' = Refund(s) /\ Step(s)' = "commit" /\ work'[s].attempts = work[s].attempts
        /\ work'[s].verdict = verdict /\ work'[s].credit = credit
    BY <1>3, <1>5 DEF Refund, Step
  <2> QED BY <1>2, <1>4, <1>7, <2>1, <2>2, <2>3 DEF Serving
<1>9. Refund(s) \in Named => \A t \in Sessions \ {s} : Open(t) => Refund(t) # Refund(s)
  BY <1>1 DEF RefundInv, Exclusive
<1> QED BY <1>1, <1>3, <1>4, <1>6, <1>8, <1>9, SessionStep

LEMMA CommitKeeps ==
  ASSUME RefundInv, NEW s \in Sessions, DeliverCommit(s)
  PROVE  RefundInv'
<1> DEFINE r == Refund(s)
<1>1. r \in Refunds /\ Step(s) = "commit" /\ Open(s) /\ Serving(s) /\ Stored(r)
  BY DEF DeliverCommit, RefundInv, RowTypes, Open
<1>2. UNCHANGED <<settled, refunded, recorded>> /\ work' = [work EXCEPT ![s] = NoWork]
  BY DEF DeliverCommit, Close
<1>3. work'[s] = NoWork /\ Step(s)' = "idle" /\ \A t \in Sessions \ {s} : work'[t] = work[t]
  BY <1>2 DEF RefundInv, RowTypes, Step, NoWork
<1>4. \A x : Ambiguous(x)' <=> Ambiguous(x)
  BY <1>2 DEF Ambiguous, Rows
<1>5. work[s].attempts \in Nat /\ work[s].credit \in Nat
  BY DEF RefundInv, RowTypes, Work
<1>6. \A x \in Refunds : x # r => inbox'[x] = inbox[x] /\ credited'[x] = credited[x]
  BY DEF DeliverCommit, RefundInv, RowTypes
<1>7. r \in Named =>
        /\ inbox'[r] = [status |-> work[s].verdict, attempts |-> work[s].attempts + 1]
        /\ credited'[r] = IF work[s].credit = 0 THEN credited[r] ELSE credited[r] + 1
  BY <1>1 DEF DeliverCommit, RefundInv, RowTypes
<1>8. r \in Named =>
        \/ work[s].verdict = "PROCESSED" /\ work[s].attempts = 0 /\ credited'[r] \in {0, 1}
           /\ inbox[r].attempts = 0
        \/ work[s].verdict \in {"FAILED", "DEAD_LETTER"} /\ Ambiguous(PaymentOf[r])
           /\ credited'[r] = 0
  BY <1>1, <1>7 DEF Serving
<1>9. RowTypes'
  <2>1. work' \in [Sessions -> Work]
    BY <1>2 DEF RefundInv, RowTypes, NoWork, Work
  <2>2. credited' \in [Refunds -> Nat]
    BY DEF DeliverCommit, RefundInv, RowTypes
  <2>3. inbox' \in [Refunds -> Inbox]
    <3>1. CASE r \in Named
      <4>1. [status |-> work[s].verdict, attempts |-> work[s].attempts + 1] \in Inbox
        BY <1>5, <1>8, <3>1 DEF Inbox
      <4> QED BY <3>1, <4>1 DEF DeliverCommit, RefundInv, RowTypes
    <3>2. CASE r \notin Named
      BY <3>2 DEF DeliverCommit, RefundInv, RowTypes
    <3> QED BY <3>1, <3>2
  <2>4. \A t \in Sessions : Step(t)' # "idle" => Refund(t)' \in Refunds
    BY <1>3 DEF RefundInv, RowTypes, Step, Refund
  <2> QED BY <1>2, <2>1, <2>2, <2>3, <2>4 DEF RefundInv, RowTypes
<1>10. Exclusive'
  BY <1>3 DEF RefundInv, Exclusive, Open, Step, Refund
<1>11. ASSUME NEW t \in Sessions PROVE Serving(t)' /\ Waiting(t)'
  <2>1. CASE t = s
    BY <1>3, <2>1 DEF Serving, Waiting, Open
  <2>2. CASE t # s
    <3>1. /\ Serving(t) /\ Waiting(t)
          /\ Refund(t)' = Refund(t) /\ Step(t)' = Step(t) /\ Open(t)' = Open(t)
          /\ Step(t) # "idle" => Refund(t) \in Refunds
      BY <1>3, <2>2 DEF RefundInv, RowTypes, Refund, Step, Open
    <3>2. Open(t) /\ Refund(t) \in Named => Refund(t) # r
      BY <1>1, <2>2 DEF RefundInv, Exclusive
    <3>3. Serving(t)'
      BY <1>3, <1>4, <1>6, <2>2, <3>1, <3>2 DEF Serving, Open
    <3>4. Waiting(t)'
      <4> SUFFICES ASSUME Step(t) = "flush", Refund(t) \in Named, work[t].attempts > 0
                   PROVE  /\ Ambiguous(PaymentOf[Refund(t)])' /\ credited'[Refund(t)] = 0
                          /\ inbox'[Refund(t)].attempts > 0
        BY <1>3, <2>2, <3>1 DEF Waiting
      <4>1. /\ inbox[Refund(t)].attempts > 0 /\ credited[Refund(t)] = 0
            /\ Ambiguous(PaymentOf[Refund(t)])
        BY <3>1 DEF Waiting
      <4>2. Ambiguous(PaymentOf[Refund(t)])'
        BY <1>3, <1>4, <2>2, <4>1 DEF Refund
      <4>3. CASE Refund(t) # r
        BY <1>6, <3>1, <4>1, <4>2, <4>3
      <4>4. CASE Refund(t) = r
        <5>1. inbox'[r].attempts > 0
          BY <1>5, <1>7, <4>4
        <5>2. credited'[r] = 0
          BY <1>8, <4>1, <4>4
        <5> QED BY <4>2, <4>4, <5>1, <5>2
      <4> QED BY <4>3, <4>4
    <3> QED BY <3>3, <3>4
  <2> QED BY <2>1, <2>2
<1>12. ASSUME NEW x \in Refunds PROVE Stored(x)'
  <2>1. CASE x # r
    BY <1>4, <1>6, <2>1 DEF RefundInv, Stored
  <2>2. CASE x = r /\ r \in Named
    BY <1>4, <1>5, <1>7, <1>8, <2>2 DEF Stored
  <2>3. CASE x = r /\ r \notin Named
    <3>1. inbox' = inbox
      BY <2>3 DEF DeliverCommit
    <3> QED BY <1>1, <1>4, <2>3, <3>1 DEF Stored
  <2> QED BY <2>1, <2>2, <2>3
<1> QED BY <1>9, <1>10, <1>11, <1>12 DEF RefundInv

LEMMA RefundInvariant == Spec => []RefundInv
<1>1. RefundInv /\ [Next]_vars => RefundInv'
  <2> SUFFICES ASSUME RefundInv, [Next]_vars PROVE RefundInv'
    OBVIOUS
  <2>1. CASE UNCHANGED vars
    <3>1. UNCHANGED <<settled, refunded, recorded, inbox, work, credited>>
      BY <2>1 DEF vars
    <3> QED BY <3>1 DEF RefundInv, RowTypes, Exclusive, Serving, Waiting, Stored, Open, Step,
                        Refund, Ambiguous, Rows
  <2>2. CASE \E p \in Local : \E how \in {"linked", "unlinked"} : Settle(p, how)
    BY <2>2, OthersKeep
  <2>3. CASE \E r \in Refunds : RefundAtGateway(r) \/ RefundRecord(r)
    BY <2>3, OthersKeep
  <2> QED BY <2>1, <2>2, <2>3, OpenKeeps, FlushKeeps, ApplyKeeps, CommitKeeps, CrashKeeps DEF Next
<1> QED BY <1>1, RefundInit, PTL DEF Spec

(* A refund whose event carries an event_id is credited once at most        *)
(* (webhooks.py, the idempotency check and the unique event_id).           *)
THEOREM RefundCreditedOnce == Spec => []CreditedOnce
<1>1. RefundInv => CreditedOnce
  BY RefundConstants DEF RefundInv, Stored, CreditedOnce
<1> QED BY <1>1, RefundInvariant, PTL

(* An event that was given up has credited nothing, and names an ambiguous  *)
(* payment (webhooks.py, the except branch).                               *)
THEOREM RefundGivenUpUncredited == Spec => []GivenUpUncredited
<1>1. RefundInv => GivenUpUncredited
  BY DEF RefundInv, RowTypes, Inbox, Stored, GivenUpUncredited
<1> QED BY <1>1, RefundInvariant, PTL
==============================================================================
