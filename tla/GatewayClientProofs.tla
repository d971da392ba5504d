------------------------- MODULE GatewayClientProofs -------------------------
(***************************************************************************)
(* The client implements GatewayCall, for any calls and any number of       *)
(* retries: a request that creates something is sent at most once, and no   *)
(* answer but the gateway's object ends its call with a result.  The audit  *)
(* uses the client as GatewayClient says, so the same holds of the calls    *)
(* beside it, and what it reports is complete.                             *)
(***************************************************************************)
EXTENDS GatewayAudit, FiniteSetTheorems, TLAPS

(* Where the one request of a creating call may be. *)
SentOnce(c) ==
  /\ job[c].at # "backoff"
  /\ job[c].at = "waiting" => job[c].attempt = 1
  /\ job[c].at = "idle" => job[c].attempt = 0 /\ carried[c] = 0 /\ <<c, 1>> \notin transit
  /\ \A r \in transit : r[1] = c => r = <<c, 1>>
  /\ <<c, 1>> \in transit => carried[c] = 0
  /\ carried[c] \in {0, 1}
  /\ \A a \in answers : a.request[1] = c /\ a.body = "object" => carried[c] = 1

(* Only a call with attempts left sends. *)
AttemptsLeft == \A c \in Calls : job[c].at \in {"idle", "backoff"} => job[c].attempt < MaxRetries

ClientInv == TypeOK /\ AttemptsLeft /\ \A c \in Creations : SentOnce(c)

LEMMA ClientInit == ClientConstants /\ Init => ClientInv
BY DEF ClientConstants, Init, ClientInv, TypeOK, AttemptsLeft, Job, SentOnce, Creations

(* What a creating call is: a mutation, with one attempt. *)
LEMMA CreationsMutateOnce ==
  ASSUME ClientConstants, NEW c \in Creations
  PROVE  c \in Calls /\ Mutates(c) /\ Attempts(c) = 1
BY DEF ClientConstants, Creations, Endpoints, Endpoint, Mutates, Attempts, create_order,
       fetch_order, fetch_payment, capture_payment, create_refund, fetch_refund,
       create_payment_link, fetch_payment_link, cancel_payment_link

LEMMA AttemptsInRange ==
  ASSUME ClientConstants, NEW c \in Calls
  PROVE  Attempts(c) \in 1..MaxRetries
BY DEF ClientConstants, Attempts

LEMMA SendKeeps ==
  ASSUME ClientConstants, ClientInv, NEW c \in Calls, Ask(c) \/ Resume(c)
  PROVE  ClientInv'
<1>0. job[c].attempt < MaxRetries
  BY DEF Ask, Resume, ClientInv, AttemptsLeft
<1>1. TypeOK'
  <2>1. /\ job[c].attempt + 1 \in 1..MaxRetries
        /\ [at |-> "waiting", attempt |-> job[c].attempt + 1] \in Job
    BY <1>0 DEF ClientConstants, ClientInv, TypeOK, Job
  <2>2. <<c, job[c].attempt + 1>> \in Requests
    BY <2>1 DEF Requests
  <2> QED BY <2>1, <2>2 DEF Ask, Resume, Send, ClientInv, TypeOK
<1>2. ASSUME NEW d \in Creations PROVE SentOnce(d)'
  <2>0. SentOnce(d) /\ d \in Calls
    BY CreationsMutateOnce DEF ClientInv
  <2>1. CASE d = c
    <3>1. job[c].at = "idle"
      BY <2>0, <2>1 DEF Ask, Resume, SentOnce
    <3>2. job'[c] = [at |-> "waiting", attempt |-> 1] /\ transit' = transit \cup {<<c, 1>>}
      BY <2>0, <2>1, <3>1 DEF Ask, Resume, Send, SentOnce, ClientInv, TypeOK
    <3>3. carried' = carried /\ answers' = answers
      BY DEF Ask, Resume, Send
    <3>4. carried[d] = 0 /\ \A r \in transit' : r[1] = d => r = <<d, 1>>
      BY <2>0, <2>1, <3>1, <3>2 DEF SentOnce
    <3>5. job'[d].at = "waiting" /\ job'[d].attempt = 1
      BY <2>1, <3>2
    <3> QED BY <2>0, <3>3, <3>4, <3>5 DEF SentOnce
  <2>2. CASE d # c
    <3>1. job'[d] = job[d] /\ carried' = carried /\ answers' = answers
      BY <2>0, <2>2 DEF Ask, Resume, Send, ClientInv, TypeOK
    <3>2. PICK n : transit' = transit \cup {<<c, n>>}
      BY DEF Ask, Resume, Send
    <3>3. \A r \in transit' : r[1] = d => r \in transit
      BY <2>2, <3>2
    <3>4. <<d, 1>> \in transit' => <<d, 1>> \in transit
      BY <3>3
    <3> QED BY <2>0, <3>1, <3>3, <3>4 DEF SentOnce
  <2> QED BY <2>1, <2>2
<1>3. AttemptsLeft'
  BY DEF Ask, Resume, Send, ClientInv, TypeOK, AttemptsLeft
<1> QED BY <1>1, <1>2, <1>3 DEF ClientInv, Creations

LEMMA ServeKeeps ==
  ASSUME ClientConstants, ClientInv, NEW r \in transit, NEW body \in Bodies, Serve(r, body)
  PROVE  ClientInv'
<1>0. r \in Requests /\ r[1] \in Calls
  BY DEF ClientInv, TypeOK, Requests
<1>1. TypeOK'
  <2>1. [request |-> r, body |-> body] \in Answers
    BY <1>0 DEF Answers
  <2> QED BY <1>0, <2>1 DEF Serve, ClientInv, TypeOK
<1>2. ASSUME NEW d \in Creations PROVE SentOnce(d)'
  <2>0. SentOnce(d) /\ d \in Calls /\ Mutates(d)
    BY CreationsMutateOnce DEF ClientInv
  <2>1. CASE r[1] = d
    <3>1. r = <<d, 1>> /\ carried[d] = 0 /\ <<d, 1>> \notin transit'
      BY <2>0, <2>1 DEF SentOnce, Serve
    <3>2. carried'[d] \in {0, 1} /\ (body = "object" => carried'[d] = 1)
      BY <2>0, <2>1, <3>1 DEF Serve, ClientInv, TypeOK
    <3>3. job[d].at # "idle"
      BY <2>0, <3>1 DEF SentOnce
    <3>4. ASSUME NEW a \in answers', a.request[1] = d, a.body = "object"
          PROVE  carried'[d] = 1
      <4>1. CASE a \in answers
        BY <4>1, <3>1, <3>4, <2>0 DEF SentOnce
      <4>2. CASE a = [request |-> r, body |-> body]
        BY <4>2, <3>2, <3>4
      <4> QED BY <4>1, <4>2 DEF Serve
    <3> QED BY <2>0, <3>1, <3>2, <3>3, <3>4 DEF Serve, SentOnce
  <2>2. CASE r[1] # d
    <3>1. carried'[d] = carried[d] /\ job' = job /\ transit' \subseteq transit
      BY <2>0, <2>2, <1>0 DEF Serve, ClientInv, TypeOK
    <3>2. \A a \in answers' : a.request[1] = d => a \in answers
      BY <2>2 DEF Serve
    <3> QED BY <2>0, <3>1, <3>2 DEF SentOnce
  <2> QED BY <2>1, <2>2
<1>3. AttemptsLeft'
  BY DEF Serve, ClientInv, AttemptsLeft
<1> QED BY <1>1, <1>2, <1>3 DEF ClientInv, Creations

LEMMA EndKeeps ==
  ASSUME ClientConstants, ClientInv, NEW c \in Calls,
         Return(c) \/ RaiseOnBody(c) \/ TimeOut(c)
  PROVE  ClientInv'
<1>0. PICK at \in {"backoff", "returned", "raised"} :
        End(c, at) /\ (at = "backoff" => job[c].attempt < Attempts(c)) /\ job[c].at = "waiting"
  BY DEF Return, RaiseOnBody, TimeOut, Answered
<1>1. TypeOK'
  BY <1>0 DEF End, ClientInv, TypeOK, Job
<1>2. ASSUME NEW d \in Creations PROVE SentOnce(d)'
  <2>0. SentOnce(d) /\ d \in Calls /\ Attempts(d) = 1
    BY CreationsMutateOnce DEF ClientInv
  <2>1. CASE d = c
    <3>1. at # "backoff"
      BY <1>0, <2>0, <2>1 DEF SentOnce
    <3> QED BY <1>0, <2>0, <2>1, <3>1 DEF End, SentOnce, ClientInv, TypeOK, Job
  <2>2. CASE d # c
    BY <1>0, <2>0, <2>2 DEF End, SentOnce, ClientInv, TypeOK
  <2> QED BY <2>1, <2>2
<1>3. AttemptsLeft'
  <2>1. at = "backoff" => job[c].attempt < MaxRetries
    BY <1>0, AttemptsInRange DEF ClientConstants, ClientInv, TypeOK, Job
  <2>2. \A d \in Calls : job'[d].attempt = job[d].attempt
                          /\ (d # c => job'[d].at = job[d].at) /\ (d = c => job'[d].at = at)
    BY <1>0 DEF End, ClientInv, TypeOK, Job
  <2> QED BY <1>0, <2>1, <2>2 DEF ClientInv, AttemptsLeft
<1> QED BY <1>1, <1>2, <1>3 DEF ClientInv, Creations

LEMMA ClientStep == ClientConstants /\ ClientInv /\ [Next]_vars => ClientInv'
<1> SUFFICES ASSUME ClientConstants, ClientInv, [Next]_vars PROVE ClientInv'
  OBVIOUS
<1>1. CASE UNCHANGED vars
  BY <1>1 DEF vars, ClientInv, TypeOK, AttemptsLeft, SentOnce
<1>2. CASE \E c \in Calls : \/ Ask(c) \/ Resume(c) \/ Return(c) \/ RaiseOnBody(c) \/ TimeOut(c)
  BY <1>2, SendKeeps, EndKeeps
<1>3. CASE \E r \in transit : \E body \in Bodies : Serve(r, body)
  BY <1>3, ServeKeeps
<1> QED BY <1>1, <1>2, <1>3 DEF Next

LEMMA CallUnchanged ==
  ASSUME \A d \in Creations : job'[d].at = job[d].at /\ carried'[d] = carried[d]
  PROVE  Phase' = Phase /\ Effects' = Effects
BY DEF Phase, Effects, Creations

LEMMA CallMoves ==
  ASSUME NEW c \in Creations, NEW at, job'[c].at = at,
         \A d \in Creations : /\ d # c => job'[d].at = job[d].at
                              /\ carried'[d] = carried[d]
  PROVE  /\ Phase' = [Phase EXCEPT ![c] = PhaseOf(at)]
         /\ Effects' = Effects
BY DEF Phase, Effects, Creations

LEMMA CallCreates ==
  ASSUME NEW c \in Creations, carried'[c] = 1,
         \A d \in Creations : /\ d # c => carried'[d] = carried[d]
                              /\ job'[d].at = job[d].at
  PROVE  /\ Effects' = [Effects EXCEPT ![c] = 1]
         /\ Phase' = Phase
BY DEF Phase, Effects, Creations

(* A step of the client is a step of the abstract call, or none of it. *)
LEMMA ClientStepIsCallStep ==
  ClientConstants /\ ClientInv /\ [Next]_vars => [Call!Next]_(Call!vars)
<1> SUFFICES ASSUME ClientConstants, ClientInv, [Next]_vars
             PROVE  [Call!Next]_(Call!vars)
  OBVIOUS
<1>0. ASSUME NEW c \in Creations PROVE c \in Calls /\ SentOnce(c) /\ Mutates(c)
  BY CreationsMutateOnce DEF ClientInv
<1>1. CASE UNCHANGED vars
  BY <1>1 DEF vars, Call!vars, Phase, Effects
<1>2. ASSUME NEW c \in Calls, Ask(c) \/ Resume(c)
      PROVE  [Call!Next]_(Call!vars)
  <2>0. carried' = carried /\ \A d \in Calls : d # c => job'[d] = job[d]
    BY <1>2 DEF Ask, Resume, Send, ClientInv, TypeOK
  <2>1. CASE c \in Creations
    <3>1. job[c].at = "idle" /\ job'[c].at = "waiting"
      <4>1. job[c].at = "idle"
        BY <1>0, <1>2, <2>1 DEF Ask, Resume, SentOnce
      <4>2. job'[c] = [at |-> "waiting", attempt |-> job[c].attempt + 1]
        BY <1>2 DEF Ask, Resume, Send, ClientInv, TypeOK
      <4> QED BY <4>1, <4>2
    <3>2. Phase' = [Phase EXCEPT ![c] = PhaseOf("waiting")] /\ Effects' = Effects
      BY <1>0, <2>0, <2>1, <3>1, CallMoves
    <3>3. Phase[c] = "idle" /\ PhaseOf("waiting") = "asked"
      BY <2>1, <3>1 DEF Phase, PhaseOf
    <3> QED BY <2>1, <3>2, <3>3 DEF Call!Next, Call!Ask
  <2>2. CASE c \notin Creations
    BY <1>0, <2>0, <2>2, CallUnchanged DEF Call!vars
  <2> QED BY <2>1, <2>2
<1>3. ASSUME NEW r \in transit, NEW body \in Bodies, Serve(r, body)
      PROVE  [Call!Next]_(Call!vars)
  <2>1. r[1] \in Calls /\ job' = job /\ \A d \in Calls : d # r[1] => carried'[d] = carried[d]
    BY <1>3 DEF Serve, ClientInv, TypeOK, Requests
  <2>2. CASE r[1] \in Creations /\ carried'[r[1]] # carried[r[1]]
    <3>1. carried[r[1]] = 0 /\ job[r[1]].at # "idle"
      BY <1>0, <2>2 DEF SentOnce
    <3>2. carried'[r[1]] = 1
      BY <1>3, <2>1, <2>2, <3>1 DEF Serve, ClientInv, TypeOK
    <3>3. Phase[r[1]] # "idle" /\ Effects[r[1]] = 0
      BY <2>1, <2>2, <3>1 DEF Phase, PhaseOf, Effects, ClientInv, TypeOK, Job
    <3>4. Effects' = [Effects EXCEPT ![r[1]] = 1] /\ Phase' = Phase
      BY <1>0, <2>1, <2>2, <3>2, CallCreates
    <3> QED BY <2>2, <3>3, <3>4 DEF Call!Next, Call!Create
  <2>3. CASE ~(r[1] \in Creations /\ carried'[r[1]] # carried[r[1]])
    BY <1>0, <2>1, <2>3, CallUnchanged DEF Call!vars
  <2> QED BY <2>2, <2>3
<1>4. ASSUME NEW c \in Calls, Return(c)
      PROVE  [Call!Next]_(Call!vars)
  <2>0. carried' = carried /\ \A d \in Calls : d # c => job'[d] = job[d]
    BY <1>4 DEF Return, End, ClientInv, TypeOK
  <2>1. CASE c \in Creations
    <3>1. job[c].at = "waiting" /\ job'[c].at = "returned"
      BY <1>4 DEF Return, Answered, End, ClientInv, TypeOK, Job
    <3>2. carried[c] = 1
      <4>1. PICK a \in answers : a.request = Current(c) /\ a.body = "object"
        BY <1>4 DEF Return, Answered, Parsed
      <4>2. a.request[1] = c
        BY <4>1 DEF Current
      <4> QED BY <1>0, <2>1, <4>1, <4>2 DEF SentOnce
    <3>3. Phase' = [Phase EXCEPT ![c] = PhaseOf("returned")] /\ Effects' = Effects
      BY <1>0, <2>0, <2>1, <3>1, CallMoves
    <3>4. Phase[c] = "asked" /\ PhaseOf("returned") = "answered" /\ Effects[c] = 1
      BY <2>1, <3>1, <3>2 DEF Phase, PhaseOf, Effects
    <3> QED BY <2>1, <3>3, <3>4 DEF Call!Next, Call!Answer
  <2>2. CASE c \notin Creations
    BY <1>0, <2>0, <2>2, CallUnchanged DEF Call!vars
  <2> QED BY <2>1, <2>2
<1>5. ASSUME NEW c \in Calls, RaiseOnBody(c) \/ TimeOut(c)
      PROVE  [Call!Next]_(Call!vars)
  <2>0. carried' = carried /\ \A d \in Calls : d # c => job'[d] = job[d]
    BY <1>5 DEF RaiseOnBody, TimeOut, End, ClientInv, TypeOK
  <2>1. CASE c \in Creations
    <3>0. Attempts(c) = 1 /\ job[c].at = "waiting" /\ job[c].attempt = 1
      BY <1>0, <1>5, <2>1, CreationsMutateOnce DEF RaiseOnBody, TimeOut, Answered, SentOnce
    <3>1. job'[c].at = "raised"
      BY <1>5, <3>0 DEF RaiseOnBody, TimeOut, End, ClientInv, TypeOK, Job
    <3>2. Phase' = [Phase EXCEPT ![c] = PhaseOf("raised")] /\ Effects' = Effects
      BY <1>0, <2>0, <2>1, <3>1, CallMoves
    <3>3. Phase[c] = "asked" /\ PhaseOf("raised") = "failed"
      BY <2>1, <3>0 DEF Phase, PhaseOf
    <3> QED BY <2>1, <3>2, <3>3 DEF Call!Next, Call!Fail
  <2>2. CASE c \notin Creations
    BY <1>0, <2>0, <2>2, CallUnchanged DEF Call!vars
  <2> QED BY <2>1, <2>2
<1> QED BY <1>1, <1>2, <1>3, <1>4, <1>5 DEF Next

(* For any calls, endpoints and number of retries, a creation is carried    *)
(* out at most once and answered only when it was (client.py,              *)
(* _request_with_retry).                                                   *)
THEOREM ClientImplementsCall == ClientConstants => (Spec => ImplementsCall)
<1> SUFFICES ASSUME ClientConstants PROVE Spec => ImplementsCall
  OBVIOUS
<1>1. Init => Call!Init
  <2> SUFFICES ASSUME Init PROVE Call!Init
    OBVIOUS
  <2>1. \A c \in Creations : job[c].at = "idle" /\ carried[c] = 0
    BY DEF Init, Creations
  <2>2. PhaseOf("idle") = "idle"
    BY DEF PhaseOf
  <2> QED BY <2>1, <2>2 DEF Call!Init, Phase, Effects
<1>2. Init => ClientInv
  BY ClientInit
<1>3. ClientInv /\ [Next]_vars => ClientInv'
  BY ClientStep
<1>4. ClientInv /\ [Next]_vars => [Call!Next]_(Call!vars)
  BY ClientStepIsCallStep
<1> QED BY <1>1, <1>2, <1>3, <1>4, PTL DEF Spec, ImplementsCall, Call!Spec
------------------------------------------------------------------------------
(* A step of the whole is a step of the client or leaves it alone. *)
LEMMA AuditStepsAreCalls ==
  ASSUME AuditAssumption, [AuditNext]_auditVars
  PROVE  [Next]_vars
<1>1. CASE CallsStep
  <2>1. CASE \E c \in Creations : Ask(c)
    BY <2>1 DEF Next, Creations
  <2>2. CASE \E c \in Calls : Resume(c) \/ Return(c) \/ RaiseOnBody(c) \/ TimeOut(c)
    BY <2>2 DEF Next
  <2> QED BY <1>1, <2>1, <2>2 DEF CallsStep
<1>2. CASE \E r \in transit : \E body \in Bodies : GatewayServes(r, body)
  BY <1>2 DEF GatewayServes, Next
<1>3. CASE Fetch
  <2>1. FetchOf[Row.op] \in Calls
    BY <1>3, AuditAssumption DEF Fetch
  <2> QED BY <1>3, <2>1 DEF Fetch, Next
<1>4. CASE \E o \in Operations : Request(o) \/ Pay(o) \/ Settle(o)
  BY <1>4 DEF Request, Pay, Settle
<1>5. CASE Age \/ Begin \/ Skip \/ Check \/ CheckFails \/ Finish \/ Abandon
  BY <1>5 DEF Age, Begin, Skip, Check, CheckFails, Finish, Abandon
<1>6. CASE UNCHANGED auditVars
  BY <1>6 DEF auditVars
<1> QED BY <1>1, <1>2, <1>3, <1>4, <1>5, <1>6 DEF AuditNext

(* Beside the audit, too, an order is created at most once, and a call that *)
(* returns has created it (client.py, _request_with_retry).                *)
THEOREM AuditedCalls == ClientConstants => (AuditSpec => ImplementsCall)
<1>1. AuditInit => Init
  BY DEF AuditInit
<1>2. [AuditNext]_auditVars => [Next]_vars
  BY AuditStepsAreCalls, AuditAssumption
<1>3. AuditSpec => Spec
  BY <1>1, <1>2, PTL DEF AuditSpec, Spec
<1> QED BY <1>3, ClientImplementsCall
------------------------------------------------------------------------------
(* What the audit reports.                                                 *)

Statuses == {"none", "ABSENT", "RESERVED", "EXECUTING", "SUCCEEDED", "FAILED"}
Record == [op : Operations \cup {"none"}, status : Statuses]

(* Nothing was asked or answered about call c. *)
Untouched(c) ==
  /\ job[c].at = "idle"
  /\ \A r \in transit : r[1] # c
  /\ \A a \in answers : a.request[1] # c

(* The row of o is among those to be looked at, and calls for its payment. *)
Listed(o) ==
  \E i \in 1..Len(records) : records[i].op = o /\ records[i].status # "SUCCEEDED"

LedgerOK ==
  /\ status \in [Operations -> Statuses] /\ IsFiniteSet(recent)
  /\ recent \subseteq Operations /\ paid \subseteq Orders

RecordsOK ==
  /\ records \in Seq(Record)
  /\ ~begun => records = NotRunning /\ due = {}

(* The inductive invariant: no order is fetched before the audit, so what   *)
(* was paid when it began is shown as paid by every answer that it gets,    *)
(* and nothing that is due leaves the list without a trace.                 *)
FetchesAreOwn == ~begun => \A o \in Orders : Untouched(FetchOf[o])
DueIsPaid == due \subseteq paid
DueIsShown ==
  \A o \in due : \A a \in answers : a.request[1] = FetchOf[o] => a.request \in shown
ReturnsAreAnswered ==
  \A c \in Calls : job[c].at = "returned" => \E a \in answers : a.request = Current(c)
NothingIsDropped ==
  records # NotRunning => \A o \in due : o \in found \cup unanswered \/ Listed(o)

AuditInv ==
  /\ ClientInv /\ LedgerOK /\ RecordsOK
  /\ FetchesAreOwn /\ DueIsPaid /\ DueIsShown /\ ReturnsAreAnswered /\ NothingIsDropped
  /\ MissedWebhooksAreReported

(* An ordering of a finite set leaves nothing out.                          *)
LEMMA OrderingsAreComplete ==
  ASSUME NEW S, IsFiniteSet(S), NEW f \in SetToSeqs(S)
  PROVE  /\ f \in Seq(S)
         /\ \A x \in S : \E i \in 1..Len(f) : f[i] = x
<1> DEFINE n == Cardinality(S)
<1>1. n \in Nat
  BY FS_CardinalityType
<1>2. f \in [1..n -> S] /\ \A i, j \in 1..n : i # j => f[i] # f[j]
  BY DEF SetToSeqs
<1>3. IsFiniteSet(1..n) /\ Cardinality(1..n) = n
  BY <1>1, FS_Interval
<1>4. f \in Injection(1..n, S)
  BY <1>2 DEF Injection, IsInjective
<1>5. f \in Surjection(1..n, S)
  BY <1>3, <1>4, FS_Injection
<1>6. \A x \in S : \E i \in 1..n : f[i] = x
  BY <1>5 DEF Surjection
<1> HIDE DEF n
<1>7. f \in Seq(S) /\ Len(f) = n
  BY <1>1, <1>2
<1> QED BY <1>6, <1>7

(* The one who fetches is no one that creates.                              *)
LEMMA FetchCreatesNothing ==
  ASSUME NEW o \in Orders
  PROVE  FetchOf[o] \in Calls /\ FetchOf[o] \notin Creations
BY AuditAssumption DEF Creations, fetch_order, Endpoint

(* The audit starts from nothing.                                           *)
LEMMA AuditInvInit == AuditInit => AuditInv
<1> SUFFICES ASSUME AuditInit PROVE AuditInv
  OBVIOUS
<1>1. ClientInv /\ Init
  BY ClientInit, ClientAssumption DEF AuditInit
<1>2. LedgerOK
  <2>1. IsFiniteSet(recent)
    BY FS_EmptySet DEF AuditInit
  <2>2. /\ status \in [Operations -> Statuses]
        /\ recent \subseteq Operations /\ paid \subseteq Orders
    BY DEF AuditInit, Statuses
  <2> QED BY <2>1, <2>2 DEF LedgerOK
<1>3. RecordsOK /\ DueIsPaid /\ DueIsShown /\ NothingIsDropped /\ MissedWebhooksAreReported
  <2>1. NotRunning \in Seq(Record)
    BY DEF NotRunning, Record, Statuses
  <2> QED BY <2>1 DEF AuditInit, RecordsOK, DueIsPaid, DueIsShown, NothingIsDropped,
                    MissedWebhooksAreReported
<1>4. FetchesAreOwn /\ ReturnsAreAnswered
  BY <1>1, FetchCreatesNothing DEF Init, FetchesAreOwn, ReturnsAreAnswered, Untouched
<1> QED BY <1>1, <1>2, <1>3, <1>4 DEF AuditInv

(* A step beside the audit: the ledger goes on, or the client and the       *)
(* gateway do.                                                             *)
LEMMA LedgerGoesOn ==
  ASSUME AuditInv, UNCHANGED <<vars, shown, audit>>, LedgerOK', paid \subseteq paid'
  PROVE  AuditInv'
<1>1. UNCHANGED <<job, transit, answers, carried>>
  BY DEF vars
<1>2. UNCHANGED <<records, found, unanswered, due, reports, begun>>
  BY DEF audit
<1>3. ClientInv'
  BY <1>1, ClientStep, ClientAssumption DEF AuditInv, vars
<1>4. RecordsOK' /\ DueIsPaid' /\ NothingIsDropped' /\ MissedWebhooksAreReported'
  BY <1>2 DEF AuditInv, RecordsOK, DueIsPaid, NothingIsDropped, Listed,
              MissedWebhooksAreReported
<1>5. FetchesAreOwn' /\ DueIsShown' /\ ReturnsAreAnswered'
  BY <1>1, <1>2 DEF AuditInv, FetchesAreOwn, DueIsShown, ReturnsAreAnswered, Untouched, Current
<1> QED BY <1>3, <1>4, <1>5 DEF AuditInv

(* Requests, payments, settlements and the days that go by.                 *)
LEMMA LedgerKeeps ==
  ASSUME AuditInv, NEW o \in Operations, Request(o) \/ Pay(o) \/ Settle(o) \/ Age
  PROVE  AuditInv'
<1>1. LedgerOK
  BY DEF AuditInv
<1>2. CASE Request(o)
  <2>1. IsFiniteSet(recent')
    BY <1>1, <1>2, FS_AddElement DEF Request, LedgerOK
  <2>2. /\ status' \in [Operations -> Statuses]
        /\ recent' \subseteq Operations /\ paid' \subseteq Orders
    BY <1>1, <1>2 DEF Request, LedgerOK, Statuses
  <2> QED BY <1>2, <2>1, <2>2, LedgerGoesOn DEF Request, LedgerOK
<1>3. CASE Pay(o)
  <2>1. LedgerOK'
    BY <1>1, <1>3 DEF Pay, LedgerOK
  <2> QED BY <1>3, <2>1, LedgerGoesOn DEF Pay
<1>4. CASE Settle(o)
  <2>1. status' \in [Operations -> Statuses] /\ UNCHANGED <<recent, paid>>
    BY <1>1, <1>4 DEF Settle, LedgerOK, Statuses
  <2>2. LedgerOK'
    BY <1>1, <2>1 DEF LedgerOK
  <2> QED BY <1>4, <2>2, LedgerGoesOn DEF Settle
<1>5. CASE Age
  <2>1. IsFiniteSet(recent')
    BY <1>5, FS_EmptySet DEF Age
  <2>2. LedgerOK'
    BY <1>1, <1>5, <2>1 DEF Age, LedgerOK
  <2> QED BY <1>5, <2>2, LedgerGoesOn DEF Age
<1> QED BY <1>2, <1>3, <1>4, <1>5

(* A step of a call that is not a fetch of the audit's, or of a fetch that  *)
(* the audit has begun.                                                     *)
LEMMA CallGoesOn ==
  ASSUME AuditInv, UNCHANGED <<ledger, shown, audit>>, NEW c \in Calls,
         Ask(c) \/ Resume(c) \/ Return(c) \/ RaiseOnBody(c) \/ TimeOut(c),
         Ask(c) /\ ~begun => c \in Creations
  PROVE  AuditInv'
<1>1. UNCHANGED <<status, recent, paid, shown>>
      /\ UNCHANGED <<records, found, unanswered, due, reports, begun>>
  BY DEF ledger, audit
<1>2. ClientInv' /\ ClientInv /\ UNCHANGED answers
  BY ClientStep, ClientAssumption DEF AuditInv, Next, Ask, Resume, Return, RaiseOnBody,
     TimeOut, Send, End
<1>3. LedgerOK' /\ RecordsOK' /\ DueIsPaid' /\ NothingIsDropped' /\ MissedWebhooksAreReported'
  BY <1>1 DEF AuditInv, LedgerOK, RecordsOK, DueIsPaid, NothingIsDropped, Listed,
              MissedWebhooksAreReported
<1>4. DueIsShown'
  BY <1>1, <1>2 DEF AuditInv, DueIsShown
<1>5. job \in [Calls -> Job] /\ \A d \in Calls : d # c => job'[d] = job[d]
  BY <1>2 DEF ClientInv, TypeOK, Ask, Resume, Return, RaiseOnBody, TimeOut, Send, End
<1>6. ReturnsAreAnswered'
  <2>1. ASSUME job'[c].at = "returned" PROVE \E a \in answers : a.request = Current(c)'
    <3>1. CASE Ask(c) \/ Resume(c)
      BY <1>5, <2>1, <3>1 DEF Ask, Resume, Send
    <3>2. CASE Return(c)
      <4>1. job'[c].attempt = job[c].attempt
        BY <1>5, <3>2 DEF Return, End, Job
      <4> QED BY <3>2, <4>1 DEF Return, Answered, Current
    <3>3. CASE RaiseOnBody(c)
      BY <1>5, <2>1, <3>3 DEF RaiseOnBody, End, Job
    <3>4. CASE TimeOut(c)
      BY <1>5, <2>1, <3>4 DEF TimeOut, End, Job
    <3> QED BY <3>1, <3>2, <3>3, <3>4
  <2>2. ASSUME NEW d \in Calls, d # c, job'[d].at = "returned"
        PROVE  \E a \in answers : a.request = Current(d)'
    BY <1>5, <2>2 DEF AuditInv, ReturnsAreAnswered, Current
  <2> QED BY <1>2, <2>1, <2>2 DEF ReturnsAreAnswered
<1>7. FetchesAreOwn'
  <2>1. ASSUME ~begun, NEW o \in Orders PROVE Untouched(FetchOf[o])'
    <3>1. Untouched(FetchOf[o]) /\ FetchOf[o] \in Calls /\ FetchOf[o] \notin Creations
      BY <2>1, FetchCreatesNothing DEF AuditInv, FetchesAreOwn
    <3>2. FetchOf[o] # c
      BY <2>1, <3>1 DEF Untouched, Resume, Return, RaiseOnBody, TimeOut, Answered
    <3>3. transit' \subseteq transit \cup {<<c, job[c].attempt + 1>>}
      BY DEF Ask, Resume, Return, RaiseOnBody, TimeOut, Send, End
    <3> QED BY <1>2, <1>5, <3>1, <3>2, <3>3 DEF Untouched
  <2> QED BY <1>1, <2>1 DEF FetchesAreOwn
<1> QED BY <1>2, <1>3, <1>4, <1>6, <1>7 DEF AuditInv

(* An answer of the gateway shows what was paid before it was given.        *)
LEMMA ServingKeeps ==
  ASSUME AuditInv, NEW r \in transit, NEW body \in Bodies, GatewayServes(r, body)
  PROVE  AuditInv'
<1>1. UNCHANGED <<status, recent, paid>>
      /\ UNCHANGED <<records, found, unanswered, due, reports, begun>>
  BY DEF GatewayServes, ledger, audit
<1>2. /\ job' = job /\ transit' = transit \ {r}
      /\ answers' = answers \cup {[request |-> r, body |-> body]}
      /\ shown \subseteq shown' /\ ((\E o \in paid : r[1] = FetchOf[o]) => r \in shown')
  BY DEF GatewayServes, Serve
<1>3. ClientInv'
  BY ClientStep, ClientAssumption DEF AuditInv, Next, GatewayServes
<1>4. LedgerOK' /\ RecordsOK' /\ DueIsPaid' /\ NothingIsDropped' /\ MissedWebhooksAreReported'
  BY <1>1 DEF AuditInv, LedgerOK, RecordsOK, DueIsPaid, NothingIsDropped, Listed,
              MissedWebhooksAreReported
<1>5. DueIsShown'
  <2>1. ASSUME NEW o \in due, NEW a \in answers', a.request[1] = FetchOf[o]
        PROVE  a.request \in shown'
    <3>1. CASE a \in answers
      BY <1>2, <2>1, <3>1 DEF AuditInv, DueIsShown
    <3>2. CASE a = [request |-> r, body |-> body]
      BY <1>2, <2>1, <3>2 DEF AuditInv, DueIsPaid
    <3> QED BY <1>2, <3>1, <3>2
  <2> QED BY <1>1, <2>1 DEF DueIsShown
<1>6. ReturnsAreAnswered'
  BY <1>2 DEF AuditInv, ReturnsAreAnswered, Current
<1>7. FetchesAreOwn'
  BY <1>1, <1>2 DEF AuditInv, FetchesAreOwn, Untouched
<1> QED BY <1>3, <1>4, <1>5, <1>6, <1>7 DEF AuditInv

(* The audit moves, and the client and the ledger do not.                   *)
LEMMA AuditGoesOn ==
  ASSUME AuditInv, UNCHANGED <<vars, ledger, shown, due, begun>>,
         records' \in Seq(Record), records # NotRunning,
         NothingIsDropped', MissedWebhooksAreReported'
  PROVE  AuditInv'
<1>1. UNCHANGED <<job, transit, answers, carried>> /\ UNCHANGED <<status, recent, paid>>
  BY DEF vars, ledger
<1>2. ClientInv'
  BY <1>1, ClientStep, ClientAssumption DEF AuditInv, vars
<1>3. begun /\ LedgerOK' /\ RecordsOK' /\ DueIsPaid'
  BY <1>1 DEF AuditInv, LedgerOK, RecordsOK, DueIsPaid
<1>4. FetchesAreOwn' /\ DueIsShown' /\ ReturnsAreAnswered'
  BY <1>1 DEF AuditInv, FetchesAreOwn, DueIsShown, ReturnsAreAnswered, Untouched, Current
<1> QED BY <1>2, <1>3, <1>4 DEF AuditInv

(* The row at the head is done with, and its order noted if it is due.      *)
LEMMA RowDone ==
  ASSUME AuditInv, Running, UNCHANGED <<vars, ledger, shown, due, reports, begun>>,
         records' = Tail(records), found \subseteq found', unanswered \subseteq unanswered',
         Row.op \in due /\ Row.status # "SUCCEEDED" => Row.op \in found' \cup unanswered'
  PROVE  AuditInv'
<1>1. /\ records \in Seq(Record) /\ records # <<>> /\ Len(records) \in Nat
      /\ records # NotRunning
  BY DEF Running, AuditInv, RecordsOK
<1>2. /\ Tail(records) \in Seq(Record) /\ Len(Tail(records)) = Len(records) - 1
      /\ \A i \in 1..(Len(records) - 1) : Tail(records)[i] = records[i + 1]
      /\ Head(records) = records[1]
  BY <1>1
<1>3. ASSUME NEW o \in due PROVE o \in found' \cup unanswered' \/ Listed(o)'
  <2>1. CASE o \in found \cup unanswered
    BY <2>1
  <2>2. CASE Listed(o)
    <3>1. PICK i \in 1..Len(records) : records[i].op = o /\ records[i].status # "SUCCEEDED"
      BY <2>2 DEF Listed
    <3>2. CASE i = 1
      BY <1>2, <1>3, <3>1, <3>2 DEF Row
    <3>3. CASE i # 1
      <4> DEFINE j == i - 1
      <4>1. j \in 1..(Len(records) - 1) /\ j + 1 = i
        BY <1>1, <3>3
      <4> HIDE DEF j
      <4>2. records'[j] = records[i] /\ j \in 1..Len(records')
        BY <1>2, <4>1
      <4> QED BY <3>1, <4>2 DEF Listed
    <3> QED BY <3>2, <3>3
  <2> QED BY <1>1, <2>1, <2>2 DEF AuditInv, NothingIsDropped
<1>4. NothingIsDropped' /\ MissedWebhooksAreReported'
  BY <1>3 DEF NothingIsDropped, AuditInv, MissedWebhooksAreReported
<1> QED BY <1>1, <1>2, <1>4, AuditGoesOn

(* What is due is paid, hence an order, whose answer shows the payment.     *)
LEMMA RowsAreDone ==
  ASSUME AuditInv, Skip \/ Check \/ CheckFails
  PROVE  AuditInv'
<1>1. due \subseteq Orders
  BY DEF AuditInv, DueIsPaid, LedgerOK
<1>2. CASE Skip
  <2>1. Row.op \notin due
    BY <1>1, <1>2 DEF Skip
  <2>2. records' = Tail(records)
    BY <1>2 DEF Skip, AfterSkipped
  <2> QED BY <1>2, <2>1, <2>2, RowDone DEF Skip
<1>3. CASE Check
  <2> DEFINE call == FetchOf[Row.op]
  <2>1. job[call].at = "returned" /\ Row.op \in Orders
    BY <1>3 DEF Check
  <2>2. PICK a \in answers : a.request = Current(call)
    BY <2>1, FetchCreatesNothing DEF AuditInv, ReturnsAreAnswered
  <2>3. a.request[1] = call
    BY <2>2 DEF Current
  <2>4. Row.op \in due => Current(call) \in shown
    BY <2>2, <2>3 DEF AuditInv, DueIsShown
  <2>5. Row.op \in due /\ Row.status # "SUCCEEDED" => Row.op \in found' \cup unanswered'
    BY <1>3, <2>4 DEF Check
  <2> QED BY <1>3, <2>5, RowDone DEF Check
<1>4. CASE CheckFails
  BY <1>4, RowDone DEF CheckFails
<1> QED BY <1>2, <1>3, <1>4

(* The end of the audit, with a report or without.                          *)
LEMMA AuditEnds ==
  ASSUME AuditInv, Finish \/ Abandon
  PROVE  AuditInv'
<1>1. NotRunning \in Seq(Record) /\ NotRunning # <<>>
  BY DEF NotRunning, Record, Statuses
<1>2. NothingIsDropped' /\ records' \in Seq(Record)
  BY <1>1 DEF Finish, Abandon, NothingIsDropped, NotRunning
<1>3. MissedWebhooksAreReported'
  <2>1. CASE Finish
    <3>1. due \subseteq found \cup unanswered
      BY <1>1, <2>1 DEF AuditInv, NothingIsDropped, Finish, Listed
    <3> QED BY <2>1, <3>1 DEF AuditInv, Finish, MissedWebhooksAreReported
  <2>2. CASE Abandon
    BY <2>2 DEF AuditInv, Abandon, MissedWebhooksAreReported
  <2> QED BY <2>1, <2>2
<1>4. records # NotRunning
  BY <1>1 DEF Finish, Abandon
<1> QED BY <1>2, <1>3, <1>4, AuditGoesOn DEF Finish, Abandon

(* The audit lists every row it should, and has asked for nothing yet.      *)
LEMMA BeginLists ==
  ASSUME AuditInv, Begin
  PROVE  AuditInv'
<1>1. /\ ~begun /\ begun' /\ UNCHANGED <<job, transit, answers, carried>>
      /\ UNCHANGED <<status, recent, paid, shown, found, unanswered, reports>>
      /\ due' = {o \in recent \cap paid : status[o] # "SUCCEEDED"}
  BY DEF Begin, vars, ledger
<1>2. /\ status \in [Operations -> Statuses] /\ IsFiniteSet(recent)
      /\ recent \subseteq Operations /\ paid \subseteq Orders
  BY DEF AuditInv, LedgerOK
<1>3. IsFiniteSet(Rows) /\ Rows \subseteq Record
  <2> DEFINE S == {o \in recent : Kind[o] # "nothing"}
             f == [o \in S |-> [op |-> o, status |-> status[o]]]
  <2>1. IsFiniteSet(S)
    BY <1>2, FS_Subset
  <2>2. f \in Surjection(S, Rows)
    BY DEF Rows, Surjection
  <2>3. IsFiniteSet(Rows)
    BY <2>1, <2>2, FS_Surjection
  <2>4. Rows \subseteq Record
    BY <1>2 DEF Rows, Record
  <2> QED BY <2>3, <2>4
<1>4. records' \in SetToSeqs(Rows)
  BY DEF Begin
<1>5. /\ records' \in Seq(Rows)
      /\ \A x \in Rows : \E i \in 1..Len(records') : records'[i] = x
  BY <1>3, <1>4, OrderingsAreComplete
<1>6. records' \in Seq(Record)
  BY <1>3, <1>5
<1>7. ASSUME NEW o \in due' PROVE Listed(o)'
  <2>1. o \in recent /\ o \in Orders /\ status[o] # "SUCCEEDED"
    BY <1>1, <1>2, <1>7
  <2>2. [op |-> o, status |-> status[o]] \in Rows
    BY <2>1 DEF Rows, Orders
  <2>3. PICK i \in 1..Len(records') : records'[i] = [op |-> o, status |-> status[o]]
    BY <1>5, <2>2
  <2>4. records'[i].op = o /\ records'[i].status # "SUCCEEDED"
    BY <2>1, <2>3
  <2> QED BY <2>4 DEF Listed
<1>8. ClientInv'
  BY <1>1, ClientStep, ClientAssumption DEF AuditInv, vars
<1>9. LedgerOK' /\ RecordsOK' /\ DueIsPaid' /\ NothingIsDropped' /\ FetchesAreOwn'
  BY <1>1, <1>6, <1>7 DEF AuditInv, LedgerOK, RecordsOK, DueIsPaid, NothingIsDropped,
                         FetchesAreOwn
<1>10. DueIsShown'
  <2>1. ASSUME NEW o \in due', NEW a \in answers, a.request[1] = FetchOf[o] PROVE FALSE
    <3>1. Untouched(FetchOf[o])
      BY <1>1, <1>2, <2>1 DEF AuditInv, FetchesAreOwn
    <3> QED BY <2>1, <3>1 DEF Untouched
  <2> QED BY <1>1, <2>1 DEF DueIsShown
<1>11. ReturnsAreAnswered' /\ MissedWebhooksAreReported'
  BY <1>1 DEF AuditInv, ReturnsAreAnswered, MissedWebhooksAreReported, Current
<1> QED BY <1>8, <1>9, <1>10, <1>11 DEF AuditInv

(* One step per action. *)
LEMMA AuditInvNext == AuditInv /\ [AuditNext]_auditVars => AuditInv'
<1> SUFFICES ASSUME AuditInv, [AuditNext]_auditVars PROVE AuditInv'
  OBVIOUS
<1>1. CASE \E o \in Operations : Request(o) \/ Pay(o) \/ Settle(o)
  BY <1>1, LedgerKeeps
<1>2. CASE Age
  <2>1. CASE \E o : o \in Operations
    BY <1>2, <2>1, LedgerKeeps
  <2>2. CASE ~ \E o : o \in Operations
    BY <1>2, <2>2 DEF AuditInv, LedgerOK, Age
  <2> QED BY <2>1, <2>2
<1>3. CASE CallsStep
  <2>1. ASSUME NEW c \in Creations, Ask(c) PROVE AuditInv'
    BY <1>3, <2>1, CallGoesOn DEF CallsStep, Creations
  <2>2. ASSUME NEW c \in Calls, Resume(c) \/ Return(c) \/ RaiseOnBody(c) \/ TimeOut(c)
        PROVE  AuditInv'
    <3>1. ~ Ask(c)
      BY <2>2 DEF Ask, Resume, Return, RaiseOnBody, TimeOut, Answered
    <3> QED BY <1>3, <2>2, <3>1, CallGoesOn DEF CallsStep
  <2> QED BY <1>3, <2>1, <2>2 DEF CallsStep
<1>4. CASE \E r \in transit : \E body \in Bodies : GatewayServes(r, body)
  BY <1>4, ServingKeeps
<1>5. CASE Begin
  BY <1>5, BeginLists
<1>6. CASE Fetch
  <2>1. begun /\ FetchOf[Row.op] \in Calls /\ Ask(FetchOf[Row.op])
    BY <1>6, FetchCreatesNothing DEF Fetch, Running, AuditInv, RecordsOK
  <2> QED BY <1>6, <2>1, CallGoesOn DEF Fetch
<1>7. CASE Skip \/ Check \/ CheckFails
  BY <1>7, RowsAreDone
<1>8. CASE Finish \/ Abandon
  BY <1>8, AuditEnds
<1>9. CASE UNCHANGED auditVars
  <2>1. UNCHANGED <<vars, ledger, shown, audit>>
    BY <1>9 DEF auditVars
  <2>2. LedgerOK' /\ paid' = paid
    BY <2>1 DEF AuditInv, LedgerOK, ledger
  <2> QED BY <2>1, <2>2, LedgerGoesOn
<1> QED BY <1>1, <1>2, <1>3, <1>4, <1>5, <1>6, <1>7, <1>8, <1>9 DEF AuditNext

(* However the requests of the client are delayed, repeated and reordered,   *)
(* and whatever the ledger does meanwhile, a report misses no order that was *)
(* due when the audit began, save those whose fetch failed                  *)
(* (reconciliation.py, "Missed Webhooks").                                  *)
THEOREM ReportsAreComplete == AuditSpec => []MissedWebhooksAreReported
<1>1. AuditInv => MissedWebhooksAreReported
  BY DEF AuditInv
<1> QED BY <1>1, AuditInvInit, AuditInvNext, PTL DEF AuditSpec
==============================================================================
