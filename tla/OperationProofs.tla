---------------------------- MODULE OperationProofs ----------------------------
(***************************************************************************)
(* What holds of OperationPipeline for any operations, amounts, sessions,  *)
(* limits and faults: the types, the reservations and the idempotency keys *)
(* however the handlers interleave, then what they keep when they are      *)
(* isolated.                                                               *)
(***************************************************************************)
EXTENDS OperationProperties, FiniteSetTheorems, TLAPS

(* A session that works on one operation names one of Ops: without it, no   *)
(* amount is added to or taken from a budget column would be a number.     *)
JobsNameOps ==
  \A s \in Sessions : Step(s) \notin {"idle", "sweep", "commit"} => Op(s) \in Ops

TypeInv == TypeOK /\ JobsNameOps
------------------------------------------------------------------------------
(* A session moves on to another step. *)
LEMMA GotoType ==
  ASSUME TypeInv, NEW s \in Sessions, NEW step \in Steps, Goto(s, step),
         step \in {"sweep", "commit"} \/ Op(s) \in Ops
  PROVE  job' \in [Sessions -> JobRows] /\ JobsNameOps'
<1>1. job \in [Sessions -> JobRows]
  BY DEF TypeInv, TypeOK
<1>2. job' \in [Sessions -> JobRows]
  BY <1>1 DEF Goto, JobRows
<1>3. ASSUME NEW t \in Sessions, Step(t)' \notin {"idle", "sweep", "commit"}
      PROVE  Op(t)' \in Ops
  BY <1>1, <1>3 DEF TypeInv, JobsNameOps, Goto, JobRows, Step, Op
<1> QED BY <1>2, <1>3 DEF JobsNameOps

(* A session that moves to another step keeps its call. *)
LEMMA MovedOn ==
  ASSUME TypeInv, NEW s \in Sessions, NEW step, Goto(s, step)
  PROVE  /\ Step(s)' = step /\ Op(s)' = Op(s) /\ job'[s].call = job[s].call
         /\ job'[s].event = job[s].event /\ job'[s].todo = job[s].todo
         /\ \A t \in Sessions \ {s} : job'[t] = job[t]
BY DEF Goto, TypeInv, TypeOK, JobRows, Step, Op

(* A session ends. *)
LEMMA CloseType ==
  ASSUME TypeInv, NEW s \in Sessions, Close(s)
  PROVE  /\ job' \in [Sessions -> JobRows]
         /\ seen' \in [Sessions -> SeenRows]
         /\ dirty' \in [Sessions -> DirtyRows]
         /\ locks' \in [Sessions -> LockRows]
         /\ JobsNameOps'
<1>1. /\ NoJob \in JobRows
      /\ NothingSeen \in SeenRows
      /\ Clean \in DirtyRows
      /\ NoLocks \in LockRows
  BY DEF NoJob, JobRows, Steps, NothingSeen, SeenRows, StatusOrAbsent, Clean, DirtyRows,
         EventStatus, NoLocks, LockRows
<1>2. /\ job' \in [Sessions -> JobRows]
      /\ seen' \in [Sessions -> SeenRows]
      /\ dirty' \in [Sessions -> DirtyRows]
      /\ locks' \in [Sessions -> LockRows]
  BY <1>1 DEF TypeInv, TypeOK, Close
<1>3. JobsNameOps'
  BY DEF TypeInv, TypeOK, JobsNameOps, Close, NoJob, JobRows, Step, Op
<1> QED BY <1>2, <1>3

(* A session opens for a call about an operation. *)
LEMMA OpenType ==
  ASSUME TypeInv, NEW s \in Sessions, NEW o \in Ops, NEW c, NEW step \in Steps,
         Open(s, c, o, step)
  PROVE  /\ job' \in [Sessions -> JobRows]
         /\ calls' \in [Ops -> Nat]
         /\ JobsNameOps'
<1>1. [NoJob EXCEPT !.call = c, !.op = o, !.step = step] \in JobRows
  BY DEF Open, NoJob, JobRows
<1>2. job' \in [Sessions -> JobRows] /\ calls' \in [Ops -> Nat]
  BY <1>1 DEF TypeInv, TypeOK, Open
<1>3. JobsNameOps'
  BY <1>1 DEF TypeInv, TypeOK, JobsNameOps, Open, NoJob, JobRows, Step, Op
<1> QED BY <1>2, <1>3

(* What a session has written stays a row of the right shape. *)
LEMMA DirtyType ==
  ASSUME TypeInv, NEW s \in Sessions, NEW row \in DirtyRows,
         dirty' = [dirty EXCEPT ![s] = row]
  PROVE  dirty' \in [Sessions -> DirtyRows]
BY DEF TypeInv, TypeOK

(* A pending status. *)
LEMMA PendingStatusType ==
  ASSUME NEW row \in DirtyRows, NEW o \in Ops, NEW st \in StatusOrAbsent
  PROVE  [row EXCEPT !.status[o] = st] \in DirtyRows
BY DEF DirtyRows

(* Pending changes of the two columns. *)
LEMMA PendingBudgetType ==
  ASSUME NEW row \in DirtyRows, NEW r \in Int, NEW p \in Int
  PROVE  [row EXCEPT !.reserved = r, !.spend = p] \in DirtyRows
BY DEF DirtyRows

(* A row lock on the mandate, or locks on operations. *)
LEMMA LockRowType ==
  ASSUME NEW row \in LockRows, NEW held \in BOOLEAN, NEW S \in SUBSET Ops
  PROVE  /\ [row EXCEPT !.mandate = held] \in LockRows
         /\ [row EXCEPT !.ops = S] \in LockRows
BY DEF LockRows

(* A session that takes the mandate's row lock, or its operation's, holds  *)
(* well-typed locks (SELECT ... FOR UPDATE, UPDATE).                       *)
LEMMA LockType ==
  ASSUME TypeInv, NEW s \in Sessions, NEW S \in SUBSET Ops,
         \/ locks' = [locks EXCEPT ![s].mandate = TRUE]
         \/ locks' = [locks EXCEPT ![s].ops = S]
  PROVE  locks' \in [Sessions -> LockRows]
<1>1. locks \in [Sessions -> LockRows] /\ locks[s] \in LockRows
  BY DEF TypeInv, TypeOK
<1>2. CASE locks' = [locks EXCEPT ![s].mandate = TRUE]
  <2>1. [locks[s] EXCEPT !.mandate = TRUE] \in LockRows
    BY <1>1, LockRowType
  <2>2. locks' = [locks EXCEPT ![s] = [locks[s] EXCEPT !.mandate = TRUE]]
    BY <1>2
  <2> HIDE DEF LockRows
  <2> QED BY <1>1, <2>1, <2>2
<1>3. CASE locks' = [locks EXCEPT ![s].ops = S]
  BY <1>1, <1>3, LockRowType
<1> QED BY <1>2, <1>3
------------------------------------------------------------------------------
(* The request pipeline. *)

LEMMA RequestOpenType ==
  ASSUME TypeInv, NEW s \in Sessions, NEW o \in Ops, RequestOpen(s, o)
  PROVE  TypeInv'
<1>1. /\ job' \in [Sessions -> JobRows]
      /\ calls' \in [Ops -> Nat]
      /\ JobsNameOps'
  BY OpenType DEF RequestOpen, Steps
<1>2. seen' \in [Sessions -> SeenRows]
  BY DEF RequestOpen, TypeInv, TypeOK, SeenRows
<1> QED BY <1>1, <1>2 DEF TypeInv, TypeOK, RequestOpen, dbVars, gatewayVars

(* A request that finds its key taken only closes its session.             *)
LEMMA RequestDuplicateType ==
  ASSUME TypeInv, NEW s \in Sessions, RequestDuplicate(s)
  PROVE  TypeInv'
BY CloseType DEF TypeInv, TypeOK, RequestDuplicate, dbVars, gatewayVars, historyVars

(* Committing a decided operation (operations.py, the denial and review    *)
(* branches) keeps the types.                                              *)
LEMMA CommitStatusType ==
  ASSUME TypeInv, NEW s \in Sessions, NEW st \in StatusOrAbsent, CommitStatus(s, st)
  PROVE  TypeInv'
<1>1. status' \in [Ops -> StatusOrAbsent]
  BY DEF CommitStatus, TypeInv, TypeOK
<1> QED BY <1>1, CloseType DEF TypeInv, TypeOK, CommitStatus, gatewayVars, historyVars

(* A granted reserve_budget leaves well-typed locks, pending writes and    *)
(* grants.                                                                 *)
LEMMA GrantReservationType ==
  ASSUME PipelineConstants, TypeInv, NEW s \in Sessions, Op(s) \in Ops, GrantReservation(s)
  PROVE  /\ locks' \in [Sessions -> LockRows]
         /\ dirty' \in [Sessions -> DirtyRows]
         /\ grants' \in [Ops -> Nat]
<1>1. locks' \in [Sessions -> LockRows]
  BY LockType DEF GrantReservation
<1>2. grants' \in [Ops -> Nat]
  BY DEF GrantReservation, TypeInv, TypeOK
<1>3. dirty' \in [Sessions -> DirtyRows]
  <2> DEFINE row == [dirty[s] EXCEPT !.reserved = Amount[Op(s)]]
             row2 == [row EXCEPT !.status[Op(s)] = "RESERVED"]
  <2>1. Amount[Op(s)] \in Int
    BY DEF PipelineConstants
  <2>2. dirty[s] \in DirtyRows
    BY DEF TypeInv, TypeOK
  <2>3. row \in DirtyRows
    BY <2>1, <2>2 DEF DirtyRows
  <2>4. row2 \in DirtyRows
    BY <2>3, PendingStatusType DEF StatusOrAbsent, OperationStatus
  <2>5. dirty' = [dirty EXCEPT ![s] = row2]
    BY <2>2 DEF GrantReservation, TypeInv, TypeOK, DirtyRows
  <2> QED BY <2>4, <2>5, DirtyType
<1> QED BY <1>1, <1>2, <1>3

(* The decision of request_financial_operation keeps the types, whatever   *)
(* the policy says.                                                        *)
LEMMA RequestDecideType ==
  ASSUME PipelineConstants, TypeInv, NEW s \in Sessions, RequestDecide(s)
  PROVE  TypeInv'
<1>1. Op(s) \in Ops
  BY DEF RequestDecide, TypeInv, JobsNameOps
<1>2. CASE CommitStatus(s, "POLICY_REJECTED") \/ CommitStatus(s, "REQUIRES_APPROVAL")
  BY <1>2, CommitStatusType DEF StatusOrAbsent, OperationStatus
<1>3. CASE /\ GrantReservation(s) /\ Goto(s, "dispatch")
           /\ UNCHANGED <<dbVars, gatewayVars, seen, age, calls>>
  <2>1. job' \in [Sessions -> JobRows] /\ JobsNameOps'
    BY <1>1, <1>3, GotoType DEF Steps
  <2> QED BY <1>1, <1>3, <2>1, GrantReservationType DEF TypeInv, TypeOK, dbVars, gatewayVars
<1> QED BY <1>2, <1>3 DEF RequestDecide
------------------------------------------------------------------------------
(* The dispatch. *)

LEMMA DispatchAcceptedType ==
  ASSUME PipelineConstants, TypeInv, NEW s \in Sessions, DispatchAccepted(s)
  PROVE  TypeInv'
<1> DEFINE o == Op(s)
<1>0. o \in Ops
  BY DEF DispatchAccepted, TypeInv, JobsNameOps
<1>1. job' \in [Sessions -> JobRows] /\ JobsNameOps'
  BY GotoType DEF DispatchAccepted, Steps
<1>2. dirty' \in [Sessions -> DirtyRows]
  <2> DEFINE row == dirty[s]
             ro == IF Kind[o] = "REFUND" THEN row.reserved - Amount[o] ELSE row.reserved
             sp == IF Kind[o] = "REFUND" THEN row.spend + Amount[o] ELSE row.spend
             st == IF Kind[o] = "REFUND" THEN "SUCCEEDED" ELSE "EXECUTING"
  <2>1. Amount[o] \in Int /\ created[o] + 1 \in Nat
    BY <1>0 DEF PipelineConstants, TypeInv, TypeOK
  <2>2. row \in DirtyRows
    BY DEF TypeInv, TypeOK
  <2>3. st \in StatusOrAbsent
    BY DEF StatusOrAbsent, OperationStatus
  <2>4. ro \in Int /\ sp \in Int
    BY <2>1, <2>2 DEF DirtyRows
  <2>5. dirty' = [dirty EXCEPT ![s] = [row EXCEPT !.insert = created[o] + 1, !.status[o] = st,
                                                   !.reserved = ro, !.spend = sp]]
    BY <2>2 DEF DispatchAccepted, TypeInv, TypeOK, DirtyRows
  <2>6. [row EXCEPT !.insert = created[o] + 1, !.status[o] = st,
                    !.reserved = ro, !.spend = sp] \in DirtyRows
    <3> HIDE DEF st, ro, sp, row
    <3> QED BY <1>0, <2>1, <2>2, <2>3, <2>4 DEF DirtyRows
  <2> QED BY <2>5, <2>6, DirtyType
<1>3. created' \in [Ops -> Nat]
  BY <1>0 DEF DispatchAccepted, TypeInv, TypeOK, CreateAtGateway
<1> QED BY <1>1, <1>2, <1>3 DEF TypeInv, TypeOK, DispatchAccepted, dbVars, historyVars

(* An operation type without a branch in the dispatcher keeps the types.   *)
LEMMA DispatchNothingType ==
  ASSUME TypeInv, NEW s \in Sessions, DispatchNothing(s)
  PROVE  TypeInv'
<1>1. job' \in [Sessions -> JobRows] /\ JobsNameOps'
  BY GotoType DEF DispatchNothing, Steps
<1> QED BY <1>1 DEF TypeInv, TypeOK, DispatchNothing, dbVars, gatewayVars, historyVars

(* A gateway call that raises, carried out or not, keeps the types.        *)
LEMMA DispatchFailsType ==
  ASSUME PipelineConstants, TypeInv, NEW s \in Sessions, DispatchFails(s)
  PROVE  TypeInv'
<1> DEFINE o == Op(s)
<1>0. o \in Ops
  BY DEF DispatchFails, TypeInv, JobsNameOps
<1>1. job' \in [Sessions -> JobRows] /\ JobsNameOps'
  BY GotoType DEF DispatchFails, Steps
<1>2. dirty' \in [Sessions -> DirtyRows]
  <2> DEFINE row == [dirty[s] EXCEPT !.reserved = dirty[s].reserved - Amount[o]]
             row2 == [row EXCEPT !.status[o] = "FAILED"]
  <2>1. Amount[o] \in Int
    BY <1>0 DEF PipelineConstants
  <2>2. dirty[s] \in DirtyRows
    BY DEF TypeInv, TypeOK
  <2>3. row \in DirtyRows
    BY <2>1, <2>2 DEF DirtyRows
  <2>4. row2 \in DirtyRows
    BY <1>0, <2>3, PendingStatusType DEF StatusOrAbsent, OperationStatus
  <2>5. dirty' = [dirty EXCEPT ![s] = row2]
    BY <2>2 DEF DispatchFails, TypeInv, TypeOK, DirtyRows
  <2> QED BY <2>4, <2>5, DirtyType
<1>3. created' \in [Ops -> Nat]
  BY <1>0 DEF DispatchFails, TypeInv, TypeOK, CreateAtGateway
<1> QED BY <1>1, <1>2, <1>3 DEF TypeInv, TypeOK, DispatchFails, dbVars, historyVars
------------------------------------------------------------------------------
(* Human review. *)

LEMMA ApproveOpenType ==
  ASSUME TypeInv, NEW s \in Sessions, NEW o \in Ops, ApproveOpen(s, o)
  PROVE  TypeInv'
<1>1. /\ job' \in [Sessions -> JobRows]
      /\ calls' \in [Ops -> Nat]
      /\ JobsNameOps'
  BY OpenType DEF ApproveOpen, Steps
<1> QED BY <1>1 DEF TypeInv, TypeOK, ApproveOpen, dbVars, gatewayVars

(* Opening a rejection by the reviewer keeps the types.                    *)
LEMMA RejectOpenType ==
  ASSUME TypeInv, NEW s \in Sessions, NEW o \in Ops, RejectOpen(s, o)
  PROVE  TypeInv'
<1>1. /\ job' \in [Sessions -> JobRows]
      /\ calls' \in [Ops -> Nat]
      /\ JobsNameOps'
  BY OpenType DEF RejectOpen, Steps
<1>2. dirty' \in [Sessions -> DirtyRows]
  BY PendingStatusType, DirtyType
     DEF RejectOpen, TypeInv, TypeOK, StatusOrAbsent, OperationStatus
<1> QED BY <1>1, <1>2 DEF TypeInv, TypeOK, RejectOpen, dbVars, gatewayVars

(* The reservation of an approved operation, granted or refused, keeps the *)
(* types.                                                                  *)
LEMMA ApproveReserveType ==
  ASSUME PipelineConstants, TypeInv, NEW s \in Sessions, ApproveReserve(s)
  PROVE  TypeInv'
<1>0. Op(s) \in Ops
  BY DEF ApproveReserve, TypeInv, JobsNameOps
<1>1. job' \in [Sessions -> JobRows] /\ JobsNameOps'
  BY <1>0, GotoType DEF ApproveReserve, Steps
<1>2. CASE GrantReservation(s)
  BY <1>0, <1>1, <1>2, GrantReservationType
     DEF TypeInv, TypeOK, ApproveReserve, dbVars, gatewayVars
<1>3. CASE /\ dirty' = [dirty EXCEPT ![s].status[Op(s)] = "POLICY_REJECTED"]
           /\ UNCHANGED <<locks, grants>>
  <2>1. dirty' \in [Sessions -> DirtyRows]
    BY <1>0, <1>3, PendingStatusType, DirtyType
       DEF TypeInv, TypeOK, StatusOrAbsent, OperationStatus
  <2> QED BY <1>1, <1>3, <2>1 DEF TypeInv, TypeOK, ApproveReserve, dbVars, gatewayVars
<1> QED BY <1>2, <1>3 DEF ApproveReserve

(* The flush of an approved operation keeps the types.                     *)
LEMMA ApproveFlushType ==
  ASSUME TypeInv, NEW s \in Sessions, ApproveFlush(s)
  PROVE  TypeInv'
<1>0. Op(s) \in Ops
  BY DEF ApproveFlush, TypeInv, JobsNameOps
<1>1. job' \in [Sessions -> JobRows] /\ JobsNameOps'
  BY <1>0, GotoType DEF ApproveFlush, Steps
<1>2. {Op(s)} \in SUBSET Ops
  BY <1>0
<1>3. locks' \in [Sessions -> LockRows]
  BY <1>2, LockType DEF ApproveFlush
<1> QED BY <1>1, <1>3 DEF TypeInv, TypeOK, ApproveFlush, dbVars, gatewayVars, historyVars
------------------------------------------------------------------------------
(* Checkout verification. *)

LEMMA VerifyOpenType ==
  ASSUME TypeInv, NEW s \in Sessions, NEW o \in Ops, VerifyOpen(s, o)
  PROVE  TypeInv'
<1>1. /\ job' \in [Sessions -> JobRows]
      /\ calls' \in [Ops -> Nat]
      /\ JobsNameOps'
  BY OpenType DEF VerifyOpen, Steps
<1>2. seen' \in [Sessions -> SeenRows]
  BY DEF VerifyOpen, TypeInv, TypeOK, SeenRows
<1> QED BY <1>1, <1>2 DEF TypeInv, TypeOK, VerifyOpen, dbVars, gatewayVars

(* verify_payment's update of the operation keeps the types.               *)
LEMMA VerifyRowType ==
  ASSUME TypeInv, NEW s \in Sessions, VerifyRow(s)
  PROVE  TypeInv'
<1>0. Op(s) \in Ops
  BY DEF VerifyRow, TypeInv, JobsNameOps
<1>1. job' \in [Sessions -> JobRows] /\ JobsNameOps'
  BY <1>0, GotoType DEF VerifyRow, Steps
<1>2. dirty' \in [Sessions -> DirtyRows]
  BY <1>0, PendingStatusType, DirtyType
     DEF VerifyRow, TypeInv, TypeOK, StatusOrAbsent, OperationStatus
<1> QED BY <1>1, <1>2 DEF TypeInv, TypeOK, VerifyRow, dbVars, gatewayVars, historyVars
------------------------------------------------------------------------------
(* Webhooks. *)

(* An event names an order of an operation.                                *)
LEMMA EventParts ==
  ASSUME PipelineConstants, NEW e \in Events
  PROVE  e[1] \in EventTypes /\ e[2][1] \in Ops /\ e[2][2] \in Nat
<1>1. e[1] \in EventTypes /\ e[2] \in Orders
  BY DEF Events
<1>2. PICK o \in Ops : e[2] \in {o} \X (1..MaxCalls[o])
  BY <1>1 DEF Orders
<1>3. MaxCalls[o] \in Nat
  BY DEF PipelineConstants
<1> QED BY <1>1, <1>2, <1>3

(* A webhook that begins keeps the types.                                  *)
LEMMA WebhookOpenType ==
  ASSUME PipelineConstants, TypeInv, NEW s \in Sessions, NEW e \in Events, WebhookOpen(s, e)
  PROVE  TypeInv'
<1> DEFINE row == [NoJob EXCEPT !.call = "webhook", !.step = "record",
                     !.event = e[1], !.op = e[2][1], !.order = e[2][2]]
<1>1. e[1] \in EventTypes /\ e[2][1] \in Ops /\ e[2][2] \in Nat
  BY EventParts
<1>2. row \in JobRows
  BY <1>1 DEF WebhookOpen, NoJob, JobRows, Steps
<1>3. job' \in [Sessions -> JobRows] /\ JobsNameOps'
  BY <1>1, <1>2 DEF WebhookOpen, TypeInv, TypeOK, JobsNameOps, NoJob, JobRows, Step, Op
<1>4. seen' \in [Sessions -> SeenRows]
  <2>1. inbox[e].attempts \in Nat /\ seen \in [Sessions -> SeenRows]
    BY DEF TypeInv, TypeOK
  <2>2. [seen[s] EXCEPT !.attempts = inbox[e].attempts] \in SeenRows
    BY <2>1 DEF SeenRows
  <2> QED BY <2>1, <2>2 DEF WebhookOpen
<1> QED BY <1>3, <1>4 DEF TypeInv, TypeOK, WebhookOpen, dbVars, gatewayVars, historyVars

(* The flush of the webhook event, stored or refused, keeps the types.     *)
LEMMA WebhookRecordType ==
  ASSUME TypeInv, NEW s \in Sessions, WebhookRecord(s)
  PROVE  TypeInv'
<1>0. Op(s) \in Ops
  BY DEF WebhookRecord, TypeInv, JobsNameOps
<1>1. CASE Close(s)
  BY <1>1, CloseType DEF TypeInv, TypeOK, WebhookRecord, dbVars, gatewayVars, historyVars
<1>2. CASE Goto(s, "lookup") /\ UNCHANGED <<seen, dirty, locks>>
  <2>1. job' \in [Sessions -> JobRows] /\ JobsNameOps'
    BY <1>0, <1>2, GotoType DEF Steps
  <2> QED BY <1>2, <2>1 DEF TypeInv, TypeOK, WebhookRecord, dbVars, gatewayVars, historyVars
<1> QED BY <1>1, <1>2 DEF WebhookRecord

(* The handlers' verdict on an event keeps the types.                      *)
LEMMA WebhookLookupType ==
  ASSUME TypeInv, NEW s \in Sessions, WebhookLookup(s)
  PROVE  TypeInv'
<1>0. Op(s) \in Ops
  BY DEF WebhookLookup, TypeInv, JobsNameOps
<1>1. ASSUME NEW v \in EventStatus, WebhookVerdict(s, v)
      PROVE  TypeInv'
  <2>1. job' \in [Sessions -> JobRows] /\ JobsNameOps'
    BY <1>1, GotoType DEF WebhookVerdict, Steps
  <2>2. dirty' \in [Sessions -> DirtyRows]
    BY <1>1 DEF WebhookVerdict, TypeInv, TypeOK, DirtyRows
  <2> QED BY <2>1, <2>2
          DEF TypeInv, TypeOK, WebhookLookup, dbVars, gatewayVars, historyVars
<1>2. ASSUME NEW st \in StatusOrAbsent, Goto(s, "mandate"),
             dirty' = [dirty EXCEPT ![s].status[Op(s)] = st, ![s].verdict = "PROCESSED"]
      PROVE  TypeInv'
  <2>1. job' \in [Sessions -> JobRows] /\ JobsNameOps'
    BY <1>0, <1>2, GotoType DEF Steps
  <2>2. dirty' \in [Sessions -> DirtyRows]
    BY <1>0, <1>2 DEF TypeInv, TypeOK, DirtyRows, EventStatus
  <2> QED BY <2>1, <2>2
          DEF TypeInv, TypeOK, WebhookLookup, dbVars, gatewayVars, historyVars
<1> QED BY <1>1, <1>2 DEF WebhookLookup, EventStatus, StatusOrAbsent, OperationStatus

(* The webhook's unlocked read of the mandate keeps the types.             *)
LEMMA WebhookMandateType ==
  ASSUME TypeInv, NEW s \in Sessions, WebhookMandate(s)
  PROVE  TypeInv'
<1>0. Op(s) \in Ops
  BY DEF WebhookMandate, TypeInv, JobsNameOps
<1>1. job' \in [Sessions -> JobRows] /\ JobsNameOps'
  BY <1>0, GotoType DEF WebhookMandate, Steps
<1>2. seen' \in [Sessions -> SeenRows]
  BY DEF WebhookMandate, TypeInv, TypeOK, SeenRows
<1> QED BY <1>1, <1>2 DEF TypeInv, TypeOK, WebhookMandate, dbVars, gatewayVars, historyVars

(* The settlement's UPDATE of the mandate keeps the types.                 *)
LEMMA UpdateMandateType ==
  ASSUME PipelineConstants, TypeInv, NEW s \in Sessions, UpdateMandate(s)
  PROVE  TypeInv'
<1>0. Op(s) \in Ops
  BY DEF UpdateMandate, TypeInv, JobsNameOps
<1>1. job' \in [Sessions -> JobRows] /\ JobsNameOps'
  BY <1>0, GotoType DEF UpdateMandate, Steps
<1>2. locks' \in [Sessions -> LockRows]
  BY LockType DEF UpdateMandate
<1>3. dirty' \in [Sessions -> DirtyRows]
  <2> DEFINE r == IF Covered(s) THEN -Amount[Op(s)] ELSE 0
             p == IF job[s].event # "payment.failed" THEN Amount[Op(s)] ELSE 0
  <2>1. r \in Int /\ p \in Int
    BY <1>0 DEF PipelineConstants
  <2>2. dirty[s] \in DirtyRows
    BY DEF TypeInv, TypeOK
  <2>3. dirty' = [dirty EXCEPT ![s] = [dirty[s] EXCEPT !.reserved = r, !.spend = p]]
    BY <2>2 DEF UpdateMandate, TypeInv, TypeOK
  <2> HIDE DEF r, p
  <2> QED BY <2>1, <2>2, <2>3, PendingBudgetType, DirtyType
<1> QED BY <1>1, <1>2, <1>3
        DEF TypeInv, TypeOK, UpdateMandate, dbVars, gatewayVars, historyVars
------------------------------------------------------------------------------
(* The sweep. *)

LEMMA SweepOpenType ==
  ASSUME TypeInv, NEW s \in Sessions, SweepOpen(s)
  PROVE  TypeInv'
<1>1. Stuck(s) \in SUBSET Ops
  BY DEF Stuck
<1>2. [NoJob EXCEPT !.call = "sweep", !.step = "sweep", !.todo = Stuck(s)] \in JobRows
  BY <1>1 DEF SweepOpen, NoJob, JobRows, Steps
<1>3. job' \in [Sessions -> JobRows] /\ JobsNameOps'
  BY <1>2 DEF SweepOpen, TypeInv, TypeOK, JobsNameOps, NoJob, JobRows, Step, Op
<1>4. locks' \in [Sessions -> LockRows]
  BY <1>1, LockType DEF SweepOpen
<1> QED BY <1>3, <1>4 DEF TypeInv, TypeOK, SweepOpen, dbVars, gatewayVars, historyVars

(* The sweep's verdict on one operation keeps the types.                   *)
LEMMA SweepReadType ==
  ASSUME TypeInv, NEW s \in Sessions, NEW o \in Ops,
         NEW v \in {"SUCCEEDED", "FAILED", "leave"}, SweepRead(s, o, v)
  PROVE  TypeInv'
<1>0. job[s] \in JobRows /\ job[s].todo \ {o} \in SUBSET Ops
  BY DEF TypeInv, TypeOK, JobRows
<1>1. CASE v = "leave"
  <2>0. [job[s] EXCEPT !.todo = job[s].todo \ {o}] \in JobRows
    BY <1>0 DEF JobRows
  <2>1. job' \in [Sessions -> JobRows]
    BY <1>1, <2>0 DEF SweepRead, TypeInv, TypeOK
  <2>2. JobsNameOps'
    BY <1>1 DEF SweepRead, TypeInv, TypeOK, JobsNameOps, JobRows, Step, Op
  <2> QED BY <1>1, <2>1, <2>2
          DEF SweepRead, TypeInv, TypeOK, dbVars, gatewayVars, historyVars
<1>2. CASE v # "leave"
  <2>1. job' \in [Sessions -> JobRows] /\ JobsNameOps'
    BY <1>2 DEF SweepRead, TypeInv, TypeOK, JobsNameOps, JobRows, Step, Op, Steps
  <2>2. dirty' \in [Sessions -> DirtyRows]
    BY <1>2, PendingStatusType, DirtyType
       DEF SweepRead, TypeInv, TypeOK, StatusOrAbsent, OperationStatus
  <2> QED BY <1>2, <2>1, <2>2
          DEF SweepRead, TypeInv, TypeOK, dbVars, gatewayVars, historyVars
<1> QED BY <1>1, <1>2

(* The sweep's settlement of one operation keeps the types.                *)
LEMMA SweepSettleType ==
  ASSUME PipelineConstants, TypeInv, NEW s \in Sessions, SweepSettle(s)
  PROVE  TypeInv'
<1> DEFINE o == Op(s)
<1>0. o \in Ops
  BY DEF SweepSettle, TypeInv, JobsNameOps
<1>1. job' \in [Sessions -> JobRows] /\ JobsNameOps'
  BY GotoType DEF SweepSettle, Steps
<1>2. locks' \in [Sessions -> LockRows]
  BY LockType DEF SweepSettle
<1>3. dirty' \in [Sessions -> DirtyRows]
  <2> DEFINE r == dirty[s].reserved - Amount[o]
             p == IF dirty[s].status[o] = "SUCCEEDED" THEN dirty[s].spend + Amount[o]
                  ELSE dirty[s].spend
  <2>1. dirty[s] \in DirtyRows
    BY DEF TypeInv, TypeOK
  <2>2. r \in Int /\ p \in Int
    BY <1>0, <2>1 DEF PipelineConstants, DirtyRows
  <2>3. dirty' = [dirty EXCEPT ![s] = [dirty[s] EXCEPT !.reserved = r, !.spend = p]]
    BY <2>1 DEF SweepSettle, TypeInv, TypeOK, DirtyRows
  <2> HIDE DEF r, p
  <2> QED BY <2>1, <2>2, <2>3, PendingBudgetType, DirtyType
<1> QED BY <1>1, <1>2, <1>3
        DEF TypeInv, TypeOK, SweepSettle, dbVars, gatewayVars, historyVars

(* The end of the sweep's loop keeps the types.                            *)
LEMMA SweepDoneType ==
  ASSUME TypeInv, NEW s \in Sessions, SweepDone(s)
  PROVE  TypeInv'
<1>1. job' \in [Sessions -> JobRows] /\ JobsNameOps'
  BY GotoType DEF SweepDone, Steps
<1> QED BY <1>1 DEF TypeInv, TypeOK, SweepDone, dbVars, gatewayVars, historyVars
------------------------------------------------------------------------------
(* The ends of a session. *)

LEMMA CommitType ==
  ASSUME TypeInv, NEW s \in Sessions, Commit(s)
  PROVE  TypeInv'
<1>0. dirty[s] \in DirtyRows /\ seen[s] \in SeenRows
  BY DEF TypeInv, TypeOK
<1>1. status' \in [Ops -> StatusOrAbsent]
  BY <1>0 DEF Commit, TypeInv, TypeOK, DirtyRows
<1>2. mandate' \in [reserved : Int, spend : Int]
  BY <1>0 DEF Commit, TypeInv, TypeOK, DirtyRows
<1>3. txrows' \in [Ops -> SUBSET Nat]
  BY <1>0 DEF Commit, TypeInv, TypeOK, DirtyRows
<1>4. inbox' \in [Events -> [status : EventStatus, attempts : Nat]]
  <2>1. [status |-> dirty[s].verdict, attempts |-> seen[s].attempts + 1]
          \in [status : EventStatus, attempts : Nat]
    BY <1>0 DEF DirtyRows, SeenRows
  <2> QED BY <2>1 DEF Commit, TypeInv, TypeOK
<1> QED BY <1>1, <1>2, <1>3, <1>4, CloseType
        DEF TypeInv, TypeOK, Commit, gatewayVars, historyVars

(* A crash or a deadlock's victim only closes its session, which keeps the *)
(* types.                                                                  *)
LEMMA AbortType ==
  ASSUME TypeInv, NEW s \in Sessions,
         VerifyAmbiguous(s) \/ SweepAmbiguous(s) \/ Crash(s) \/ DeadlockAbort(s)
  PROVE  TypeInv'
BY CloseType DEF TypeInv, TypeOK, VerifyAmbiguous, SweepAmbiguous, Crash, DeadlockAbort,
                 dbVars, gatewayVars, historyVars

(* The payer, the gateway and the clock. *)
LEMMA OutsideType ==
  ASSUME TypeInv,
         \/ \E o \in Ops : Aging(o)
         \/ \E order \in Orders : Pay(order[1], order[2]) \/ AttemptFails(order[1], order[2])
  PROVE  TypeInv'
<1>1. ASSUME NEW o \in Ops, Aging(o) PROVE TypeInv'
  <2>1. age' \in [Ops -> Ages]
    BY <1>1 DEF Aging, TypeInv, TypeOK, Ages
  <2> QED BY <1>1, <2>1 DEF Aging, TypeInv, TypeOK, JobsNameOps, Step, Op,
                            dbVars, gatewayVars, sessionVars
<1>2. ASSUME NEW order \in Orders, Pay(order[1], order[2]) \/ AttemptFails(order[1], order[2])
      PROVE  TypeInv'
  <2>1. <<order[1], order[2]>> = order
    BY DEF Orders
  <2>2. paid' \in SUBSET Orders /\ attempted' \in SUBSET Orders
    BY <1>2, <2>1 DEF Pay, AttemptFails, TypeInv, TypeOK
  <2> QED BY <1>2, <2>2 DEF Pay, AttemptFails, TypeInv, TypeOK, JobsNameOps, Step, Op,
                            dbVars, sessionVars, historyVars
<1> QED BY <1>1, <1>2
------------------------------------------------------------------------------
(* One step of a session that goes on. *)
LEMMA ContinueType ==
  ASSUME PipelineConstants, TypeInv, NEW s \in Sessions, Continue(s)
  PROVE  TypeInv'
BY RequestDuplicateType, RequestDecideType, DispatchAcceptedType, DispatchNothingType,
   DispatchFailsType, ApproveReserveType, ApproveFlushType, VerifyRowType,
   WebhookRecordType, WebhookLookupType, WebhookMandateType, UpdateMandateType,
   SweepReadType, SweepSettleType, SweepDoneType, CommitType, AbortType
   DEF Continue

(* The initial state. *)
LEMMA InitType ==
  ASSUME Init
  PROVE  TypeInv
<1>1. /\ NoJob \in JobRows
      /\ NothingSeen \in SeenRows
      /\ Clean \in DirtyRows
      /\ NoLocks \in LockRows
  BY DEF NoJob, JobRows, Steps, NothingSeen, SeenRows, StatusOrAbsent, Clean, DirtyRows,
         EventStatus, NoLocks, LockRows
<1>2. TypeOK
  BY <1>1 DEF Init, TypeOK, StatusOrAbsent, EventStatus, Ages
<1>3. JobsNameOps
  BY DEF Init, JobsNameOps, NoJob, Step, Op
<1> QED BY <1>2, <1>3 DEF TypeInv

(* Every step. *)
LEMMA NextType ==
  ASSUME PipelineConstants, TypeInv, [Next]_vars
  PROVE  TypeInv'
<1>1. CASE UNCHANGED vars
  BY <1>1 DEF TypeInv, TypeOK, JobsNameOps, Step, Op, vars, dbVars, gatewayVars,
              sessionVars, historyVars
<1>2. ASSUME NEW s \in Sessions, NEW o \in Ops,
             \/ RequestOpen(s, o) \/ ApproveOpen(s, o) \/ RejectOpen(s, o) \/ VerifyOpen(s, o)
      PROVE  TypeInv'
  BY <1>2, RequestOpenType, ApproveOpenType, RejectOpenType, VerifyOpenType
<1>3. ASSUME NEW s \in Sessions, NEW e \in Events, WebhookOpen(s, e) PROVE TypeInv'
  BY <1>3, WebhookOpenType
<1>4. ASSUME NEW s \in Sessions, SweepOpen(s) \/ Continue(s) \/ Crash(s) PROVE TypeInv'
  BY <1>4, SweepOpenType, ContinueType, AbortType
<1> QED BY <1>1, <1>2, <1>3, <1>4, OutsideType DEF Next

(* Every handler leaves rows of the shapes the schema allows, whatever      *)
(* interleaves, crashes or fails: statuses and verdicts are enumerated,    *)
(* and the columns are integers.                                           *)
THEOREM TypeCorrect == Spec => []TypeOK
<1>1. Init => TypeInv
  BY InitType
<1>2. TypeInv /\ [Next]_vars => TypeInv'
  BY PipelineConstants, NextType
<1>3. TypeInv => TypeOK
  BY DEF TypeInv
<1> QED BY <1>1, <1>2, <1>3, PTL DEF Spec
------------------------------------------------------------------------------
(* However many sessions interleave, crash, time out or deadlock: nothing  *)
(* is dispatched without a reservation, and the budget that is taken is    *)
(* covered by the limit.                                                   *)
(*                                                                         *)
(* The argument is the row lock on the mandate.  A session that has        *)
(* reserved holds it until it commits, so until then the row is what       *)
(* reserve_budget compared with the limit, and no other session can spend  *)
(* the grant.                                                              *)

(* What a session is about to add to the mandate's spend and reservations. *)
Net(s) == dirty[s].reserved + dirty[s].spend

Pending(s) == Step(s) \in {"flush", "dispatch"}

(* The steps before a session has touched the budget. *)
CleanSteps == {"idle", "lock", "reserve", "record", "lookup", "mandate", "update"}

OneLockHolder ==
  \A s, t \in Sessions : locks[s].mandate /\ locks[t].mandate => s = t

(* An unused grant, kept by the lock, is what a session dispatches with. *)
HoldsGrant(s) ==
  Pending(s) => locks[s].mandate /\ created[Op(s)] + 1 <= grants[Op(s)]

WritesUnderLock(s) ==
  /\ Step(s) \in CleanSteps => dirty[s].reserved = 0 /\ dirty[s].spend = 0
  /\ dirty[s].reserved # 0 \/ dirty[s].spend # 0 => locks[s].mandate

SettlesForACaller(s) ==
  /\ Step(s) \in {"record", "lookup", "mandate"} => job[s].call = "webhook"
  /\ Step(s) = "update" => job[s].call \in {"verify", "webhook"}

GrowthIsCovered(s) ==
  Net(s) > 0 => mandate.spend + mandate.reserved + Net(s) <= Limit \/ UnreservedCapture(s)

SessionOK(s) ==
  HoldsGrant(s) /\ WritesUnderLock(s) /\ SettlesForACaller(s) /\ GrowthIsCovered(s)

ReservationInv ==
  /\ TypeInv
  /\ OneLockHolder
  /\ \A s \in Sessions : SessionOK(s)
  /\ DispatchIsBacked
------------------------------------------------------------------------------
(* The other sessions, while s takes a step. *)

OnlySession(s) ==
  \A t \in Sessions \ {s} : job'[t] = job[t] /\ dirty'[t] = dirty[t] /\ locks'[t] = locks[t]

(* They keep what they have as long as the mandate row stays. *)
LEMMA OthersStay ==
  ASSUME ReservationInv, NEW s \in Sessions, OnlySession(s), UNCHANGED mandate,
         NEW t \in Sessions \ {s},
         Pending(t) => created'[Op(t)] = created[Op(t)] /\ grants'[Op(t)] = grants[Op(t)]
  PROVE  SessionOK(t)'
<1>1. SessionOK(t) /\ job'[t] = job[t] /\ dirty'[t] = dirty[t] /\ locks'[t] = locks[t]
  BY DEF ReservationInv, OnlySession
<1>2. HoldsGrant(t)'
  BY <1>1 DEF SessionOK, HoldsGrant, Pending, Step, Op
<1>3. WritesUnderLock(t)' /\ SettlesForACaller(t)'
  BY <1>1 DEF SessionOK, WritesUnderLock, SettlesForACaller, Step
<1>4. GrowthIsCovered(t)'
  BY <1>1 DEF SessionOK, GrowthIsCovered, UnreservedCapture, Net, Step
<1> QED BY <1>2, <1>3, <1>4 DEF SessionOK

(* A session takes the lock only from nobody. *)
LEMMA LockStays ==
  ASSUME ReservationInv, NEW s \in Sessions, OnlySession(s),
         locks'[s].mandate => locks[s].mandate \/ MandateFree(s)
  PROVE  OneLockHolder'
BY DEF ReservationInv, OneLockHolder, OnlySession, MandateFree

(* A step that neither writes the budget nor takes the mandate's lock. *)
LEMMA QuietStep ==
  ASSUME ReservationInv, TypeInv', NEW s \in Sessions, OnlySession(s),
         UNCHANGED <<mandate, created, grants>>,
         dirty'[s].reserved = dirty[s].reserved, dirty'[s].spend = dirty[s].spend,
         locks'[s].mandate = locks[s].mandate,
         Step(s) # "commit", ~Pending(s)',
         Step(s)' \in CleanSteps => Step(s) \in CleanSteps,
         SettlesForACaller(s)'
  PROVE  ReservationInv'
<1>1. SessionOK(s)
  BY DEF ReservationInv
<1>2. HoldsGrant(s)'
  BY DEF HoldsGrant
<1>3. WritesUnderLock(s)'
  BY <1>1 DEF SessionOK, WritesUnderLock
<1>4. GrowthIsCovered(s)'
  BY <1>1 DEF SessionOK, GrowthIsCovered, UnreservedCapture, Net
<1>5. ASSUME NEW t \in Sessions PROVE SessionOK(t)'
  BY <1>2, <1>3, <1>4, OthersStay DEF SessionOK
<1>6. OneLockHolder' /\ DispatchIsBacked'
  BY LockStays DEF ReservationInv, DispatchIsBacked
<1> QED BY <1>5, <1>6 DEF ReservationInv

(* A session that ends without a COMMIT leaves nothing. *)
LEMMA ClosedStep ==
  ASSUME ReservationInv, TypeInv', NEW s \in Sessions, Close(s)
  PROVE  OnlySession(s) /\ OneLockHolder' /\ SessionOK(s)'
<1>1. job'[s] = NoJob /\ dirty'[s] = Clean /\ locks'[s] = NoLocks
  BY DEF Close, ReservationInv, TypeInv, TypeOK
<1>2. OnlySession(s)
  BY DEF Close, OnlySession, ReservationInv, TypeInv, TypeOK
<1>3. OneLockHolder'
  BY <1>1, <1>2, LockStays DEF NoLocks
<1>4. SessionOK(s)'
  BY <1>1 DEF SessionOK, HoldsGrant, WritesUnderLock, SettlesForACaller, GrowthIsCovered,
              Pending, Net, Step, NoJob, Clean, UnreservedCapture
<1> QED BY <1>2, <1>3, <1>4

(* A session that closes without committing keeps the reservation          *)
(* invariant: the other sessions and the mandate stay as they were.        *)
LEMMA AbandonedStep ==
  ASSUME ReservationInv, TypeInv', NEW s \in Sessions, Close(s),
         UNCHANGED <<mandate, created, grants>>
  PROVE  ReservationInv'
<1>1. OnlySession(s) /\ OneLockHolder' /\ SessionOK(s)'
  BY ClosedStep
<1>2. ASSUME NEW t \in Sessions PROVE SessionOK(t)'
  BY <1>1, OthersStay
<1> QED BY <1>1, <1>2 DEF ReservationInv, DispatchIsBacked
------------------------------------------------------------------------------
(* The steps that begin a session or go on without touching the budget. *)

LEMMA BeginKeeps ==
  ASSUME ReservationInv, TypeInv', NEW s \in Sessions, NEW o \in Ops,
         \/ RequestOpen(s, o) \/ ApproveOpen(s, o) \/ RejectOpen(s, o) \/ VerifyOpen(s, o)
  PROVE  ReservationInv'
<1>1. PICK c, step : /\ Open(s, c, o, step)
                     /\ step \in {"lock", "reserve", "commit", "update"}
                     /\ step = "update" => c = "verify"
  BY DEF RequestOpen, ApproveOpen, RejectOpen, VerifyOpen
<1>2. Step(s) = "idle" /\ job'[s].step = step /\ job'[s].call = c
  BY <1>1 DEF Open, NoJob, ReservationInv, TypeInv, TypeOK
<1>3. OnlySession(s)
  BY <1>1 DEF Open, RequestOpen, ApproveOpen, RejectOpen, VerifyOpen, OnlySession,
              ReservationInv, TypeInv, TypeOK
<1>4. /\ dirty'[s].reserved = dirty[s].reserved /\ dirty'[s].spend = dirty[s].spend
      /\ locks' = locks
      /\ UNCHANGED <<mandate, created, grants>>
  BY DEF RequestOpen, ApproveOpen, RejectOpen, VerifyOpen, dbVars, gatewayVars,
         ReservationInv, TypeInv, TypeOK, DirtyRows
<1>5. ~Pending(s)' /\ SettlesForACaller(s)'
  BY <1>1, <1>2 DEF Pending, Step, SettlesForACaller
<1>6. Step(s) # "commit" /\ Step(s) \in CleanSteps
  BY <1>2 DEF CleanSteps
<1> QED BY <1>3, <1>4, <1>5, <1>6, QuietStep

(* Reading a webhook event opens a session that holds no reservation.      *)
LEMMA WebhookOpenKeeps ==
  ASSUME ReservationInv, TypeInv', NEW s \in Sessions, NEW e \in Events, WebhookOpen(s, e)
  PROVE  ReservationInv'
<1>1. Step(s) = "idle" /\ job'[s].step = "record" /\ job'[s].call = "webhook"
  BY DEF WebhookOpen, NoJob, ReservationInv, TypeInv, TypeOK
<1>2. OnlySession(s)
  BY DEF WebhookOpen, OnlySession, ReservationInv, TypeInv, TypeOK
<1>3. UNCHANGED <<mandate, created, grants, dirty, locks>>
  BY DEF WebhookOpen, dbVars, gatewayVars, historyVars
<1>4. ~Pending(s)' /\ SettlesForACaller(s)'
  BY <1>1 DEF Pending, Step, SettlesForACaller
<1>5. Step(s) # "commit" /\ Step(s) \in CleanSteps
  BY <1>1 DEF CleanSteps
<1> QED BY <1>2, <1>3, <1>4, <1>5, QuietStep

(* Opening a sweep opens a session that holds no reservation.              *)
LEMMA SweepOpenKeeps ==
  ASSUME ReservationInv, TypeInv', NEW s \in Sessions, SweepOpen(s)
  PROVE  ReservationInv'
<1>1. Step(s) = "idle" /\ job'[s].step = "sweep"
  BY DEF SweepOpen, NoJob, ReservationInv, TypeInv, TypeOK
<1>2. OnlySession(s)
  BY DEF SweepOpen, OnlySession, ReservationInv, TypeInv, TypeOK
<1>3. UNCHANGED <<mandate, created, grants, dirty>>
  BY DEF SweepOpen, dbVars, gatewayVars, historyVars
<1>4. locks'[s].mandate = locks[s].mandate
  BY DEF SweepOpen, ReservationInv, TypeInv, TypeOK, LockRows
<1>5. ~Pending(s)' /\ SettlesForACaller(s)'
  BY <1>1 DEF Pending, Step, SettlesForACaller
<1>6. Step(s) # "commit" /\ Step(s) \in CleanSteps
  BY <1>1 DEF CleanSteps
<1> QED BY <1>2, <1>3, <1>4, <1>5, <1>6, QuietStep

(* The steps that only move on. *)
LEMMA MoveOnKeeps ==
  ASSUME ReservationInv, TypeInv', NEW s \in Sessions, NEW step,
         Goto(s, step), step \in {"lookup", "mandate", "update", "sweep", "commit"},
         UNCHANGED <<mandate, created, grants, locks>>,
         \A t \in Sessions \ {s} : dirty'[t] = dirty[t],
         dirty'[s].reserved = dirty[s].reserved, dirty'[s].spend = dirty[s].spend,
         Step(s) # "commit",
         step \in {"lookup", "mandate", "update"}
           => Step(s) \in {"record", "lookup", "mandate"}
  PROVE  ReservationInv'
<1>1. job'[s].step = step /\ job'[s].call = job[s].call
  BY DEF Goto, ReservationInv, TypeInv, TypeOK, JobRows
<1>2. OnlySession(s)
  BY DEF Goto, OnlySession, ReservationInv, TypeInv, TypeOK
<1>3. ~Pending(s)'
  BY <1>1 DEF Pending, Step
<1>4. SettlesForACaller(s)'
  BY <1>1 DEF ReservationInv, SessionOK, SettlesForACaller, Step
<1>5. Step(s)' \in CleanSteps => Step(s) \in CleanSteps
  BY <1>1 DEF CleanSteps, Step
<1> QED BY <1>2, <1>3, <1>4, <1>5, QuietStep

(* Steps that touch neither grants nor the gateway's objects keep the      *)
(* reservation invariant.                                                  *)
LEMMA QuietActionsKeep ==
  ASSUME ReservationInv, TypeInv', NEW s \in Sessions,
         \/ DispatchNothing(s) \/ VerifyRow(s) \/ WebhookRecord(s) \/ WebhookLookup(s)
         \/ WebhookMandate(s) \/ SweepDone(s)
  PROVE  ReservationInv'
<1>0. dirty \in [Sessions -> DirtyRows]
  BY DEF ReservationInv, TypeInv, TypeOK
<1>1. CASE DispatchNothing(s) \/ SweepDone(s)
  <2>1. /\ Goto(s, "commit") /\ Step(s) # "commit"
        /\ UNCHANGED <<mandate, created, grants, locks, dirty>>
    BY <1>1 DEF DispatchNothing, SweepDone, dbVars, gatewayVars, historyVars
  <2> QED BY <2>1, MoveOnKeeps
<1>2. CASE VerifyRow(s)
  <2>1. /\ Goto(s, "commit") /\ Step(s) # "commit"
        /\ UNCHANGED <<mandate, created, grants, locks>>
    BY <1>2 DEF VerifyRow, dbVars, gatewayVars, historyVars
  <2>2. /\ \A t \in Sessions \ {s} : dirty'[t] = dirty[t]
        /\ dirty'[s].reserved = dirty[s].reserved /\ dirty'[s].spend = dirty[s].spend
    BY <1>0, <1>2 DEF VerifyRow, DirtyRows
  <2> QED BY <2>1, <2>2, MoveOnKeeps
<1>3. CASE WebhookRecord(s)
  <2>1. UNCHANGED <<mandate, created, grants>> /\ Step(s) = "record"
    BY <1>3 DEF WebhookRecord, dbVars, gatewayVars, historyVars
  <2>2. CASE Close(s)
    BY <2>1, <2>2, AbandonedStep
  <2>3. CASE Goto(s, "lookup") /\ UNCHANGED <<seen, dirty, locks>>
    BY <2>1, <2>3, MoveOnKeeps
  <2> QED BY <1>3, <2>2, <2>3 DEF WebhookRecord
<1>4. CASE WebhookLookup(s)
  <2>1. UNCHANGED <<mandate, created, grants, locks>> /\ Step(s) = "lookup"
    BY <1>4 DEF WebhookLookup, dbVars, gatewayVars, historyVars
  <2>2. ASSUME NEW v, WebhookVerdict(s, v) PROVE ReservationInv'
    <3>1. /\ \A t \in Sessions \ {s} : dirty'[t] = dirty[t]
          /\ dirty'[s].reserved = dirty[s].reserved /\ dirty'[s].spend = dirty[s].spend
      BY <1>0, <2>2 DEF WebhookVerdict, DirtyRows
    <3> QED BY <2>1, <2>2, <3>1, MoveOnKeeps DEF WebhookVerdict
  <2>3. ASSUME NEW st, Goto(s, "mandate"),
               dirty' = [dirty EXCEPT ![s].status[Op(s)] = st, ![s].verdict = "PROCESSED"]
        PROVE  ReservationInv'
    <3>1. /\ \A t \in Sessions \ {s} : dirty'[t] = dirty[t]
          /\ dirty'[s].reserved = dirty[s].reserved /\ dirty'[s].spend = dirty[s].spend
      BY <1>0, <2>3 DEF DirtyRows
    <3> QED BY <2>1, <2>3, <3>1, MoveOnKeeps
  <2> QED BY <1>4, <2>2, <2>3 DEF WebhookLookup
<1>5. CASE WebhookMandate(s)
  <2>1. UNCHANGED <<mandate, created, grants, locks, dirty>> /\ Step(s) = "mandate"
    BY <1>5 DEF WebhookMandate, dbVars, gatewayVars, historyVars
  <2>2. Goto(s, "commit") \/ Goto(s, "update")
    BY <1>5 DEF WebhookMandate
  <2> QED BY <2>1, <2>2, MoveOnKeeps
<1> QED BY <1>1, <1>2, <1>3, <1>4, <1>5

(* The sweep's verdict on one operation keeps the reservation invariant.   *)
LEMMA SweepReadKeeps ==
  ASSUME ReservationInv, TypeInv', NEW s \in Sessions, NEW o \in Ops, NEW v,
         SweepRead(s, o, v)
  PROVE  ReservationInv'
<1>1. UNCHANGED <<mandate, created, grants, locks>> /\ Step(s) = "sweep"
  BY DEF SweepRead, dbVars, gatewayVars, historyVars
<1>2. /\ \A t \in Sessions \ {s} : dirty'[t] = dirty[t]
      /\ dirty'[s].reserved = dirty[s].reserved /\ dirty'[s].spend = dirty[s].spend
  BY DEF SweepRead, ReservationInv, TypeInv, TypeOK, DirtyRows
<1>3. job'[s].step \in {"sweep", "settle"}
  BY <1>1 DEF SweepRead, ReservationInv, TypeInv, TypeOK, JobRows, Step
<1>4. OnlySession(s)
  BY <1>1, <1>2 DEF SweepRead, OnlySession, ReservationInv, TypeInv, TypeOK
<1>5. ~Pending(s)' /\ SettlesForACaller(s)' /\ Step(s)' \notin CleanSteps
  BY <1>3 DEF Pending, Step, SettlesForACaller, CleanSteps
<1> QED BY <1>1, <1>2, <1>4, <1>5, QuietStep
------------------------------------------------------------------------------
(* The steps that take or give back budget, under the mandate's lock. *)

(* A step of the session that holds the lock, or finds it free: no other    *)
(* session can be about to dispatch.                                       *)
LEMMA LockedStep ==
  ASSUME ReservationInv, TypeInv', NEW s \in Sessions, OnlySession(s), MandateFree(s),
         UNCHANGED mandate, SessionOK(s)', DispatchIsBacked'
  PROVE  ReservationInv'
<1>1. ASSUME NEW t \in Sessions \ {s} PROVE SessionOK(t)'
  <2>1. ~Pending(t)
    BY DEF MandateFree, ReservationInv, SessionOK, HoldsGrant
  <2> QED BY <2>1, OthersStay
<1>2. OneLockHolder'
  BY LockStays
<1> QED BY <1>1, <1>2 DEF ReservationInv

(* The holder of the lock finds it free of others. *)
LEMMA HolderIsAlone ==
  ASSUME ReservationInv, NEW s \in Sessions, locks[s].mandate
  PROVE  MandateFree(s)
BY DEF ReservationInv, OneLockHolder, MandateFree

(* A granted reserve_budget adds the grant that the dispatch to come will  *)
(* use up.                                                                 *)
LEMMA GrantKeeps ==
  ASSUME PipelineConstants, ReservationInv, TypeInv', NEW s \in Sessions,
         NEW step \in {"flush", "dispatch"},
         Step(s) \in {"lock", "reserve"}, MandateFree(s), CanReserve(Op(s)),
         GrantReservation(s), Goto(s, step), UNCHANGED <<mandate, created>>
  PROVE  ReservationInv'
<1> DEFINE o == Op(s)
<1>0. /\ o \in Ops /\ Amount[o] \in Nat
      /\ dirty \in [Sessions -> DirtyRows] /\ dirty[s] \in DirtyRows
      /\ mandate.spend \in Int /\ mandate.reserved \in Int
      /\ created[o] \in Nat /\ grants[o] \in Nat
  BY DEF ReservationInv, TypeInv, TypeOK, JobsNameOps, PipelineConstants
<1>1. dirty[s].reserved = 0 /\ dirty[s].spend = 0
  BY DEF ReservationInv, SessionOK, WritesUnderLock, CleanSteps
<1>2. /\ Step(s)' = step /\ Op(s)' = o
      /\ dirty'[s].reserved = Amount[o] /\ dirty'[s].spend = dirty[s].spend
      /\ grants'[o] = grants[o] + 1
  BY <1>0 DEF Goto, GrantReservation, ReservationInv, TypeInv, TypeOK, JobRows, DirtyRows,
              Step, Op
<1>3. locks'[s].mandate
  BY DEF GrantReservation, ReservationInv, TypeInv, TypeOK, LockRows
<1>4. OnlySession(s)
  BY DEF Goto, GrantReservation, OnlySession, ReservationInv, TypeInv, TypeOK
<1>5. created[o] <= grants[o]
  BY <1>0 DEF ReservationInv, DispatchIsBacked
<1>6. HoldsGrant(s)'
  BY <1>0, <1>2, <1>3, <1>5 DEF HoldsGrant
<1>7. WritesUnderLock(s)' /\ SettlesForACaller(s)'
  BY <1>2, <1>3 DEF WritesUnderLock, SettlesForACaller, CleanSteps
<1>8. GrowthIsCovered(s)'
  <2>1. Net(s)' = Amount[o]
    BY <1>0, <1>1, <1>2 DEF Net
  <2>2. mandate.spend + mandate.reserved + Amount[o] <= Limit
    BY DEF CanReserve
  <2> QED BY <1>0, <2>1, <2>2 DEF GrowthIsCovered
<1>9. DispatchIsBacked'
  BY <1>0, <1>5 DEF ReservationInv, DispatchIsBacked, GrantReservation, TypeInv, TypeOK
<1> QED BY <1>4, <1>6, <1>7, <1>8, <1>9, LockedStep DEF SessionOK

(* The decision of request_financial_operation keeps the reservation       *)
(* invariant.                                                              *)
LEMMA RequestDecideKeeps ==
  ASSUME PipelineConstants, ReservationInv, TypeInv', NEW s \in Sessions, RequestDecide(s)
  PROVE  ReservationInv'
<1>1. ASSUME NEW st, CommitStatus(s, st) PROVE ReservationInv'
  BY <1>1, AbandonedStep DEF CommitStatus, gatewayVars, historyVars
<1>2. CASE /\ CanReserve(Op(s)) /\ GrantReservation(s) /\ Goto(s, "dispatch")
           /\ UNCHANGED <<dbVars, gatewayVars, seen, age, calls>>
  BY <1>2, GrantKeeps DEF RequestDecide, dbVars, gatewayVars
<1> QED BY <1>1, <1>2 DEF RequestDecide

(* The reservation of an approved operation keeps the reservation          *)
(* invariant.                                                              *)
LEMMA ApproveReserveKeeps ==
  ASSUME PipelineConstants, ReservationInv, TypeInv', NEW s \in Sessions, ApproveReserve(s)
  PROVE  ReservationInv'
<1>1. CASE CanReserve(Op(s)) /\ GrantReservation(s) /\ Goto(s, "flush")
  BY <1>1, GrantKeeps DEF ApproveReserve, dbVars, gatewayVars
<1>2. CASE /\ dirty' = [dirty EXCEPT ![s].status[Op(s)] = "POLICY_REJECTED"]
           /\ Goto(s, "commit") /\ UNCHANGED <<locks, grants>>
  <2>1. /\ \A t \in Sessions \ {s} : dirty'[t] = dirty[t]
        /\ dirty'[s].reserved = dirty[s].reserved /\ dirty'[s].spend = dirty[s].spend
    BY <1>2 DEF ReservationInv, TypeInv, TypeOK, DirtyRows
  <2> QED BY <1>2, <2>1, MoveOnKeeps DEF ApproveReserve, dbVars, gatewayVars
<1> QED BY <1>1, <1>2 DEF ApproveReserve

(* The flush before the dispatch of an approved operation keeps the        *)
(* reservation invariant.                                                  *)
LEMMA ApproveFlushKeeps ==
  ASSUME ReservationInv, TypeInv', NEW s \in Sessions, ApproveFlush(s)
  PROVE  ReservationInv'
<1>0. SessionOK(s) /\ Pending(s)
  BY DEF ReservationInv, ApproveFlush, Pending
<1>1. Step(s)' = "dispatch" /\ Op(s)' = Op(s) /\ job'[s].call = job[s].call
  BY DEF ApproveFlush, Goto, ReservationInv, TypeInv, TypeOK, JobRows, Step, Op
<1>2. UNCHANGED <<mandate, created, grants, dirty>>
  BY DEF ApproveFlush, dbVars, gatewayVars, historyVars
<1>3. locks'[s].mandate = locks[s].mandate
  BY DEF ApproveFlush, ReservationInv, TypeInv, TypeOK, LockRows
<1>4. OnlySession(s)
  BY <1>2 DEF ApproveFlush, Goto, OnlySession, ReservationInv, TypeInv, TypeOK
<1>5. HoldsGrant(s)'
  BY <1>0, <1>1, <1>2, <1>3 DEF SessionOK, HoldsGrant
<1>6. WritesUnderLock(s)' /\ SettlesForACaller(s)'
  BY <1>0, <1>1, <1>2, <1>3 DEF SessionOK, WritesUnderLock, SettlesForACaller, CleanSteps
<1>7. GrowthIsCovered(s)'
  BY <1>0, <1>2 DEF SessionOK, GrowthIsCovered, UnreservedCapture, Net, ApproveFlush
<1>8. DispatchIsBacked'
  BY <1>2 DEF ReservationInv, DispatchIsBacked
<1>9. MandateFree(s)
  BY <1>0, HolderIsAlone DEF SessionOK, HoldsGrant
<1> QED BY <1>2, <1>4, <1>5, <1>6, <1>7, <1>8, <1>9, LockedStep DEF SessionOK

(* A dispatch uses the grant, and at most moves the reservation into spend. *)
LEMMA DispatchKeeps ==
  ASSUME PipelineConstants, ReservationInv, TypeInv', NEW s \in Sessions,
         DispatchAccepted(s) \/ DispatchFails(s)
  PROVE  ReservationInv'
<1> DEFINE o == Op(s)
<1>0. /\ o \in Ops /\ Amount[o] \in Nat
      /\ dirty \in [Sessions -> DirtyRows] /\ dirty[s] \in DirtyRows
      /\ mandate.spend \in Int /\ mandate.reserved \in Int /\ Limit \in Nat
      /\ created \in [Ops -> Nat] /\ grants \in [Ops -> Nat]
  BY DEF ReservationInv, TypeInv, TypeOK, JobsNameOps, PipelineConstants,
         DispatchAccepted, DispatchFails
<1>1. SessionOK(s) /\ Step(s) = "dispatch" /\ Pending(s)
  BY DEF ReservationInv, DispatchAccepted, DispatchFails, Pending
<1>2. locks[s].mandate /\ created[o] + 1 <= grants[o]
  BY <1>1 DEF SessionOK, HoldsGrant
<1>3. UNCHANGED <<mandate, grants, locks>>
  BY DEF DispatchAccepted, DispatchFails, dbVars, historyVars
<1>4. Step(s)' = "commit"
  BY DEF DispatchAccepted, DispatchFails, Goto, ReservationInv, TypeInv, TypeOK, JobRows, Step
<1>5. OnlySession(s)
  BY <1>3 DEF DispatchAccepted, DispatchFails, Goto, OnlySession, ReservationInv, TypeInv, TypeOK
<1>6. Net(s)' = Net(s) \/ Net(s)' = Net(s) - Amount[o]
  <2>1. CASE DispatchFails(s)
    <3>1. /\ dirty'[s].reserved = dirty[s].reserved - Amount[o]
          /\ dirty'[s].spend = dirty[s].spend
      BY <1>0, <2>1 DEF DispatchFails, DirtyRows
    <3>2. dirty[s].reserved \in Int /\ dirty[s].spend \in Int
      BY <1>0 DEF DirtyRows
    <3> QED BY <1>0, <3>1, <3>2 DEF Net
  <2>2. CASE DispatchAccepted(s)
    <3>1. \/ /\ dirty'[s].reserved = dirty[s].reserved - Amount[o]
             /\ dirty'[s].spend = dirty[s].spend + Amount[o]
          \/ /\ dirty'[s].reserved = dirty[s].reserved
             /\ dirty'[s].spend = dirty[s].spend
      BY <1>0, <2>2 DEF DispatchAccepted, DirtyRows
    <3>2. dirty[s].reserved \in Int /\ dirty[s].spend \in Int
      BY <1>0 DEF DirtyRows
    <3> QED BY <1>0, <3>1, <3>2 DEF Net
  <2> QED BY <2>1, <2>2
<1>7. GrowthIsCovered(s)'
  <2>1. Net(s) > 0 => mandate.spend + mandate.reserved + Net(s) <= Limit
    BY <1>1 DEF SessionOK, GrowthIsCovered, UnreservedCapture
  <2>2. Net(s) \in Int
    BY <1>0 DEF Net, DirtyRows
  <2>3. Net(s)' > 0 => mandate.spend + mandate.reserved + Net(s)' <= Limit
    BY <1>0, <1>6, <2>1, <2>2
  <2> QED BY <1>3, <2>3 DEF GrowthIsCovered
<1>8. HoldsGrant(s)' /\ WritesUnderLock(s)' /\ SettlesForACaller(s)'
  BY <1>2, <1>3, <1>4 DEF HoldsGrant, Pending, WritesUnderLock, SettlesForACaller, CleanSteps
<1>9. DispatchIsBacked'
  <2>1. created' = created \/ created' = [created EXCEPT ![o] = @ + 1]
    BY DEF DispatchAccepted, DispatchFails, CreateAtGateway
  <2> QED BY <1>0, <1>2, <1>3, <2>1 DEF ReservationInv, DispatchIsBacked
<1>10. MandateFree(s)
  BY <1>2, HolderIsAlone
<1> QED BY <1>3, <1>5, <1>7, <1>8, <1>9, <1>10, LockedStep DEF SessionOK

(* verify_payment or a webhook settles: only a capture that was not seen    *)
(* reserved adds to spend plus reservations.                               *)
LEMMA UpdateMandateKeeps ==
  ASSUME PipelineConstants, ReservationInv, TypeInv', NEW s \in Sessions, UpdateMandate(s)
  PROVE  ReservationInv'
<1> DEFINE o == Op(s)
           r == IF Covered(s) THEN -Amount[o] ELSE 0
           p == IF job[s].event # "payment.failed" THEN Amount[o] ELSE 0
<1>0. /\ o \in Ops /\ Amount[o] \in Nat /\ Amount[o] > 0
      /\ dirty \in [Sessions -> DirtyRows] /\ dirty[s] \in DirtyRows
  <2>1. o \in Ops
    BY DEF ReservationInv, TypeInv, JobsNameOps, UpdateMandate
  <2>2. Amount[o] \in Nat \ {0}
    BY <2>1 DEF PipelineConstants
  <2> QED BY <2>1, <2>2 DEF ReservationInv, TypeInv, TypeOK
<1>1. UNCHANGED <<mandate, created, grants>> /\ MandateFree(s)
  BY DEF UpdateMandate, dbVars, gatewayVars, historyVars
<1>2. dirty'[s].reserved = r /\ dirty'[s].spend = p
  BY <1>0 DEF UpdateMandate, DirtyRows
<1>3. locks'[s].mandate
  BY DEF UpdateMandate, ReservationInv, TypeInv, TypeOK, LockRows
<1>4. OnlySession(s)
  BY DEF UpdateMandate, Goto, OnlySession, ReservationInv, TypeInv, TypeOK
<1>5. /\ Step(s)' = IF job[s].call = "verify" THEN "txrow" ELSE "commit"
      /\ job'[s].call = job[s].call
  BY DEF UpdateMandate, Goto, ReservationInv, TypeInv, TypeOK, JobRows, Step
<1>6. job[s].call \in {"verify", "webhook"}
  BY DEF UpdateMandate, ReservationInv, SessionOK, SettlesForACaller
<1>7. GrowthIsCovered(s)'
  <2>1. CASE Covered(s)
    BY <1>0, <1>2, <2>1 DEF GrowthIsCovered, Net
  <2>2. CASE ~Covered(s)
    <3>1. job[s].call = "webhook" /\ Step(s)' = "commit" /\ job'[s].call = "webhook"
      BY <1>5, <1>6, <2>2 DEF Covered
    <3>2. dirty'[s].reserved = 0 /\ (p > 0 => dirty'[s].spend > 0)
      BY <1>2, <2>2
    <3>3. Net(s)' > 0 => dirty'[s].spend > 0
      BY <1>0, <1>2, <3>2 DEF Net
    <3> QED BY <3>1, <3>2, <3>3 DEF GrowthIsCovered, UnreservedCapture
  <2> QED BY <2>1, <2>2
<1>8. HoldsGrant(s)' /\ WritesUnderLock(s)' /\ SettlesForACaller(s)'
  BY <1>3, <1>5 DEF HoldsGrant, Pending, WritesUnderLock, SettlesForACaller, CleanSteps
<1>9. DispatchIsBacked'
  BY <1>1 DEF ReservationInv, DispatchIsBacked
<1> QED BY <1>1, <1>4, <1>7, <1>8, <1>9, LockedStep DEF SessionOK

(* The sweep's settlement, for which it locks the mandate, keeps the       *)
(* reservation invariant.                                                  *)
LEMMA SweepSettleKeeps ==
  ASSUME PipelineConstants, ReservationInv, TypeInv', NEW s \in Sessions, SweepSettle(s)
  PROVE  ReservationInv'
<1> DEFINE o == Op(s)
<1>0. /\ o \in Ops /\ Amount[o] \in Nat
      /\ dirty \in [Sessions -> DirtyRows] /\ dirty[s] \in DirtyRows
      /\ dirty[s].reserved \in Int /\ dirty[s].spend \in Int
      /\ mandate.spend \in Int /\ mandate.reserved \in Int /\ Limit \in Nat
  BY DEF ReservationInv, TypeInv, TypeOK, JobsNameOps, PipelineConstants, SweepSettle, DirtyRows
<1>1. UNCHANGED <<mandate, created, grants>> /\ MandateFree(s) /\ Step(s) = "settle"
  BY DEF SweepSettle, dbVars, gatewayVars, historyVars
<1>2. /\ dirty'[s].reserved = dirty[s].reserved - Amount[o]
      /\ dirty'[s].spend = dirty[s].spend + Amount[o] \/ dirty'[s].spend = dirty[s].spend
  BY <1>0 DEF SweepSettle, DirtyRows
<1>3. locks'[s].mandate
  BY DEF SweepSettle, ReservationInv, TypeInv, TypeOK, LockRows
<1>4. OnlySession(s)
  BY DEF SweepSettle, Goto, OnlySession, ReservationInv, TypeInv, TypeOK
<1>5. Step(s)' = "sweep"
  BY DEF SweepSettle, Goto, ReservationInv, TypeInv, TypeOK, JobRows, Step
<1>6. GrowthIsCovered(s)'
  <2>1. Net(s) > 0 => mandate.spend + mandate.reserved + Net(s) <= Limit
    BY <1>1 DEF ReservationInv, SessionOK, GrowthIsCovered, UnreservedCapture
  <2>2. Net(s)' <= Net(s) /\ Net(s)' \in Int /\ Net(s) \in Int
    BY <1>0, <1>2 DEF Net
  <2>3. Net(s)' > 0 => mandate.spend + mandate.reserved + Net(s)' <= Limit
    BY <1>0, <2>1, <2>2
  <2> QED BY <1>1, <2>3 DEF GrowthIsCovered
<1>7. HoldsGrant(s)' /\ WritesUnderLock(s)' /\ SettlesForACaller(s)'
  BY <1>3, <1>5 DEF HoldsGrant, Pending, WritesUnderLock, SettlesForACaller, CleanSteps
<1>8. DispatchIsBacked'
  BY <1>1 DEF ReservationInv, DispatchIsBacked
<1> QED BY <1>1, <1>4, <1>6, <1>7, <1>8, LockedStep DEF SessionOK

(* A COMMIT moves the columns only for the holder of the lock, so the       *)
(* others' comparisons with the limit stay true.                           *)
LEMMA CommitKeeps ==
  ASSUME ReservationInv, TypeInv', NEW s \in Sessions, Commit(s)
  PROVE  ReservationInv'
<1>0. /\ dirty[s].reserved \in Int /\ dirty[s].spend \in Int
      /\ mandate \in [reserved : Int, spend : Int]
  BY DEF ReservationInv, TypeInv, TypeOK, DirtyRows
<1>1. OnlySession(s) /\ OneLockHolder' /\ SessionOK(s)'
  BY ClosedStep DEF Commit
<1>2. UNCHANGED <<created, grants>>
  BY DEF Commit, gatewayVars, historyVars
<1>3. ASSUME NEW t \in Sessions \ {s} PROVE SessionOK(t)'
  <2>1. SessionOK(t) /\ job'[t] = job[t] /\ dirty'[t] = dirty[t] /\ locks'[t] = locks[t]
    BY <1>1 DEF ReservationInv, OnlySession
  <2>2. HoldsGrant(t)' /\ WritesUnderLock(t)' /\ SettlesForACaller(t)'
    BY <1>2, <2>1 DEF SessionOK, HoldsGrant, Pending, WritesUnderLock, SettlesForACaller,
                      Step, Op
  <2>3. GrowthIsCovered(t)'
    <3>1. CASE dirty[t].reserved = 0 /\ dirty[t].spend = 0
      BY <2>1, <3>1 DEF GrowthIsCovered, Net
    <3>2. CASE dirty[t].reserved # 0 \/ dirty[t].spend # 0
      <4>1. locks[t].mandate
        BY <2>1, <3>2 DEF SessionOK, WritesUnderLock
      <4>2. ~locks[s].mandate
        BY <4>1 DEF ReservationInv, OneLockHolder
      <4>3. dirty[s].reserved = 0 /\ dirty[s].spend = 0
        BY <4>2 DEF ReservationInv, SessionOK, WritesUnderLock
      <4>4. mandate'.reserved = mandate.reserved /\ mandate'.spend = mandate.spend
        BY <1>0, <4>3 DEF Commit
      <4> QED BY <2>1, <4>4 DEF SessionOK, GrowthIsCovered, UnreservedCapture, Net, Step
    <3> QED BY <3>1, <3>2
  <2> QED BY <2>2, <2>3 DEF SessionOK
<1>4. DispatchIsBacked'
  BY <1>2 DEF ReservationInv, DispatchIsBacked
<1> QED BY <1>1, <1>3, <1>4 DEF ReservationInv

(* A crash or a deadlock's victim keeps the reservation invariant.         *)
LEMMA AbortKeeps ==
  ASSUME ReservationInv, TypeInv', NEW s \in Sessions,
         \/ RequestDuplicate(s) \/ VerifyAmbiguous(s) \/ SweepAmbiguous(s)
         \/ Crash(s) \/ DeadlockAbort(s)
  PROVE  ReservationInv'
BY AbandonedStep DEF RequestDuplicate, VerifyAmbiguous, SweepAmbiguous, Crash, DeadlockAbort,
                     dbVars, gatewayVars, historyVars

(* The payer and the clock do not touch what the reservation invariant     *)
(* speaks of.                                                              *)
LEMMA OutsideKeeps ==
  ASSUME ReservationInv, TypeInv', UNCHANGED <<mandate, created, grants, sessionVars>>
  PROVE  ReservationInv'
BY DEF ReservationInv, OneLockHolder, SessionOK, HoldsGrant, Pending, WritesUnderLock,
       SettlesForACaller, GrowthIsCovered, UnreservedCapture, Net, Step, Op, DispatchIsBacked,
       sessionVars
------------------------------------------------------------------------------
(* The reservation invariant holds in the empty database.                  *)
LEMMA ReservationInit ==
  ASSUME Init
  PROVE  ReservationInv
<1>1. TypeInv
  BY InitType
<1>2. OneLockHolder
  BY DEF Init, OneLockHolder, NoLocks
<1>3. ASSUME NEW s \in Sessions PROVE SessionOK(s)
  BY DEF Init, SessionOK, HoldsGrant, Pending, WritesUnderLock, SettlesForACaller,
         GrowthIsCovered, Net, Step, NoJob, Clean
<1>4. DispatchIsBacked
  BY DEF Init, DispatchIsBacked
<1> QED BY <1>1, <1>2, <1>3, <1>4 DEF ReservationInv

(* Every step of the pipeline keeps the reservation invariant.             *)
LEMMA ReservationStep ==
  ASSUME PipelineConstants, ReservationInv, [Next]_vars
  PROVE  ReservationInv'
<1>0. TypeInv'
  BY NextType DEF ReservationInv
<1>1. CASE UNCHANGED vars
  BY <1>0, <1>1, OutsideKeeps DEF vars, dbVars, gatewayVars, historyVars
<1>2. ASSUME NEW s \in Sessions, NEW o \in Ops,
             \/ RequestOpen(s, o) \/ ApproveOpen(s, o) \/ RejectOpen(s, o) \/ VerifyOpen(s, o)
      PROVE  ReservationInv'
  BY <1>0, <1>2, BeginKeeps
<1>3. ASSUME NEW s \in Sessions, NEW e \in Events, WebhookOpen(s, e) PROVE ReservationInv'
  BY <1>0, <1>3, WebhookOpenKeeps
<1>4. ASSUME NEW s \in Sessions, SweepOpen(s) \/ Crash(s) PROVE ReservationInv'
  BY <1>0, <1>4, SweepOpenKeeps, AbortKeeps
<1>5. ASSUME NEW s \in Sessions, Continue(s) PROVE ReservationInv'
  BY <1>0, <1>5, AbortKeeps, QuietActionsKeep, RequestDecideKeeps, DispatchKeeps,
     ApproveReserveKeeps, ApproveFlushKeeps, UpdateMandateKeeps, SweepReadKeeps,
     SweepSettleKeeps, CommitKeeps
     DEF Continue
<1>6. ASSUME NEW o \in Ops, Aging(o) PROVE ReservationInv'
  BY <1>0, <1>6, OutsideKeeps DEF Aging, dbVars, gatewayVars
<1>7. ASSUME NEW o, NEW i, Pay(o, i) \/ AttemptFails(o, i) PROVE ReservationInv'
  BY <1>0, <1>7, OutsideKeeps DEF Pay, AttemptFails, dbVars, historyVars
<1> QED BY <1>1, <1>2, <1>3, <1>4, <1>5, <1>6, <1>7 DEF Next

(* What reaches the gateway was reserved first, once for every object       *)
(* created there: for all operations, amounts, sessions and faults.        *)
THEOREM DispatchBacked == Spec => []DispatchIsBacked
<1>1. Init => ReservationInv
  BY ReservationInit
<1>2. ReservationInv /\ [Next]_vars => ReservationInv'
  BY PipelineConstants, ReservationStep
<1>3. ReservationInv => DispatchIsBacked
  BY DEF ReservationInv
<1> QED BY <1>1, <1>2, <1>3, PTL DEF Spec

(* Nothing but a COMMIT moves the columns. *)
LEMMA OnlyCommitMovesColumns ==
  ASSUME [Next]_vars, mandate' # mandate
  PROVE  \E s \in Sessions : Commit(s)
<1>1. CASE UNCHANGED vars
  BY <1>1 DEF vars, dbVars
<1>2. ASSUME NEW s \in Sessions, NEW o \in Ops,
             \/ RequestOpen(s, o) \/ ApproveOpen(s, o) \/ RejectOpen(s, o) \/ VerifyOpen(s, o)
      PROVE  UNCHANGED mandate
  BY <1>2 DEF RequestOpen, ApproveOpen, RejectOpen, VerifyOpen, dbVars
<1>3. ASSUME NEW s \in Sessions, NEW e \in Events, WebhookOpen(s, e) PROVE UNCHANGED mandate
  BY <1>3 DEF WebhookOpen, dbVars
<1>4. ASSUME NEW s \in Sessions, SweepOpen(s) \/ Crash(s) PROVE UNCHANGED mandate
  BY <1>4 DEF SweepOpen, Crash, dbVars
<1>5. ASSUME NEW s \in Sessions, Continue(s), ~Commit(s) PROVE UNCHANGED mandate
  <2>1. ASSUME NEW o \in Ops, NEW v, SweepRead(s, o, v) PROVE UNCHANGED mandate
    BY <2>1 DEF SweepRead, dbVars
  <2>2. CASE RequestDuplicate(s) \/ RequestDecide(s)
    BY <2>2 DEF RequestDuplicate, RequestDecide, CommitStatus, dbVars
  <2>3. CASE \/ DispatchAccepted(s) \/ DispatchNothing(s) \/ DispatchFails(s)
             \/ ApproveReserve(s) \/ ApproveFlush(s) \/ VerifyAmbiguous(s) \/ VerifyRow(s)
    BY <2>3 DEF DispatchAccepted, DispatchNothing, DispatchFails, ApproveReserve,
                ApproveFlush, VerifyAmbiguous, VerifyRow, dbVars
  <2>4. CASE \/ WebhookRecord(s) \/ WebhookLookup(s) \/ WebhookMandate(s)
             \/ UpdateMandate(s) \/ SweepAmbiguous(s) \/ SweepSettle(s) \/ SweepDone(s)
             \/ DeadlockAbort(s)
    BY <2>4 DEF WebhookRecord, WebhookLookup, WebhookMandate, UpdateMandate, SweepAmbiguous,
                SweepSettle, SweepDone, DeadlockAbort, dbVars
  <2> QED BY <1>5, <2>1, <2>2, <2>3, <2>4 DEF Continue
<1>6. ASSUME NEW o \in Ops, Aging(o) PROVE UNCHANGED mandate
  BY <1>6 DEF Aging, dbVars
<1>7. ASSUME NEW o, NEW i, Pay(o, i) \/ AttemptFails(o, i) PROVE UNCHANGED mandate
  BY <1>7 DEF Pay, AttemptFails, dbVars
<1> QED BY <1>1, <1>2, <1>3, <1>4, <1>5, <1>6, <1>7 DEF Next

(* A step that leaves less headroom is a COMMIT under the lock. *)
LEMMA GrowthIsACommit ==
  ASSUME PipelineConstants, ReservationInv, [Next]_vars, Headroom' < Headroom
  PROVE  Headroom' >= 0 \/ \E s \in Sessions : UnreservedCapture(s)
<1>0. mandate.spend \in Int /\ mandate.reserved \in Int /\ Limit \in Nat
  BY DEF ReservationInv, TypeInv, TypeOK, PipelineConstants
<1>1. mandate' # mandate
  BY <1>0 DEF Headroom
<1>2. PICK s \in Sessions : Commit(s)
  BY <1>1, OnlyCommitMovesColumns
<1>3. dirty[s].reserved \in Int /\ dirty[s].spend \in Int
  BY DEF ReservationInv, TypeInv, TypeOK, DirtyRows
<1>4. /\ mandate'.spend = mandate.spend + dirty[s].spend
      /\ mandate'.reserved = mandate.reserved + dirty[s].reserved
  BY <1>2 DEF Commit
<1>5. Net(s) > 0 /\ Headroom' = Limit - (mandate.spend + mandate.reserved + Net(s))
  BY <1>0, <1>3, <1>4 DEF Headroom, Net
<1>6. \/ mandate.spend + mandate.reserved + Net(s) <= Limit
      \/ UnreservedCapture(s)
  BY <1>5 DEF ReservationInv, SessionOK, GrowthIsCovered
<1>7. Net(s) \in Int
  BY <1>3 DEF Net
<1> QED BY <1>0, <1>5, <1>6, <1>7

(* Spend plus reservations grow only within the limit, except for captures  *)
(* that were not reserved any more, whatever else is going on.             *)
THEOREM GrowthWithinLimit == Spec => GrowsWithinLimit
<1>1. Init => ReservationInv
  BY ReservationInit
<1>2. ReservationInv /\ [Next]_vars => ReservationInv'
  BY PipelineConstants, ReservationStep
<1>3. ReservationInv /\ [Next]_vars =>
        [Headroom' < Headroom => Headroom' >= 0 \/ \E s \in Sessions : UnreservedCapture(s)]_vars
  BY PipelineConstants, GrowthIsACommit
<1> QED BY <1>1, <1>2, <1>3, PTL DEF Spec, GrowsWithinLimit
------------------------------------------------------------------------------
(* One object per key: without crashes, whatever else fails and however    *)
(* many requests, sweeps, webhooks and checkouts run side by side, an      *)
(* operation that needs no review creates at most one gateway object, and  *)
(* one that was denied has none.                                           *)
(*                                                                         *)
(* The argument is again the lock on the mandate: the request that has     *)
(* created an object keeps it until its row is committed, so no other      *)
(* request finds the key free; and it is not aborted on the way, because   *)
(* no session can have locked a row that does not exist.                   *)

IsRequest(s) == job[s].call \in {"request", "mcp"}

(* A handler's steps are its own. *)
StepsOfItsCall(s) ==
  /\ Step(s) = "idle" <=> job[s].call = "none"
  /\ Step(s) = "lock" => IsRequest(s)
  /\ Step(s) \in {"reserve", "flush"} => job[s].call = "approve"
  /\ Step(s) = "dispatch" => IsRequest(s) \/ job[s].call = "approve"
  /\ Step(s) \in {"record", "lookup", "mandate"} => job[s].call = "webhook"
  /\ Step(s) = "update" => job[s].call \in {"verify", "webhook"}
  /\ Step(s) = "txrow" => job[s].call = "verify"
  /\ Step(s) \in {"sweep", "settle"} => job[s].call = "sweep"
  /\ job[s].call \notin {"none", "sweep"} => Op(s) \in Ops
  /\ job[s].call \in {"approve", "reject"} => Op(s) \in Review

(* The operations a handler has found in the database. *)
Known(s) ==
  job[s].todo \cup locks[s].ops
  \cup (IF job[s].call \in {"approve", "reject", "verify"} THEN {Op(s)} ELSE {})
  \cup (IF IsRequest(s) THEN {} ELSE Written(s))

(* They stay there. *)
FindsRows(s) == \A o \in Known(s) : o \in Ops /\ status[o] # "ABSENT"

(* A request that is creating an object does so for a new key that needs    *)
(* no review, under the lock of the mandate.                               *)
CreatesOnce(s) ==
  IsRequest(s) /\ Step(s) \in {"dispatch", "commit"} =>
    /\ locks[s].mandate
    /\ Op(s) \notin Review
    /\ status[Op(s)] = "ABSENT"
    /\ Step(s) = "dispatch" => created[Op(s)] = 0

WritesItsOwn(s) ==
  /\ Step(s) \in {"idle", "lock"} => Written(s) = {}
  /\ IsRequest(s) /\ Step(s) # "lock" => Written(s) = {Op(s)}
  /\ dirty[s].insert # 0 => Op(s) \in Written(s)
  /\ \A o \in Written(s) \ Review :
       dirty[s].status[o] \notin {"POLICY_REJECTED", "REQUIRES_APPROVAL"}

KeyOK(s) ==
  StepsOfItsCall(s) /\ FindsRows(s) /\ CreatesOnce(s) /\ WritesItsOwn(s)

(* An unreviewed key without a row has an object only while the request     *)
(* that created it is about to commit.                                     *)
AtMostOne(o) ==
  /\ created[o] <= 1
  /\ status[o] # "REQUIRES_APPROVAL"
  /\ status[o] = "POLICY_REJECTED" => created[o] = 0
  /\ status[o] = "ABSENT" =>
       \/ created[o] = 0
       \/ \E s \in Sessions : IsRequest(s) /\ Step(s) = "commit" /\ Op(s) = o

KeyInv ==
  /\ ReservationInv
  /\ \A s \in Sessions : KeyOK(s)
  /\ \A o \in Ops : txrows[o] # {} => status[o] # "ABSENT"
  /\ \A o \in Ops \ Review : AtMostOne(o)
------------------------------------------------------------------------------
(* The other sessions keep what they rely on, as long as rows stay and the *)
(* key a request works on is left to it.                                   *)
LEMMA OthersKeepKeys ==
  ASSUME KeyInv, NEW s \in Sessions, OnlySession(s), NEW t \in Sessions \ {s},
         \A o \in Ops : status[o] # "ABSENT" => status'[o] # "ABSENT",
         IsRequest(t) /\ Step(t) \in {"dispatch", "commit"} =>
           status'[Op(t)] = status[Op(t)] /\ created'[Op(t)] = created[Op(t)]
  PROVE  KeyOK(t)'
<1>1. KeyOK(t) /\ job'[t] = job[t] /\ dirty'[t] = dirty[t] /\ locks'[t] = locks[t]
  BY DEF KeyInv, OnlySession
<1>2. /\ Step(t)' = Step(t) /\ Op(t)' = Op(t) /\ Written(t)' = Written(t)
      /\ IsRequest(t)' <=> IsRequest(t)
      /\ Known(t)' = Known(t)
  BY <1>1 DEF Step, Op, Written, IsRequest, Known
<1>3. StepsOfItsCall(t)'
  BY <1>1, <1>2 DEF KeyOK, StepsOfItsCall
<1>4. FindsRows(t)'
  BY <1>1, <1>2 DEF KeyOK, FindsRows
<1>5. CreatesOnce(t)'
  BY <1>1, <1>2 DEF KeyOK, CreatesOnce
<1>6. WritesItsOwn(t)'
  BY <1>1, <1>2 DEF KeyOK, WritesItsOwn
<1> QED BY <1>3, <1>4, <1>5, <1>6 DEF KeyOK

(* A session that moves no committed row and creates nothing, and is not   *)
(* the one that is about to commit a new key.                              *)
LEMMA OwnKeyStep ==
  ASSUME KeyInv, ReservationInv', NEW s \in Sessions, OnlySession(s),
         UNCHANGED <<status, txrows, created>>, KeyOK(s)',
         ~(IsRequest(s) /\ Step(s) = "commit")
  PROVE  KeyInv'
<1>1. \A t \in Sessions : KeyOK(t)'
  BY OthersKeepKeys
<1>2. ASSUME NEW o \in Ops \ Review PROVE AtMostOne(o)'
  <2>1. AtMostOne(o)
    BY DEF KeyInv
  <2>2. ASSUME NEW t \in Sessions, IsRequest(t), Step(t) = "commit", Op(t) = o
        PROVE  IsRequest(t)' /\ Step(t)' = "commit" /\ Op(t)' = o
    BY <2>2 DEF OnlySession, IsRequest, Step, Op
  <2> QED BY <2>1, <2>2 DEF AtMostOne
<1>3. \A o \in Ops : txrows'[o] # {} => status'[o] # "ABSENT"
  BY DEF KeyInv
<1> QED BY <1>1, <1>2, <1>3 DEF KeyInv

(* A session that is closed has nothing to rely on. *)
LEMMA ClosedKeys ==
  ASSUME KeyInv, ReservationInv', NEW s \in Sessions, Close(s)
  PROVE  OnlySession(s) /\ KeyOK(s)' /\ Step(s)' = "idle" /\ locks'[s].ops = {}
<1>0. TypeInv
  BY DEF KeyInv, ReservationInv
<1>1. OnlySession(s)
  BY <1>0 DEF Close, OnlySession, TypeInv, TypeOK
<1>2. job'[s] = NoJob /\ dirty'[s] = Clean /\ locks'[s] = NoLocks
  BY <1>0 DEF Close, TypeInv, TypeOK
<1>3. /\ Step(s)' = "idle" /\ job'[s].call = "none" /\ job'[s].todo = {}
      /\ locks'[s].ops = {} /\ dirty'[s].insert = 0
      /\ \A o \in Ops : dirty'[s].status[o] = "ABSENT"
  BY <1>2 DEF Step, NoJob, Clean, NoLocks
<1>4. Written(s)' = {} /\ Known(s)' = {} /\ ~IsRequest(s)'
  BY <1>3 DEF Written, Known, IsRequest
<1>5. KeyOK(s)'
  BY <1>3, <1>4 DEF KeyOK, StepsOfItsCall, FindsRows, CreatesOnce, WritesItsOwn
<1> QED BY <1>1, <1>3, <1>5

(* A handler that ends without a COMMIT. *)
LEMMA AbandonedKeys ==
  ASSUME KeyInv, ReservationInv', NEW s \in Sessions, Close(s),
         UNCHANGED <<status, txrows, created>>,
         ~(IsRequest(s) /\ Step(s) = "commit")
  PROVE  KeyInv'
BY ClosedKeys, OwnKeyStep

(* A request that is about to commit a new key waits for nobody. *)
LEMMA NewKeyIsNoVictim ==
  ASSUME KeyInv, NEW s \in Sessions, IsRequest(s), Step(s) = "commit"
  PROVE  ~DeadlockAbort(s)
<1>1. KeyOK(s)
  BY DEF KeyInv
<1>2. Written(s) = {Op(s)} /\ status[Op(s)] = "ABSENT"
  BY <1>1 DEF KeyOK, CreatesOnce, WritesItsOwn
<1>3. \A t \in Sessions : Op(s) \notin locks[t].ops
  BY <1>2 DEF KeyInv, KeyOK, FindsRows, Known
<1> QED BY <1>2, <1>3 DEF DeadlockAbort, WaitsFor
------------------------------------------------------------------------------
(* A session that opens has written nothing; a rejection writes at once.   *)
LEMMA BeginKeepsKeys ==
  ASSUME PipelineConstants, KeyInv, ReservationInv', NEW s \in Sessions, NEW o \in Ops,
         \/ RequestOpen(s, o) \/ ApproveOpen(s, o) \/ RejectOpen(s, o) \/ VerifyOpen(s, o)
  PROVE  KeyInv'
<1>0. TypeInv
  BY DEF KeyInv, ReservationInv
<1>1. PICK c, step :
        /\ Open(s, c, o, step)
        /\ \/ c \in {"request", "mcp"} /\ step = "lock" /\ dirty' = dirty
           \/ /\ c = "approve" /\ step = "reserve" /\ dirty' = dirty
              /\ status[o] = "REQUIRES_APPROVAL"
           \/ /\ c = "reject" /\ step = "commit" /\ status[o] = "REQUIRES_APPROVAL"
              /\ dirty' = [dirty EXCEPT ![s].status[o] = "POLICY_REJECTED"]
           \/ c = "verify" /\ step = "update" /\ dirty' = dirty /\ status[o] # "ABSENT"
  BY DEF RequestOpen, ApproveOpen, RejectOpen, VerifyOpen
<1>2. KeyOK(s) /\ Step(s) = "idle" /\ Written(s) = {}
  BY <1>1 DEF KeyInv, KeyOK, WritesItsOwn, Open
<1>3. UNCHANGED <<status, txrows, created, locks>>
  BY DEF RequestOpen, ApproveOpen, RejectOpen, VerifyOpen, dbVars, gatewayVars
<1>4. OnlySession(s)
  BY <1>0, <1>1, <1>3 DEF OnlySession, Open, TypeInv, TypeOK
<1>5. job'[s].call = c /\ Step(s)' = step /\ Op(s)' = o /\ job'[s].todo = {}
  BY <1>0, <1>1 DEF Open, NoJob, TypeInv, TypeOK, Step, Op
<1>6. /\ \A x \in Ops : dirty'[s].status[x] =
           IF c = "reject" /\ x = o THEN "POLICY_REJECTED" ELSE "ABSENT"
      /\ dirty'[s].insert = dirty[s].insert /\ dirty[s].insert = 0
  BY <1>0, <1>1, <1>2 DEF TypeInv, TypeOK, DirtyRows, KeyOK, WritesItsOwn, Written
<1>7. Written(s)' = IF c = "reject" THEN {o} ELSE {}
  BY <1>6 DEF Written
<1>8. status[o] = "REQUIRES_APPROVAL" => o \in Review
  BY DEF KeyInv, AtMostOne
<1>9. StepsOfItsCall(s)'
  BY <1>1, <1>5, <1>8 DEF StepsOfItsCall, IsRequest
<1>10. FindsRows(s)'
  <2>1. Known(s)' \subseteq locks[s].ops \cup (IF c \in {"request", "mcp"} THEN {} ELSE {o})
    BY <1>1, <1>3, <1>5, <1>7 DEF Known, IsRequest
  <2>2. \A x \in locks[s].ops : x \in Ops /\ status[x] # "ABSENT"
    BY <1>2 DEF KeyOK, FindsRows, Known
  <2> QED BY <1>1, <1>3, <2>1, <2>2 DEF FindsRows
<1>11. CreatesOnce(s)'
  BY <1>1, <1>5 DEF CreatesOnce, IsRequest
<1>12. WritesItsOwn(s)'
  BY <1>1, <1>5, <1>6, <1>7, <1>8 DEF WritesItsOwn, IsRequest
<1> QED BY <1>2, <1>3, <1>4, <1>9, <1>10, <1>11, <1>12, OwnKeyStep DEF KeyOK

(* Deliveries and sweeps begin with nothing written either. *)
LEMMA OutsideCallsKeepKeys ==
  ASSUME PipelineConstants, KeyInv, ReservationInv', NEW s \in Sessions,
         SweepOpen(s) \/ \E e \in Events : WebhookOpen(s, e)
  PROVE  KeyInv'
<1>0. TypeInv
  BY DEF KeyInv, ReservationInv
<1>1. Step(s) = "idle"
  BY DEF SweepOpen, WebhookOpen
<1>2. KeyOK(s) /\ Written(s) = {} /\ dirty[s].insert = 0
  BY <1>1 DEF KeyInv, KeyOK, WritesItsOwn
<1>3. UNCHANGED <<status, txrows, created, dirty>>
  BY DEF SweepOpen, WebhookOpen, dbVars, gatewayVars
<1>4. OnlySession(s)
  BY <1>0, <1>3 DEF OnlySession, SweepOpen, WebhookOpen, TypeInv, TypeOK
<1>5. \/ /\ job'[s].call = "webhook" /\ Step(s)' = "record" /\ Op(s)' \in Ops
         /\ job'[s].todo = {} /\ locks'[s].ops = locks[s].ops
      \/ /\ job'[s].call = "sweep" /\ Step(s)' = "sweep"
         /\ job'[s].todo = Stuck(s) /\ locks'[s].ops = Stuck(s)
  <2>1. ASSUME NEW e \in Events, WebhookOpen(s, e)
        PROVE  /\ job'[s].call = "webhook" /\ Step(s)' = "record" /\ Op(s)' \in Ops
               /\ job'[s].todo = {} /\ locks'[s].ops = locks[s].ops
    BY <1>0, <2>1, EventParts DEF WebhookOpen, NoJob, TypeInv, TypeOK, Step, Op
  <2>2. CASE SweepOpen(s)
    BY <1>0, <2>2 DEF SweepOpen, NoJob, TypeInv, TypeOK, LockRows, Step
  <2> QED BY <2>1, <2>2
<1>6. Written(s)' = {} /\ dirty'[s].insert = 0
  BY <1>2, <1>3 DEF Written
<1>7. \A x \in Stuck(s) \cup locks[s].ops : x \in Ops /\ status[x] # "ABSENT"
  BY <1>2 DEF KeyOK, FindsRows, Known, Stuck, InFlight
<1>8. StepsOfItsCall(s)' /\ CreatesOnce(s)' /\ WritesItsOwn(s)'
  BY <1>5, <1>6 DEF StepsOfItsCall, CreatesOnce, WritesItsOwn, IsRequest
<1>9. FindsRows(s)'
  BY <1>3, <1>5, <1>6, <1>7 DEF FindsRows, Known
<1> QED BY <1>1, <1>3, <1>4, <1>8, <1>9, OwnKeyStep DEF KeyOK

(* The request pipeline's decision about a free key. *)
LEMMA RequestDecideKeepsKeys ==
  ASSUME PipelineConstants, KeyInv, ReservationInv', NEW s \in Sessions, RequestDecide(s)
  PROVE  KeyInv'
<1> DEFINE o == Op(s)
<1>0. TypeInv /\ KeyOK(s)
  BY DEF KeyInv, ReservationInv
<1>1. /\ Step(s) = "lock" /\ MandateFree(s) /\ o \in Ops /\ status[o] = "ABSENT"
      /\ IsRequest(s) /\ Written(s) = {}
  BY <1>0 DEF RequestDecide, KeyIsFree, KeyOK, StepsOfItsCall, WritesItsOwn, IsRequest
<1>2. ASSUME NEW t \in Sessions \ {s}, IsRequest(t), Step(t) \in {"dispatch", "commit"}
      PROVE  FALSE
  BY <1>1, <1>2 DEF KeyInv, KeyOK, CreatesOnce, MandateFree
<1>3. o \notin Review => created[o] = 0
  BY <1>1, <1>2 DEF KeyInv, AtMostOne
<1>4. ASSUME NEW st \in {"POLICY_REJECTED", "REQUIRES_APPROVAL"}, CommitStatus(s, st),
             st = "REQUIRES_APPROVAL" => o \in Review
      PROVE  KeyInv'
  <2>1. OnlySession(s) /\ KeyOK(s)'
    BY <1>4, ClosedKeys DEF CommitStatus
  <2>2. /\ status'[o] = st /\ \A x \in Ops \ {o} : status'[x] = status[x]
        /\ UNCHANGED <<txrows, created>>
    BY <1>0, <1>1, <1>4 DEF CommitStatus, TypeInv, TypeOK, gatewayVars
  <2>3. ASSUME NEW t \in Sessions PROVE KeyOK(t)'
    BY <1>2, <2>1, <2>2, OthersKeepKeys
  <2>4. ASSUME NEW x \in Ops \ Review PROVE AtMostOne(x)'
    <3>1. AtMostOne(x)
      BY DEF KeyInv
    <3>2. CASE x = o
      BY <1>3, <1>4, <2>2, <3>2 DEF AtMostOne
    <3>3. CASE x # o
      <4>1. ASSUME NEW t \in Sessions, IsRequest(t), Step(t) = "commit", Op(t) = x
            PROVE  FALSE
        BY <1>1, <1>2, <4>1
      <4> QED BY <2>2, <3>1, <3>3, <4>1 DEF AtMostOne
    <3> QED BY <3>2, <3>3
  <2>5. \A x \in Ops : txrows'[x] # {} => status'[x] # "ABSENT"
    BY <1>4, <2>2 DEF KeyInv
  <2> QED BY <2>3, <2>4, <2>5 DEF KeyInv
<1>5. ASSUME GrantReservation(s), Goto(s, "dispatch"), o \notin Review,
             UNCHANGED <<dbVars, gatewayVars>>
      PROVE  KeyInv'
  <2>1. /\ Step(s)' = "dispatch" /\ Op(s)' = o /\ job'[s].call = job[s].call
        /\ job'[s].todo = job[s].todo
        /\ \A t \in Sessions \ {s} : job'[t] = job[t]
    BY <1>0, <1>5, MovedOn
  <2>2. /\ locks'[s].mandate /\ locks'[s].ops = locks[s].ops
        /\ \A t \in Sessions \ {s} : locks'[t] = locks[t] /\ dirty'[t] = dirty[t]
    BY <1>0, <1>5 DEF GrantReservation, TypeInv, TypeOK, LockRows
  <2>3. /\ \A x \in Ops : dirty'[s].status[x] =
             IF x = o THEN "RESERVED" ELSE dirty[s].status[x]
        /\ dirty'[s].insert = dirty[s].insert
    BY <1>0, <1>1, <1>5 DEF GrantReservation, TypeInv, TypeOK, DirtyRows
  <2>4. Written(s)' = {o}
    BY <1>1, <2>3 DEF Written
  <2>5. OnlySession(s)
    BY <2>1, <2>2 DEF OnlySession
  <2>6. StepsOfItsCall(s)'
    BY <1>0, <1>1, <2>1 DEF KeyOK, StepsOfItsCall, IsRequest
  <2>7. FindsRows(s)'
    <3>1. Known(s)' = Known(s)
      BY <1>1, <2>1, <2>2 DEF Known, IsRequest
    <3> QED BY <1>0, <1>5, <3>1 DEF KeyOK, FindsRows, dbVars
  <2>8. CreatesOnce(s)'
    BY <1>1, <1>3, <1>5, <2>1, <2>2 DEF CreatesOnce, dbVars, gatewayVars
  <2>9. WritesItsOwn(s)'
    BY <1>0, <1>1, <2>1, <2>3, <2>4 DEF KeyOK, WritesItsOwn
  <2> QED BY <1>1, <1>5, <2>5, <2>6, <2>7, <2>8, <2>9, OwnKeyStep
          DEF KeyOK, dbVars, gatewayVars
<1>6. \A r \in BOOLEAN : /\ PolicyDecision(s, r) = "ALLOW" => o \notin Review
                         /\ PolicyDecision(s, r) = "REQUIRE_HUMAN_REVIEW" => o \in Review
  BY DEF PolicyDecision
<1> QED BY <1>4, <1>5, <1>6 DEF RequestDecide

(* The gateway's answer to a dispatch, whatever it is. *)
LEMMA DispatchKeepsKeys ==
  ASSUME PipelineConstants, KeyInv, ReservationInv', NEW s \in Sessions,
         DispatchAccepted(s) \/ DispatchNothing(s) \/ DispatchFails(s)
  PROVE  KeyInv'
<1> DEFINE o == Op(s)
<1>0. TypeInv /\ KeyOK(s) /\ o \in Ops /\ Step(s) = "dispatch"
  BY DEF KeyInv, ReservationInv, TypeInv, JobsNameOps, DispatchAccepted, DispatchNothing,
         DispatchFails
<1>1. IsRequest(s) \/ (job[s].call = "approve" /\ o \in Review)
  BY <1>0 DEF KeyOK, StepsOfItsCall
<1>2. IsRequest(s) => o \notin Review /\ status[o] = "ABSENT" /\ created[o] = 0
  BY <1>0 DEF KeyOK, CreatesOnce
<1>3. Goto(s, "commit") /\ UNCHANGED <<status, txrows, locks>>
  BY DEF DispatchAccepted, DispatchNothing, DispatchFails, dbVars
<1>4. /\ Step(s)' = "commit" /\ Op(s)' = o /\ job'[s].call = job[s].call
      /\ job'[s].todo = job[s].todo
      /\ \A t \in Sessions \ {s} : job'[t] = job[t]
  BY <1>0, <1>3, MovedOn
<1>5. /\ created'[o] \in {created[o], created[o] + 1}
      /\ \A x \in Ops \ {o} : created'[x] = created[x]
  BY <1>0 DEF DispatchAccepted, DispatchNothing, DispatchFails, CreateAtGateway, gatewayVars,
              TypeInv, TypeOK
<1>6. /\ \A x \in Ops \ {o} : dirty'[s].status[x] = dirty[s].status[x]
      /\ dirty'[s].status[o] \in {dirty[s].status[o], "SUCCEEDED", "EXECUTING", "FAILED"}
      /\ dirty'[s].insert # dirty[s].insert => dirty'[s].status[o] # "ABSENT"
      /\ \A t \in Sessions \ {s} : dirty'[t] = dirty[t]
  <2>1. CASE DispatchAccepted(s)
    BY <1>0, <2>1 DEF DispatchAccepted, TypeInv, TypeOK, DirtyRows
  <2>2. CASE DispatchNothing(s)
    BY <1>0, <2>2 DEF DispatchNothing
  <2>3. CASE DispatchFails(s)
    BY <1>0, <2>3 DEF DispatchFails, TypeInv, TypeOK, DirtyRows
  <2> QED BY <2>1, <2>2, <2>3
<1>7. OnlySession(s)
  BY <1>3, <1>4, <1>6 DEF OnlySession
<1>8. /\ Written(s) \subseteq Written(s)' /\ Written(s)' \subseteq Written(s) \cup {o}
      /\ dirty'[s].insert # dirty[s].insert => o \in Written(s)'
  BY <1>0, <1>6 DEF Written
<1>9. StepsOfItsCall(s)'
  BY <1>0, <1>1, <1>4 DEF KeyOK, StepsOfItsCall, IsRequest
<1>10. FindsRows(s)'
  <2>1. Known(s)' \subseteq Known(s)
    BY <1>1, <1>3, <1>4, <1>8 DEF Known, IsRequest
  <2> QED BY <1>0, <1>3, <2>1 DEF KeyOK, FindsRows
<1>11. CreatesOnce(s)'
  BY <1>0, <1>3, <1>4 DEF KeyOK, CreatesOnce, IsRequest
<1>12. WritesItsOwn(s)'
  <2>1. IsRequest(s)' => Written(s)' = {o}
    BY <1>0, <1>4, <1>8 DEF KeyOK, WritesItsOwn, IsRequest
  <2>2. dirty'[s].insert # 0 => o \in Written(s)'
    BY <1>0, <1>8 DEF KeyOK, WritesItsOwn
  <2>3. ASSUME NEW x \in Written(s)' \ Review
        PROVE  dirty'[s].status[x] \notin {"POLICY_REJECTED", "REQUIRES_APPROVAL"}
    <3>1. CASE dirty'[s].status[x] = dirty[s].status[x]
      BY <1>0, <2>3, <3>1 DEF KeyOK, WritesItsOwn, Written
    <3>2. CASE x = o /\ dirty'[s].status[o] \in {"SUCCEEDED", "EXECUTING", "FAILED"}
      BY <3>2
    <3> QED BY <1>6, <3>1, <3>2 DEF Written
  <2> HIDE DEF o
  <2> QED BY <1>4, <2>1, <2>2, <2>3 DEF WritesItsOwn
<1>13. KeyOK(s)'
  BY <1>9, <1>10, <1>11, <1>12 DEF KeyOK
<1>14. CASE ~IsRequest(s)
  <2>1. ASSUME NEW t \in Sessions \ {s}, IsRequest(t), Step(t) \in {"dispatch", "commit"}
        PROVE  Op(t) # o /\ Op(t) \in Ops
    BY <1>1, <1>14, <2>1 DEF KeyInv, KeyOK, CreatesOnce, StepsOfItsCall, IsRequest
  <2>2. \A t \in Sessions : KeyOK(t)'
    BY <1>3, <1>5, <1>7, <1>13, <2>1, OthersKeepKeys
  <2>3. ASSUME NEW x \in Ops \ Review PROVE AtMostOne(x)'
    <3>1. AtMostOne(x) /\ x # o
      BY <1>1, <1>14 DEF KeyInv
    <3>2. ASSUME NEW t \in Sessions, IsRequest(t), Step(t) = "commit", Op(t) = x
          PROVE  IsRequest(t)' /\ Step(t)' = "commit" /\ Op(t)' = x
      BY <1>4, <1>14, <3>2 DEF IsRequest, Step, Op
    <3> QED BY <1>3, <1>5, <3>1, <3>2 DEF AtMostOne
  <2> QED BY <1>3, <2>2, <2>3 DEF KeyInv
<1>15. CASE IsRequest(s)
  <2>1. ASSUME NEW t \in Sessions \ {s}, IsRequest(t), Step(t) \in {"dispatch", "commit"}
        PROVE  FALSE
    BY <1>0, <1>15, <2>1 DEF KeyInv, KeyOK, CreatesOnce, ReservationInv, OneLockHolder
  <2>2. \A t \in Sessions : KeyOK(t)'
    BY <1>3, <1>7, <1>13, <2>1, OthersKeepKeys
  <2>3. IsRequest(s)' /\ Step(s)' = "commit" /\ Op(s)' = o
    BY <1>4, <1>15 DEF IsRequest
  <2>4. ASSUME NEW x \in Ops \ Review PROVE AtMostOne(x)'
    <3>1. AtMostOne(x)
      BY DEF KeyInv
    <3>2. CASE x = o
      BY <1>2, <1>3, <1>5, <1>15, <2>3, <3>2 DEF AtMostOne
    <3>3. CASE x # o
      BY <1>0, <1>3, <1>5, <1>15, <2>1, <3>1, <3>3 DEF AtMostOne
    <3> QED BY <3>2, <3>3
  <2> QED BY <1>3, <2>2, <2>4 DEF KeyInv
<1> QED BY <1>14, <1>15

(* A handler that is no request goes on, and writes at most the operation  *)
(* it has found.                                                           *)
LEMMA MoveOnKeepsKeys ==
  ASSUME KeyInv, ReservationInv', NEW s \in Sessions, NEW step, Goto(s, step),
         UNCHANGED <<status, txrows, created>>,
         \A t \in Sessions \ {s} : dirty'[t] = dirty[t] /\ locks'[t] = locks[t],
         ~IsRequest(s), StepsOfItsCall(s)', step # "idle",
         locks'[s].ops \subseteq Known(s),
         dirty'[s].insert = dirty[s].insert,
         \A x \in Ops : dirty'[s].status[x] # dirty[s].status[x] =>
           /\ x = Op(s) /\ status[x] # "ABSENT"
           /\ dirty'[s].status[x] # "ABSENT"
           /\ x \notin Review
                => dirty'[s].status[x] \notin {"POLICY_REJECTED", "REQUIRES_APPROVAL"}
  PROVE  KeyInv'
<1>0. TypeInv /\ KeyOK(s)
  BY DEF KeyInv, ReservationInv
<1>1. /\ Step(s)' = step /\ Op(s)' = Op(s) /\ job'[s].call = job[s].call
      /\ job'[s].todo = job[s].todo
      /\ \A t \in Sessions \ {s} : job'[t] = job[t]
  BY <1>0, MovedOn
<1>2. /\ Written(s) \subseteq Written(s)'
      /\ \A x \in Written(s)' \ Written(s) : x \in Ops /\ x = Op(s) /\ status[x] # "ABSENT"
  BY DEF Written
<1>3. OnlySession(s)
  BY <1>1 DEF OnlySession
<1>4. \A x \in Known(s)' : x \in Known(s) \/ (x \in Ops /\ status[x] # "ABSENT")
  BY <1>1, <1>2 DEF Known, IsRequest
<1>5. FindsRows(s)'
  BY <1>0, <1>4 DEF KeyOK, FindsRows
<1>6. ~IsRequest(s)' /\ step # "lock"
  BY <1>1 DEF IsRequest, StepsOfItsCall
<1>7. \A x \in Written(s)' \ Review :
        dirty'[s].status[x] \notin {"POLICY_REJECTED", "REQUIRES_APPROVAL"}
  BY <1>0 DEF KeyOK, WritesItsOwn, Written
<1>8. WritesItsOwn(s)'
  BY <1>0, <1>1, <1>2, <1>6, <1>7 DEF KeyOK, WritesItsOwn
<1>9. CreatesOnce(s)'
  BY <1>6 DEF CreatesOnce
<1> QED BY <1>3, <1>5, <1>8, <1>9, OwnKeyStep DEF KeyOK

(* An approval reserves and flushes the operation it has found. *)
LEMMA ApprovalKeepsKeys ==
  ASSUME PipelineConstants, KeyInv, ReservationInv', NEW s \in Sessions,
         ApproveReserve(s) \/ ApproveFlush(s)
  PROVE  KeyInv'
<1> DEFINE o == Op(s)
<1>0. TypeInv /\ KeyOK(s)
  BY DEF KeyInv, ReservationInv
<1>1. /\ job[s].call = "approve" /\ ~IsRequest(s) /\ o \in Ops /\ o \in Review /\ o \in Known(s)
      /\ status[o] # "ABSENT" /\ Step(s) \in {"reserve", "flush"}
  BY <1>0 DEF ApproveReserve, ApproveFlush, KeyOK, StepsOfItsCall, FindsRows, Known, IsRequest
<1>2. UNCHANGED <<status, txrows, created>>
  BY DEF ApproveReserve, ApproveFlush, dbVars, gatewayVars
<1>3. PICK step \in {"flush", "dispatch", "commit"} : Goto(s, step)
  BY DEF ApproveReserve, ApproveFlush
<1>4. /\ Step(s)' = step /\ Op(s)' = o /\ job'[s].call = job[s].call
      /\ \A t \in Sessions \ {s} : job'[t] = job[t]
  BY <1>0, <1>3, MovedOn
<1>5. /\ \A t \in Sessions \ {s} : dirty'[t] = dirty[t] /\ locks'[t] = locks[t]
      /\ locks'[s].ops \subseteq locks[s].ops \cup {o}
      /\ dirty'[s].insert = dirty[s].insert
      /\ \A x \in Ops : dirty'[s].status[x] # dirty[s].status[x] =>
           x = o /\ dirty'[s].status[x] # "ABSENT"
  <2>1. CASE ApproveReserve(s) /\ CanReserve(o) /\ GrantReservation(s)
    BY <1>0, <2>1 DEF GrantReservation, TypeInv, TypeOK, DirtyRows, LockRows
  <2>2. CASE /\ ApproveReserve(s) /\ UNCHANGED locks
             /\ dirty' = [dirty EXCEPT ![s].status[o] = "POLICY_REJECTED"]
    BY <1>0, <2>2 DEF TypeInv, TypeOK, DirtyRows
  <2>3. CASE ApproveFlush(s)
    BY <1>0, <2>3 DEF ApproveFlush, TypeInv, TypeOK, LockRows
  <2> QED BY <2>1, <2>2, <2>3 DEF ApproveReserve
<1>6. StepsOfItsCall(s)'
  BY <1>1, <1>4 DEF StepsOfItsCall, IsRequest
<1>7. locks'[s].ops \subseteq Known(s)
  BY <1>1, <1>5 DEF Known
<1> HIDE DEF o
<1>8. \A x \in Ops : dirty'[s].status[x] # dirty[s].status[x] =>
        /\ x = o /\ status[x] # "ABSENT" /\ dirty'[s].status[x] # "ABSENT"
        /\ x \in Review
  BY <1>1, <1>5
<1> USE DEF o
<1> QED BY <1>1, <1>2, <1>3, <1>5, <1>6, <1>7, <1>8, MoveOnKeepsKeys

(* Webhooks and checkouts write the operation they have found. *)
LEMMA SettlementKeepsKeys ==
  ASSUME PipelineConstants, KeyInv, ReservationInv', NEW s \in Sessions,
         \/ WebhookRecord(s) \/ WebhookLookup(s) \/ WebhookMandate(s)
         \/ UpdateMandate(s) \/ VerifyRow(s)
  PROVE  KeyInv'
<1> DEFINE o == Op(s)
<1>0. TypeInv /\ KeyOK(s)
  BY DEF KeyInv, ReservationInv
<1>1. /\ job[s].call \in {"webhook", "verify"} /\ ~IsRequest(s) /\ o \in Ops
      /\ Step(s) \in {"record", "lookup", "mandate", "update", "txrow"}
  BY <1>0 DEF WebhookRecord, WebhookLookup, WebhookMandate, UpdateMandate, VerifyRow, KeyOK,
              StepsOfItsCall, IsRequest
<1>2. UNCHANGED <<status, txrows, created>>
  BY DEF WebhookRecord, WebhookLookup, WebhookMandate, UpdateMandate, VerifyRow, dbVars,
         gatewayVars
<1>3. CASE Close(s)
  BY <1>1, <1>2, <1>3, AbandonedKeys
<1>4. ASSUME ~Close(s) PROVE KeyInv'
  <2>1. PICK step : /\ Goto(s, step)
                    /\ step \in {"lookup", "mandate", "update", "txrow", "commit"}
                    /\ step \in {"lookup", "mandate", "update"} => job[s].call = "webhook"
                    /\ step = "txrow" => job[s].call = "verify"
    BY <1>0, <1>4 DEF WebhookRecord, WebhookLookup, WebhookVerdict, WebhookMandate,
                      UpdateMandate, VerifyRow, KeyOK, StepsOfItsCall
  <2>2. /\ Step(s)' = step /\ Op(s)' = o /\ job'[s].call = job[s].call
        /\ \A t \in Sessions \ {s} : job'[t] = job[t]
    BY <1>0, <2>1, MovedOn
  <2>3. /\ \A t \in Sessions \ {s} : locks'[t] = locks[t]
        /\ locks'[s].ops = locks[s].ops
    BY <1>0, <1>4 DEF WebhookRecord, WebhookLookup, WebhookMandate, UpdateMandate, VerifyRow,
                      TypeInv, TypeOK, LockRows
  <2>4. /\ \A t \in Sessions \ {s} : dirty'[t] = dirty[t]
        /\ dirty'[s].insert = dirty[s].insert
        /\ \A x \in Ops : dirty'[s].status[x] # dirty[s].status[x] =>
             /\ x = o /\ status[x] # "ABSENT"
             /\ dirty'[s].status[x] \in {"SUCCEEDED", "FAILED"}
    <3>1. CASE WebhookRecord(s) \/ WebhookMandate(s)
      BY <1>4, <3>1 DEF WebhookRecord, WebhookMandate
    <3>2. CASE WebhookLookup(s)
      <4>1. ~Unknown(s) => status[o] # "ABSENT"
        BY <1>1 DEF Unknown, KeyInv
      <4>2. CASE \E v : WebhookVerdict(s, v)
        BY <1>0, <4>2 DEF WebhookVerdict, TypeInv, TypeOK, DirtyRows
      <4>3. CASE \E v \in {"SUCCEEDED", "FAILED"} :
                   /\ ~Unknown(s)
                   /\ dirty' = [dirty EXCEPT ![s].status[o] = v, ![s].verdict = "PROCESSED"]
        BY <1>0, <4>1, <4>3 DEF TypeInv, TypeOK, DirtyRows
      <4> QED BY <3>2, <4>2, <4>3 DEF WebhookLookup
    <3>3. CASE UpdateMandate(s)
      BY <1>0, <3>3 DEF UpdateMandate, TypeInv, TypeOK, DirtyRows
    <3>4. CASE VerifyRow(s)
      <4>1. status[o] # "ABSENT"
        BY <1>0, <3>4 DEF VerifyRow, KeyOK, StepsOfItsCall, FindsRows, Known
      <4> QED BY <1>0, <3>4, <4>1 DEF VerifyRow, TypeInv, TypeOK, DirtyRows
    <3> QED BY <3>1, <3>2, <3>3, <3>4
  <2>5. StepsOfItsCall(s)'
    BY <1>0, <1>1, <2>1, <2>2 DEF KeyOK, StepsOfItsCall, IsRequest
  <2>6. locks'[s].ops \subseteq Known(s)
    BY <2>3 DEF Known
  <2> QED BY <1>1, <1>2, <2>1, <2>3, <2>4, <2>5, <2>6, MoveOnKeepsKeys
<1> QED BY <1>3, <1>4

(* A sweep goes on with the operations it has found in flight. *)
LEMMA SweepGoesOnKeepsKeys ==
  ASSUME PipelineConstants, KeyInv, ReservationInv', NEW s \in Sessions,
         SweepSettle(s) \/ SweepDone(s)
  PROVE  KeyInv'
<1>0. TypeInv /\ KeyOK(s)
  BY DEF KeyInv, ReservationInv
<1>1. job[s].call = "sweep" /\ ~IsRequest(s)
  BY <1>0 DEF SweepSettle, SweepDone, KeyOK, StepsOfItsCall, IsRequest
<1>2. UNCHANGED <<status, txrows, created>>
  BY DEF SweepSettle, SweepDone, dbVars, gatewayVars
<1>3. PICK step \in {"sweep", "commit"} : Goto(s, step)
  BY DEF SweepSettle, SweepDone
<1>4. Step(s)' = step /\ Op(s)' = Op(s) /\ job'[s].call = job[s].call
  BY <1>0, <1>3, MovedOn
<1>5. StepsOfItsCall(s)'
  BY <1>1, <1>3, <1>4 DEF StepsOfItsCall, IsRequest
<1>6. /\ \A t \in Sessions \ {s} : dirty'[t] = dirty[t] /\ locks'[t] = locks[t]
      /\ locks'[s].ops = locks[s].ops
      /\ dirty'[s].insert = dirty[s].insert
      /\ dirty'[s].status = dirty[s].status
  <2>1. CASE SweepSettle(s)
    BY <1>0, <2>1 DEF SweepSettle, TypeInv, TypeOK, DirtyRows, LockRows
  <2>2. CASE SweepDone(s)
    BY <2>2 DEF SweepDone
  <2> QED BY <2>1, <2>2
<1>7. locks'[s].ops \subseteq Known(s)
  BY <1>6 DEF Known
<1> QED BY <1>1, <1>2, <1>3, <1>5, <1>6, <1>7, MoveOnKeepsKeys

(* It writes those whose end it has read at the gateway. *)
LEMMA SweepReadKeepsKeys ==
  ASSUME PipelineConstants, KeyInv, ReservationInv', NEW s \in Sessions,
         NEW o \in Ops, NEW v, SweepRead(s, o, v)
  PROVE  KeyInv'
<1>0. TypeInv /\ KeyOK(s)
  BY DEF KeyInv, ReservationInv
<1>1. job[s].call = "sweep" /\ ~IsRequest(s)
  BY <1>0 DEF SweepRead, KeyOK, StepsOfItsCall, IsRequest
<1>2. UNCHANGED <<status, txrows, created, locks>> /\ v \in {"SUCCEEDED", "FAILED", "leave"}
  BY DEF SweepRead, SweepVerdicts, dbVars, gatewayVars
<1>3. o \in Known(s)
  BY DEF SweepRead, Known
<1>4. /\ job'[s].call = "sweep" /\ job'[s].todo = job[s].todo \ {o}
      /\ IF v = "leave"
         THEN Step(s)' = "sweep" /\ Op(s)' = Op(s) /\ dirty' = dirty
         ELSE /\ Step(s)' = "settle" /\ Op(s)' = o
              /\ dirty' = [dirty EXCEPT ![s].status[o] = v]
      /\ \A t \in Sessions \ {s} : job'[t] = job[t]
  BY <1>0, <1>1 DEF SweepRead, TypeInv, TypeOK, JobRows, Step, Op
<1>5. /\ \A t \in Sessions \ {s} : dirty'[t] = dirty[t]
      /\ dirty'[s].insert = dirty[s].insert
      /\ \A x \in Ops : dirty'[s].status[x] =
           IF x = o /\ v # "leave" THEN v ELSE dirty[s].status[x]
  BY <1>0, <1>4 DEF TypeInv, TypeOK, DirtyRows
<1>6. /\ Written(s) \subseteq Written(s)' /\ Written(s)' \subseteq Written(s) \cup {o}
      /\ Op(s)' # Op(s) => Op(s)' \in Written(s)'
  BY <1>2, <1>4, <1>5 DEF Written
<1>7. OnlySession(s)
  BY <1>2, <1>4, <1>5 DEF OnlySession
<1>8. StepsOfItsCall(s)' /\ CreatesOnce(s)' /\ ~IsRequest(s)' /\ Step(s)' \notin {"idle", "lock"}
  BY <1>4 DEF StepsOfItsCall, CreatesOnce, IsRequest
<1>9. FindsRows(s)'
  <2>1. Known(s)' \subseteq Known(s)
    BY <1>1, <1>2, <1>3, <1>4, <1>6 DEF Known, IsRequest
  <2> QED BY <1>0, <1>2, <2>1 DEF KeyOK, FindsRows
<1>10. WritesItsOwn(s)'
  <2>1. dirty'[s].insert # 0 => Op(s)' \in Written(s)'
    BY <1>0, <1>5, <1>6 DEF KeyOK, WritesItsOwn
  <2>2. \A x \in Written(s)' \ Review :
          dirty'[s].status[x] \notin {"POLICY_REJECTED", "REQUIRES_APPROVAL"}
    BY <1>0, <1>2, <1>5 DEF KeyOK, WritesItsOwn, Written
  <2> QED BY <1>8, <2>1, <2>2 DEF WritesItsOwn
<1> QED BY <1>1, <1>2, <1>7, <1>8, <1>9, <1>10, OwnKeyStep DEF KeyOK

(* A COMMIT writes rows that were found, or the row of the key it holds.   *)
LEMMA CommitKeepsKeys ==
  ASSUME PipelineConstants, KeyInv, ReservationInv', NEW s \in Sessions, Commit(s)
  PROVE  KeyInv'
<1> DEFINE o == Op(s)
<1>0. TypeInv /\ KeyOK(s) /\ Close(s) /\ Step(s) = "commit"
  BY DEF KeyInv, ReservationInv, Commit
<1>1. OnlySession(s) /\ KeyOK(s)' /\ Step(s)' = "idle"
  BY <1>0, ClosedKeys
<1>2. \A x \in Ops : status'[x] = IF x \in Written(s) THEN dirty[s].status[x] ELSE status[x]
  BY DEF Commit
<1>3. \A x \in Written(s) : x \in Ops /\ dirty[s].status[x] # "ABSENT"
  BY DEF Written
<1>4. \A x \in Ops : status[x] # "ABSENT" => status'[x] # "ABSENT"
  BY <1>2, <1>3
<1>5. UNCHANGED created
  BY DEF Commit, gatewayVars
<1>6. ASSUME NEW t \in Sessions \ {s}, IsRequest(t), Step(t) \in {"dispatch", "commit"}
      PROVE  Op(t) \in Ops /\ Op(t) \notin Written(s)
  <2>1. locks[t].mandate /\ status[Op(t)] = "ABSENT" /\ Op(t) \in Ops
    BY <1>6 DEF KeyInv, KeyOK, CreatesOnce, StepsOfItsCall, IsRequest
  <2>2. ~IsRequest(s)
    BY <1>0, <2>1 DEF KeyOK, CreatesOnce, KeyInv, ReservationInv, OneLockHolder
  <2> QED BY <1>0, <2>1, <2>2 DEF KeyOK, FindsRows, Known
<1>7. \A t \in Sessions : KeyOK(t)'
  BY <1>1, <1>2, <1>4, <1>5, <1>6, OthersKeepKeys
<1>8. ASSUME NEW x \in Ops, txrows'[x] # {} PROVE status'[x] # "ABSENT"
  <2>1. txrows[x] # {} \/ (x = o /\ dirty[s].insert # 0)
    BY <1>0, <1>8 DEF Commit, TypeInv, TypeOK
  <2> QED BY <1>0, <1>2, <1>3, <1>4, <2>1 DEF KeyInv, KeyOK, WritesItsOwn
<1>9. ASSUME NEW x \in Ops \ Review PROVE AtMostOne(x)'
  <2>0. AtMostOne(x)
    BY DEF KeyInv
  <2>1. CASE x \in Written(s)
    <3>1. status'[x] \notin {"ABSENT", "POLICY_REJECTED", "REQUIRES_APPROVAL"}
      BY <1>0, <1>2, <1>3, <2>1 DEF KeyOK, WritesItsOwn
    <3> QED BY <1>5, <2>0, <3>1 DEF AtMostOne
  <2>2. CASE x \notin Written(s)
    <3>1. status'[x] = status[x]
      BY <1>2, <2>2
    <3>2. ASSUME NEW t \in Sessions, IsRequest(t), Step(t) = "commit", Op(t) = x
          PROVE  IsRequest(t)' /\ Step(t)' = "commit" /\ Op(t)' = x
      <4>1. t # s
        BY <1>0, <2>2, <3>2 DEF KeyOK, WritesItsOwn
      <4> QED BY <1>1, <3>2, <4>1 DEF OnlySession, IsRequest, Step, Op
    <3> QED BY <1>5, <2>0, <3>1, <3>2 DEF AtMostOne
  <2> QED BY <2>1, <2>2
<1> QED BY <1>7, <1>8, <1>9 DEF KeyInv

(* The key invariant holds in the empty database. *)
LEMMA KeyInit ==
  ASSUME Init
  PROVE  KeyInv
<1>1. ReservationInv
  BY ReservationInit
<1>2. ASSUME NEW s \in Sessions PROVE KeyOK(s)
  <2>1. /\ Step(s) = "idle" /\ job[s].call = "none" /\ job[s].todo = {} /\ locks[s].ops = {}
        /\ dirty[s].insert = 0 /\ \A o \in Ops : dirty[s].status[o] = "ABSENT"
    BY DEF Init, Step, NoJob, NoLocks, Clean
  <2>2. Written(s) = {} /\ Known(s) = {} /\ ~IsRequest(s)
    BY <2>1 DEF Written, Known, IsRequest
  <2> QED BY <2>1, <2>2 DEF KeyOK, StepsOfItsCall, FindsRows, CreatesOnce, WritesItsOwn
<1>3. \A o \in Ops : txrows[o] = {} /\ AtMostOne(o)
  BY DEF Init, AtMostOne
<1> QED BY <1>1, <1>2, <1>3 DEF KeyInv

(* Steps of the payer and the clock. *)
LEMMA OutsideKeepsKeys ==
  ASSUME KeyInv, ReservationInv', UNCHANGED <<status, txrows, created, sessionVars>>
  PROVE  KeyInv'
<1>1. ASSUME NEW s \in Sessions PROVE KeyOK(s)'
  <2>1. /\ Step(s)' = Step(s) /\ Op(s)' = Op(s) /\ Written(s)' = Written(s)
        /\ Known(s)' = Known(s) /\ IsRequest(s)' = IsRequest(s)
        /\ job'[s] = job[s] /\ dirty'[s] = dirty[s] /\ locks'[s] = locks[s]
    BY DEF sessionVars, Step, Op, Written, Known, IsRequest
  <2>2. KeyOK(s)
    BY DEF KeyInv
  <2>3. StepsOfItsCall(s)' /\ FindsRows(s)'
    BY <2>1, <2>2 DEF KeyOK, StepsOfItsCall, FindsRows
  <2>4. CreatesOnce(s)' /\ WritesItsOwn(s)'
    BY <2>1, <2>2 DEF KeyOK, CreatesOnce, WritesItsOwn
  <2> QED BY <2>3, <2>4 DEF KeyOK
<1>2. \A o \in Ops \ Review : AtMostOne(o)'
  BY DEF KeyInv, AtMostOne, sessionVars, IsRequest, Step, Op
<1> QED BY <1>1, <1>2 DEF KeyInv

(* Every step but a crash keeps the key invariant. *)
LEMMA KeyStep ==
  ASSUME PipelineConstants, "crash" \notin Faults, KeyInv, [Next]_vars
  PROVE  KeyInv'
<1>0. ReservationInv'
  BY ReservationStep DEF KeyInv
<1>1. CASE UNCHANGED vars
  BY <1>0, <1>1, OutsideKeepsKeys DEF vars, dbVars, gatewayVars
<1>2. ASSUME NEW s \in Sessions, NEW o \in Ops,
             \/ RequestOpen(s, o) \/ ApproveOpen(s, o) \/ RejectOpen(s, o) \/ VerifyOpen(s, o)
      PROVE  KeyInv'
  BY <1>0, <1>2, BeginKeepsKeys
<1>3. ASSUME NEW s \in Sessions, SweepOpen(s) \/ \E e \in Events : WebhookOpen(s, e)
      PROVE  KeyInv'
  BY <1>0, <1>3, OutsideCallsKeepKeys
<1>4. ASSUME NEW s \in Sessions, Crash(s) PROVE FALSE
  BY <1>4 DEF Crash
<1>5. ASSUME NEW s \in Sessions, Continue(s) PROVE KeyInv'
  <2>1. CASE RequestDuplicate(s) \/ VerifyAmbiguous(s) \/ SweepAmbiguous(s) \/ DeadlockAbort(s)
    <3>1. Close(s) /\ UNCHANGED <<status, txrows, created>>
      BY <2>1 DEF RequestDuplicate, VerifyAmbiguous, SweepAmbiguous, DeadlockAbort, dbVars,
                  gatewayVars
    <3>2. ~(IsRequest(s) /\ Step(s) = "commit")
      BY <2>1, NewKeyIsNoVictim DEF RequestDuplicate, VerifyAmbiguous, SweepAmbiguous
    <3> QED BY <1>0, <3>1, <3>2, AbandonedKeys
  <2>2. ASSUME NEW o \in Ops, NEW v, SweepRead(s, o, v) PROVE KeyInv'
    BY <1>0, <2>2, SweepReadKeepsKeys
  <2> QED BY <1>0, <1>5, <2>1, <2>2, RequestDecideKeepsKeys, DispatchKeepsKeys,
             ApprovalKeepsKeys, SettlementKeepsKeys, SweepGoesOnKeepsKeys, CommitKeepsKeys
          DEF Continue
<1>6. ASSUME NEW o \in Ops, Aging(o) PROVE KeyInv'
  BY <1>0, <1>6, OutsideKeepsKeys DEF Aging, dbVars, gatewayVars
<1>7. ASSUME NEW o, NEW i, Pay(o, i) \/ AttemptFails(o, i) PROVE KeyInv'
  BY <1>0, <1>7, OutsideKeepsKeys DEF Pay, AttemptFails, dbVars
<1> QED BY <1>1, <1>2, <1>3, <1>4, <1>5, <1>6, <1>7 DEF Next

(* As long as no process dies between the gateway's answer and the COMMIT, *)
(* one idempotency key creates at most one gateway object, for any number  *)
(* of requests and whatever runs beside them (operations.py: the SELECT,   *)
(* the unique key, the mandate lock).                                      *)
THEOREM OneObject ==
  ASSUME "crash" \notin Faults
  PROVE  Spec => []OneObjectPerKey
<1>1. Init => KeyInv
  BY KeyInit
<1>2. KeyInv /\ [Next]_vars => KeyInv'
  BY PipelineConstants, KeyStep
<1>3. KeyInv => OneObjectPerKey
  BY DEF KeyInv, AtMostOne, OneObjectPerKey
<1> QED BY <1>1, <1>2, <1>3, PTL DEF Spec

(* Without crashes, what was denied without a review has no object at the  *)
(* gateway: a denial comes before the dispatch, and nothing later writes   *)
(* one (operations.py, the policy decision).                               *)
THEOREM DenialWithoutEffects ==
  ASSUME "crash" \notin Faults
  PROVE  Spec => []UnreviewedDenialWithoutEffects
<1>1. Init => KeyInv
  BY KeyInit
<1>2. KeyInv /\ [Next]_vars => KeyInv'
  BY PipelineConstants, KeyStep
<1>3. KeyInv => UnreviewedDenialWithoutEffects
  BY DEF KeyInv, AtMostOne, UnreviewedDenialWithoutEffects
<1> QED BY <1>1, <1>2, <1>3, PTL DEF Spec
------------------------------------------------------------------------------
(***************************************************************************)
(* What the pipeline keeps when its handlers are isolated: when they run   *)
(* one at a time, or when only those run side by side that the row locks   *)
(* serialize.  Then the pipeline implements BudgetLedger, a terminal       *)
(* status is final and no webhook is given up but a late capture.          *)
(*                                                                         *)
(* The argument is one idea: a handler that is about to commit a status    *)
(* still finds the row as it read it, and its pending changes of the two   *)
(* columns are the amounts of the operations it has written.  So a COMMIT  *)
(* is a step of the ledger.                                                *)
(***************************************************************************)
Books == INSTANCE BudgetLedgerProofs WITH
           phase <- LedgerPhase, reserved <- mandate.reserved, spend <- mandate.spend

(* One handler at a time. *)
Alone == \A s, t \in Sessions : s = t

(* Only handlers that lock a row before they rely on it: requests take the *)
(* mandate's row before they insert theirs, the sweep locks what it reads, *)
(* and a rejection writes the same whoever came first.                     *)
RowLocked == Calls \subseteq {"request", "mcp", "reject", "sweep"}

(* verify_payment is left out: it reports a payment without looking at the *)
(* status it overwrites.                                                   *)
Isolated == "verify" \notin Calls /\ (Alone \/ RowLocked)
------------------------------------------------------------------------------
(* A handler's steps are its own. *)
RightStep(s) ==
  /\ job[s].call # "verify"
  /\ job[s].call = "none" => Step(s) = "idle"
  /\ job[s].call \in {"request", "mcp"} => Step(s) \in {"lock", "dispatch", "commit"}
  /\ job[s].call = "approve" => Step(s) \in {"reserve", "flush", "dispatch", "commit"}
  /\ job[s].call = "reject" => Step(s) = "commit"
  /\ job[s].call = "webhook"
       => Step(s) \in {"record", "lookup", "mandate", "update", "commit"}
  /\ job[s].call = "sweep" => Step(s) \in {"sweep", "settle", "commit"}
  /\ job[s].call \notin {"none", "sweep"} => Op(s) \in Ops

(* The operations whose status a handler has read and relies on. *)
Claim(s) ==
  IF job[s].call = "sweep" THEN job[s].todo \cup Written(s)
  ELSE IF job[s].call = "approve" THEN {Op(s)}
  ELSE Written(s)

(* The statuses in which a handler finds an operation it goes on with. *)
Found(c) ==
  IF c \in {"request", "mcp"} THEN {"ABSENT"}
  ELSE IF c = "approve" THEN {"REQUIRES_APPROVAL"}
  ELSE IF c = "reject" THEN {"REQUIRES_APPROVAL", "POLICY_REJECTED"}
  ELSE InFlight

StillTrue(s) == \A o \in Claim(s) : status[o] \in Found(job[s].call)

(* What keeps it true. *)
Guarded(s) ==
  /\ job[s].call \in {"request", "mcp"} /\ Written(s) # {} => locks[s].mandate
  /\ job[s].call = "sweep" => Claim(s) \subseteq locks[s].ops
------------------------------------------------------------------------------
(* A handler that serves one operation has pending a status for it, and     *)
(* changes of the columns.                                                 *)
Writes(s, st, r, p) ==
  /\ \A o \in Ops : dirty[s].status[o] = IF o = Op(s) THEN st ELSE "ABSENT"
  /\ dirty[s].reserved = r
  /\ dirty[s].spend = p

Nothing(s) == Writes(s, "ABSENT", 0, 0)

CallerWrites(s) ==
  LET amount == Amount[Op(s)] IN
  /\ Step(s) \in {"lock", "reserve"} => Nothing(s)
  /\ Step(s) \in {"flush", "dispatch"} => Writes(s, "RESERVED", amount, 0)
  /\ Step(s) = "commit" =>
       \/ Writes(s, "RESERVED", amount, 0) \/ Writes(s, "EXECUTING", amount, 0)
       \/ Writes(s, "SUCCEEDED", 0, amount)
       \/ Writes(s, "FAILED", 0, 0)
       \/ job[s].call = "approve" /\ Writes(s, "POLICY_REJECTED", 0, 0)

Target(s) == IF job[s].event = "payment.failed" THEN "FAILED" ELSE "SUCCEEDED"

WebhookWrites(s) ==
  LET amount == Amount[Op(s)] IN
  /\ Step(s) \in {"record", "lookup"} => Nothing(s)
  /\ Step(s) \in {"mandate", "update"} => Writes(s, Target(s), 0, 0)
  /\ Step(s) = "update" => seen[s].reserved >= amount
  /\ Step(s) = "commit" =>
       \/ Nothing(s)
       \/ Writes(s, Target(s), -amount, IF job[s].event = "payment.failed" THEN 0 ELSE amount)

(* The operations whose amounts a sweep has taken from the reservations,    *)
(* and those it has added to the spend.                                    *)
Settled(s) == IF Step(s) = "settle" THEN Written(s) \ {Op(s)} ELSE Written(s)
Spent(s) == {o \in Settled(s) : dirty[s].status[o] = "SUCCEEDED"}

SweepWrites(s) ==
  /\ job[s].todo \cap Written(s) = {}
  /\ \A o \in Written(s) : dirty[s].status[o] \in {"SUCCEEDED", "FAILED"}
  /\ Step(s) = "settle" => Op(s) \in Written(s)
  /\ dirty[s].reserved = -Books!Total(Settled(s))
  /\ dirty[s].spend = Books!Total(Spent(s))

Balanced(s) ==
  /\ job[s].call \in {"request", "mcp", "approve"} => CallerWrites(s)
  /\ job[s].call = "reject" => Writes(s, "POLICY_REJECTED", 0, 0)
  /\ job[s].call = "webhook" => WebhookWrites(s)
  /\ job[s].call = "sweep" => SweepWrites(s)
  /\ job[s].call = "none" => Nothing(s)
------------------------------------------------------------------------------
(* An event is given up only for a capture that came too late. *)
GivesUpRightly(s) ==
  dirty[s].verdict \in {"FAILED", "DEAD_LETTER"} =>
    /\ job[s].call = "webhook"
    /\ job[s].event # "payment.failed"
    /\ status[Op(s)] = "FAILED"

(* A transaction is inserted with the status of an accepted call. *)
RecordsRightly(s) ==
  dirty[s].insert # 0 =>
    /\ job[s].call \in {"request", "mcp", "approve"}
    /\ dirty[s].status[Op(s)] \in {"EXECUTING", "SUCCEEDED"}

Recorded ==
  \A o \in Ops : txrows[o] # {} => status[o] \in {"EXECUTING", "SUCCEEDED", "FAILED"}

OneRowHolder ==
  \A s, t \in Sessions : s # t => locks[s].ops \cap locks[t].ops = {}

HandlerOK(s) ==
  /\ RightStep(s) /\ StillTrue(s) /\ Guarded(s) /\ Balanced(s)
  /\ GivesUpRightly(s) /\ RecordsRightly(s)

IsolationInv ==
  /\ ReservationInv
  /\ OneRowHolder
  /\ \A s \in Sessions : HandlerOK(s)
  /\ Recorded
  /\ FailedEventsAreLateCaptures
  /\ Books!LedgerInv
------------------------------------------------------------------------------
(* The ledger's view of the operations. *)

(* The ledger's constants are those of the pipeline. *)
LEMMA BooksConstants ==
  ASSUME PipelineConstants
  PROVE  Books!LedgerConstants
BY DEF PipelineConstants, Books!LedgerConstants, IsFiniteSet, Books!IsFiniteSet

(* How a status counts in the ledger. *)
LEMMA PhaseOf ==
  ASSUME NEW o \in Ops
  PROVE  /\ LedgerPhase[o] = "held" <=> status[o] \in InFlight
         /\ LedgerPhase[o] = "committed" <=> status[o] = "SUCCEEDED"
         /\ LedgerPhase[o] = "released" <=> status[o] = "FAILED"
         /\ LedgerPhase[o] = "none" <=> status[o] \notin InFlight \cup {"SUCCEEDED", "FAILED"}
BY DEF LedgerPhase, InFlight

(* What a reservation in flight amounts to is in the reserved column. *)
LEMMA HeldIsReserved ==
  ASSUME PipelineConstants, IsolationInv, NEW o \in Ops, status[o] \in InFlight
  PROVE  mandate.reserved >= Amount[o]
<1> DEFINE H == Books!In("held")
<1>1. H \in SUBSET Ops /\ {o} \in SUBSET H
  BY PhaseOf DEF Books!In
<1>2. Books!LedgerConstants
  BY BooksConstants
<1>3. Books!Total(H \ {o}) = Books!Total(H) - Books!Total({o})
  BY <1>1, <1>2, Books!TotalRemove
<1>4. Books!Total(H \ {o}) \in Nat /\ Books!Total(H) \in Nat
  BY <1>1, <1>2, Books!TotalType
<1>5. Books!Total({o}) = Amount[o] /\ Amount[o] \in Nat
  BY <1>2, Books!TotalOne DEF PipelineConstants
<1>6. mandate.reserved = Books!Total(H)
  BY DEF IsolationInv, Books!LedgerInv, Books!ColumnsMatchOperations
<1> QED BY <1>3, <1>4, <1>5, <1>6

------------------------------------------------------------------------------
(* Steps that commit nothing. *)

(* The other sessions stay as they are. *)
OthersRest(s) ==
  \A t \in Sessions \ {s} :
    job'[t] = job[t] /\ seen'[t] = seen[t] /\ dirty'[t] = dirty[t] /\ locks'[t] = locks[t]

(* A handler that rests is fine as long as its claims are respected. *)
LEMMA RestingHandler ==
  ASSUME NEW t \in Sessions, HandlerOK(t),
         job'[t] = job[t], seen'[t] = seen[t], dirty'[t] = dirty[t], locks'[t] = locks[t],
         StillTrue(t)', GivesUpRightly(t)'
  PROVE  HandlerOK(t)'
<1>1. /\ Step(t)' = Step(t) /\ Op(t)' = Op(t) /\ Written(t)' = Written(t)
      /\ Claim(t)' = Claim(t) /\ Target(t)' = Target(t)
      /\ Settled(t)' = Settled(t) /\ Spent(t)' = Spent(t)
  BY DEF Step, Op, Written, Claim, Target, Settled, Spent
<1>2. RightStep(t)' /\ Guarded(t)' /\ RecordsRightly(t)'
  BY <1>1 DEF HandlerOK, RightStep, Guarded, RecordsRightly
<1>3. \A st, r, p : Writes(t, st, r, p)' <=> Writes(t, st, r, p)
  BY <1>1 DEF Writes
<1>4. CallerWrites(t)' <=> CallerWrites(t)
  BY <1>1, <1>3 DEF CallerWrites, Nothing
<1>5. WebhookWrites(t)' <=> WebhookWrites(t)
  BY <1>1, <1>3 DEF WebhookWrites, Nothing
<1>6. SweepWrites(t)' <=> SweepWrites(t)
  BY <1>1 DEF SweepWrites
<1>7. Balanced(t)'
  BY <1>3, <1>4, <1>5, <1>6 DEF HandlerOK, Balanced, Nothing
<1> QED BY <1>2, <1>7 DEF HandlerOK

(* The ledger does not notice a step that moves neither a status nor a     *)
(* column.                                                                 *)
LEMMA BooksStay ==
  ASSUME Books!LedgerInv, UNCHANGED <<status, mandate>>
  PROVE  Books!LedgerInv'
BY DEF Books!LedgerInv, Books!ColumnsMatchOperations, Books!WithinLimit, Books!In,
       Books!Total, LedgerPhase

(* A session takes a step of its own: it is enough to look at it. *)
LEMMA OwnStep ==
  ASSUME IsolationInv, ReservationInv', NEW s \in Sessions, OthersRest(s),
         UNCHANGED dbVars, HandlerOK(s)',
         locks'[s].ops \subseteq locks[s].ops \/ \A o \in locks'[s].ops : OpFree(s, o)
  PROVE  IsolationInv'
<1>1. ASSUME NEW t \in Sessions \ {s} PROVE HandlerOK(t)'
  <2>1. HandlerOK(t)
    BY DEF IsolationInv
  <2>2. /\ job'[t] = job[t] /\ seen'[t] = seen[t] /\ dirty'[t] = dirty[t]
        /\ locks'[t] = locks[t]
    BY DEF OthersRest
  <2>3. Claim(t)' = Claim(t) /\ Op(t)' = Op(t)
    BY <2>2 DEF Claim, Written, Op
  <2>4. StillTrue(t)' /\ GivesUpRightly(t)'
    BY <2>1, <2>2, <2>3 DEF HandlerOK, StillTrue, GivesUpRightly, dbVars
  <2> QED BY <2>1, <2>2, <2>4, RestingHandler
<1>2. OneRowHolder'
  BY DEF IsolationInv, OneRowHolder, OthersRest, OpFree
<1>3. Recorded' /\ FailedEventsAreLateCaptures'
  BY DEF IsolationInv, Recorded, FailedEventsAreLateCaptures, dbVars
<1>4. Books!LedgerInv'
  BY BooksStay DEF IsolationInv, dbVars
<1> QED BY <1>1, <1>2, <1>3, <1>4 DEF IsolationInv

(* A session that is closed has nothing left to answer for. *)
LEMMA ClosedHandler ==
  ASSUME TypeInv, NEW s \in Sessions, Close(s)
  PROVE  /\ OthersRest(s)
         /\ HandlerOK(s)'
         /\ locks'[s].ops = {}
<1>1. job'[s] = NoJob /\ dirty'[s] = Clean /\ locks'[s] = NoLocks
  BY DEF Close, TypeInv, TypeOK
<1>2. OthersRest(s)
  BY DEF OthersRest, Close, TypeInv, TypeOK
<1>3. /\ Step(s)' = "idle" /\ job'[s].call = "none" /\ dirty'[s].reserved = 0
      /\ dirty'[s].spend = 0 /\ dirty'[s].insert = 0 /\ dirty'[s].verdict = "none"
      /\ \A o \in Ops : dirty'[s].status[o] = "ABSENT"
  BY <1>1 DEF Step, NoJob, Clean
<1>4. Written(s)' = {} /\ Claim(s)' = {}
  BY <1>3 DEF Written, Claim
<1>5. RightStep(s)' /\ StillTrue(s)' /\ Guarded(s)'
  BY <1>3, <1>4 DEF RightStep, StillTrue, Guarded
<1>6. Balanced(s)'
  BY <1>3 DEF Balanced, Nothing, Writes
<1>7. GivesUpRightly(s)' /\ RecordsRightly(s)'
  BY <1>3 DEF GivesUpRightly, RecordsRightly
<1>8. locks'[s].ops = {}
  BY <1>1 DEF NoLocks
<1> QED BY <1>2, <1>5, <1>6, <1>7, <1>8 DEF HandlerOK

(* A handler that ends without a COMMIT. *)
LEMMA AbandonedHandler ==
  ASSUME IsolationInv, ReservationInv', NEW s \in Sessions, Close(s), UNCHANGED dbVars
  PROVE  IsolationInv'
<1>1. TypeInv
  BY DEF IsolationInv, ReservationInv
<1> QED BY <1>1, ClosedHandler, OwnStep
------------------------------------------------------------------------------
(* Handlers begin. *)

(* A session that is idle has nothing pending. *)
LEMMA IdleHandler ==
  ASSUME PipelineConstants, IsolationInv, NEW s \in Sessions, Step(s) = "idle"
  PROVE  /\ job[s].call = "none"
         /\ \A o \in Ops : dirty[s].status[o] = "ABSENT"
         /\ dirty[s].reserved = 0 /\ dirty[s].spend = 0 /\ dirty[s].insert = 0
         /\ dirty[s].verdict \notin {"FAILED", "DEAD_LETTER"}
<1>1. HandlerOK(s)
  BY DEF IsolationInv
<1>2. job[s].call \in AllCalls \cup {"none"}
  BY DEF IsolationInv, ReservationInv, TypeInv, TypeOK, JobRows, PipelineConstants
<1>3. job[s].call = "none"
  BY <1>1, <1>2 DEF HandlerOK, RightStep, AllCalls
<1> QED BY <1>1, <1>3
        DEF HandlerOK, Balanced, Nothing, Writes, GivesUpRightly, RecordsRightly

(* A session opens for a call about an operation and has read its status;  *)
(* only a rejection writes at once.                                        *)
LEMMA CallOpened ==
  ASSUME PipelineConstants, Isolated, IsolationInv, ReservationInv',
         NEW s \in Sessions, NEW o \in Ops,
         RequestOpen(s, o) \/ ApproveOpen(s, o) \/ RejectOpen(s, o) \/ VerifyOpen(s, o)
  PROVE  IsolationInv'
<1>0. TypeInv
  BY DEF IsolationInv, ReservationInv
<1>1. PICK c, step :
        /\ Open(s, c, o, step)
        /\ \/ c \in {"request", "mcp"} /\ step = "lock" /\ dirty' = dirty
           \/ /\ c = "approve" /\ step = "reserve" /\ dirty' = dirty
              /\ status[o] = "REQUIRES_APPROVAL"
           \/ /\ c = "reject" /\ step = "commit" /\ status[o] = "REQUIRES_APPROVAL"
              /\ dirty' = [dirty EXCEPT ![s].status[o] = "POLICY_REJECTED"]
  BY DEF RequestOpen, ApproveOpen, RejectOpen, VerifyOpen, Open, Isolated
<1>2. Step(s) = "idle"
  BY <1>1 DEF Open
<1>3. /\ \A x \in Ops : dirty[s].status[x] = "ABSENT"
      /\ dirty[s].reserved = 0 /\ dirty[s].spend = 0 /\ dirty[s].insert = 0
      /\ dirty[s].verdict \notin {"FAILED", "DEAD_LETTER"}
  BY <1>2, IdleHandler
<1>4. job'[s].call = c /\ Step(s)' = step /\ Op(s)' = o
  BY <1>0, <1>1 DEF Open, NoJob, TypeInv, TypeOK, Step, Op
<1>5. UNCHANGED dbVars /\ locks' = locks
  BY DEF RequestOpen, ApproveOpen, RejectOpen, VerifyOpen
<1>6. OthersRest(s)
  BY <1>0, <1>1, <1>5 DEF RequestOpen, ApproveOpen, RejectOpen, VerifyOpen, Open, OthersRest,
                         TypeInv, TypeOK
<1>7. /\ dirty'[s].reserved = 0 /\ dirty'[s].spend = 0 /\ dirty'[s].insert = 0
      /\ dirty'[s].verdict \notin {"FAILED", "DEAD_LETTER"}
      /\ \A x \in Ops : dirty'[s].status[x] =
           IF c = "reject" /\ x = o THEN "POLICY_REJECTED" ELSE "ABSENT"
  BY <1>0, <1>1, <1>3 DEF TypeInv, TypeOK, DirtyRows
<1>8. Written(s)' = IF c = "reject" THEN {o} ELSE {}
  BY <1>7 DEF Written
<1>9. RightStep(s)' /\ Guarded(s)'
  BY <1>1, <1>4, <1>8 DEF RightStep, Guarded
<1>10. StillTrue(s)'
  BY <1>1, <1>4, <1>5, <1>8 DEF StillTrue, Claim, Found, dbVars
<1>11. Balanced(s)'
  BY <1>1, <1>4, <1>7 DEF Balanced, CallerWrites, Nothing, Writes
<1>12. GivesUpRightly(s)' /\ RecordsRightly(s)'
  BY <1>7 DEF GivesUpRightly, RecordsRightly
<1> QED BY <1>5, <1>6, <1>9, <1>10, <1>11, <1>12, OwnStep DEF HandlerOK

(* A webhook's session opens with nothing pending. *)
LEMMA WebhookOpened ==
  ASSUME PipelineConstants, IsolationInv, ReservationInv', NEW s \in Sessions,
         NEW e \in Events, WebhookOpen(s, e)
  PROVE  IsolationInv'
<1>0. TypeInv
  BY DEF IsolationInv, ReservationInv
<1>1. /\ \A x \in Ops : dirty[s].status[x] = "ABSENT"
      /\ dirty[s].reserved = 0 /\ dirty[s].spend = 0 /\ dirty[s].insert = 0
      /\ dirty[s].verdict \notin {"FAILED", "DEAD_LETTER"}
  BY IdleHandler DEF WebhookOpen
<1>2. job'[s].call = "webhook" /\ Step(s)' = "record" /\ Op(s)' \in Ops
  BY <1>0 DEF WebhookOpen, NoJob, TypeInv, TypeOK, Step, Op, Events, Orders
<1>3. UNCHANGED dbVars /\ locks' = locks /\ dirty' = dirty
  BY DEF WebhookOpen
<1>4. OthersRest(s)
  BY <1>0 DEF WebhookOpen, OthersRest, TypeInv, TypeOK
<1>5. Written(s)' = {}
  BY <1>1, <1>3 DEF Written
<1>6. RightStep(s)' /\ Guarded(s)' /\ StillTrue(s)'
  BY <1>2, <1>5 DEF RightStep, Guarded, StillTrue, Claim
<1>7. Balanced(s)'
  BY <1>1, <1>2, <1>3 DEF Balanced, WebhookWrites, Nothing, Writes
<1>8. GivesUpRightly(s)' /\ RecordsRightly(s)'
  BY <1>1, <1>3 DEF GivesUpRightly, RecordsRightly
<1> QED BY <1>3, <1>4, <1>6, <1>7, <1>8, OwnStep DEF HandlerOK

(* A sweep locks the operations it has found in flight. *)
LEMMA SweepOpened ==
  ASSUME PipelineConstants, IsolationInv, ReservationInv', NEW s \in Sessions, SweepOpen(s)
  PROVE  IsolationInv'
<1>0. TypeInv
  BY DEF IsolationInv, ReservationInv
<1>1. /\ \A x \in Ops : dirty[s].status[x] = "ABSENT"
      /\ dirty[s].reserved = 0 /\ dirty[s].spend = 0 /\ dirty[s].insert = 0
      /\ dirty[s].verdict \notin {"FAILED", "DEAD_LETTER"}
  BY IdleHandler DEF SweepOpen
<1>2. job'[s].call = "sweep" /\ Step(s)' = "sweep" /\ job'[s].todo = Stuck(s)
  BY <1>0 DEF SweepOpen, NoJob, TypeInv, TypeOK, Step
<1>3. UNCHANGED dbVars /\ dirty' = dirty
  BY DEF SweepOpen
<1>4. OthersRest(s) /\ locks'[s].ops = Stuck(s)
  BY <1>0 DEF SweepOpen, OthersRest, TypeInv, TypeOK, LockRows
<1>5. Written(s)' = {} /\ Settled(s)' = {} /\ Spent(s)' = {}
  BY <1>1, <1>2, <1>3 DEF Written, Settled, Spent
<1>6. RightStep(s)' /\ Guarded(s)'
  BY <1>2, <1>4, <1>5 DEF RightStep, Guarded, Claim
<1>7. StillTrue(s)'
  BY <1>2, <1>3, <1>5 DEF StillTrue, Claim, Found, Stuck, dbVars
<1>8. Balanced(s)'
  <2>1. dirty'[s].reserved = -0 /\ dirty'[s].spend = 0
    BY <1>1, <1>3
  <2>2. Books!Total({}) = 0
    BY Books!TotalEmpty
  <2>3. dirty'[s].reserved = -Books!Total(Settled(s)') /\ dirty'[s].spend = Books!Total(Spent(s)')
    BY <1>5, <2>1, <2>2
  <2>4. SweepWrites(s)'
    BY <1>2, <1>5, <2>3 DEF SweepWrites
  <2> QED BY <1>2, <2>4 DEF Balanced
<1>9. GivesUpRightly(s)' /\ RecordsRightly(s)'
  BY <1>1, <1>3 DEF GivesUpRightly, RecordsRightly
<1>10. \A o \in locks'[s].ops : OpFree(s, o)
  BY <1>4 DEF Stuck
<1> QED BY <1>3, <1>4, <1>6, <1>7, <1>8, <1>9, <1>10, OwnStep DEF HandlerOK
------------------------------------------------------------------------------
(* Handlers go on. *)

(* One that writes nothing yet. *)
LEMMA Unwritten ==
  ASSUME NEW s \in Sessions, Nothing(s)
  PROVE  Written(s) = {}
BY DEF Nothing, Writes, Written

(* One that has written its operation. *)
LEMMA WrittenOne ==
  ASSUME NEW s \in Sessions, Op(s) \in Ops, NEW st, NEW r, NEW p, st # "ABSENT",
         Writes(s, st, r, p)
  PROVE  Written(s) = {Op(s)}
BY DEF Writes, Written

(* reserve_budget granted: the status and the amount are pending. *)
LEMMA GrantedHandler ==
  ASSUME PipelineConstants, IsolationInv, ReservationInv', NEW s \in Sessions,
         NEW step, GrantReservation(s), Goto(s, step),
         \/ Step(s) = "lock" /\ step = "dispatch" /\ status[Op(s)] = "ABSENT"
         \/ Step(s) = "reserve" /\ step = "flush",
         UNCHANGED <<dbVars, seen>>
  PROVE  IsolationInv'
<1> DEFINE o == Op(s)
<1>0. TypeInv /\ HandlerOK(s)
  BY DEF IsolationInv, ReservationInv
<1>1. /\ Step(s)' = step /\ Op(s)' = o /\ job'[s].call = job[s].call
      /\ \A t \in Sessions \ {s} : job'[t] = job[t]
  BY <1>0, MovedOn
<1>2. o \in Ops /\ Amount[o] \in Nat
  BY <1>0 DEF TypeInv, JobsNameOps, PipelineConstants
<1>3. job[s].call \in AllCalls \cup {"none"}
  BY <1>0 DEF TypeInv, TypeOK, JobRows, PipelineConstants
<1>4. \/ job[s].call \in {"request", "mcp"} /\ step = "dispatch" /\ status[o] = "ABSENT"
      \/ job[s].call = "approve" /\ step = "flush"
  BY <1>0, <1>3 DEF HandlerOK, RightStep, AllCalls
<1>5. Nothing(s)
  BY <1>0, <1>4 DEF HandlerOK, Balanced, CallerWrites
<1>6. /\ \A x \in Ops : dirty'[s].status[x] = IF x = o THEN "RESERVED" ELSE "ABSENT"
      /\ dirty'[s].reserved = Amount[o] /\ dirty'[s].spend = 0
      /\ dirty'[s].insert = dirty[s].insert /\ dirty'[s].verdict = dirty[s].verdict
  BY <1>0, <1>2, <1>5 DEF GrantReservation, TypeInv, TypeOK, DirtyRows, Nothing, Writes
<1>7. Writes(s, "RESERVED", Amount[o], 0)'
  BY <1>1, <1>6 DEF Writes
<1>8. Written(s)' = {o}
  BY <1>2, <1>6 DEF Written
<1>9. locks'[s].mandate /\ locks'[s].ops = locks[s].ops
  BY <1>0 DEF GrantReservation, TypeInv, TypeOK, LockRows
<1>10. OthersRest(s)
  BY <1>0, <1>1 DEF GrantReservation, OthersRest, TypeInv, TypeOK
<1>11. RightStep(s)' /\ Guarded(s)'
  BY <1>1, <1>2, <1>4, <1>9 DEF RightStep, Guarded
<1>12. StillTrue(s)'
  BY <1>0, <1>1, <1>4, <1>8 DEF HandlerOK, StillTrue, Claim, Found, dbVars
<1>13. Balanced(s)'
  BY <1>1, <1>4, <1>7 DEF Balanced, CallerWrites
<1>14. GivesUpRightly(s)' /\ RecordsRightly(s)'
  <2>1. dirty[s].insert = 0
    BY <1>0, <1>2, <1>5 DEF HandlerOK, RecordsRightly, Nothing, Writes
  <2>2. dirty[s].verdict \notin {"FAILED", "DEAD_LETTER"}
    BY <1>0, <1>4 DEF HandlerOK, GivesUpRightly
  <2> QED BY <1>6, <2>1, <2>2 DEF GivesUpRightly, RecordsRightly
<1> QED BY <1>9, <1>10, <1>11, <1>12, <1>13, <1>14, OwnStep DEF HandlerOK

(* The gateway's answer, or its failure, is pending. *)
LEMMA DispatchedHandler ==
  ASSUME PipelineConstants, IsolationInv, ReservationInv', NEW s \in Sessions,
         DispatchAccepted(s) \/ DispatchNothing(s) \/ DispatchFails(s)
  PROVE  IsolationInv'
<1> DEFINE o == Op(s)
<1>0. TypeInv /\ HandlerOK(s) /\ Step(s) = "dispatch" /\ Goto(s, "commit")
  BY DEF IsolationInv, ReservationInv, DispatchAccepted, DispatchNothing, DispatchFails
<1>1. /\ Step(s)' = "commit" /\ Op(s)' = o /\ job'[s].call = job[s].call
      /\ \A t \in Sessions \ {s} : job'[t] = job[t]
  BY <1>0, MovedOn
<1>2. o \in Ops /\ Amount[o] \in Nat
  BY <1>0 DEF TypeInv, JobsNameOps, PipelineConstants
<1>3. job[s].call \in AllCalls \cup {"none"}
  BY <1>0 DEF TypeInv, TypeOK, JobRows, PipelineConstants
<1>4. job[s].call \in {"request", "mcp", "approve"}
  BY <1>0, <1>3 DEF HandlerOK, RightStep, AllCalls
<1>5. Writes(s, "RESERVED", Amount[o], 0)
  BY <1>0, <1>4 DEF HandlerOK, Balanced, CallerWrites
<1>6. Written(s) = {o}
  BY <1>2, <1>5, WrittenOne
<1>7. UNCHANGED dbVars /\ locks' = locks /\ seen' = seen
  BY DEF DispatchAccepted, DispatchNothing, DispatchFails
<1>8. OthersRest(s)
  BY <1>0, <1>1, <1>7 DEF DispatchAccepted, DispatchNothing, DispatchFails, OthersRest,
                         TypeInv, TypeOK
<1>9. \E st \in {"RESERVED", "EXECUTING", "SUCCEEDED", "FAILED"} :
        /\ Writes(s, st, IF st \in {"SUCCEEDED", "FAILED"} THEN 0 ELSE Amount[o],
                  IF st = "SUCCEEDED" THEN Amount[o] ELSE 0)'
        /\ dirty'[s].insert = dirty[s].insert \/ st \in {"EXECUTING", "SUCCEEDED"}
  <2>0. dirty \in [Sessions -> DirtyRows] /\ dirty[s] \in DirtyRows
    BY <1>0 DEF TypeInv, TypeOK
  <2>1. CASE DispatchNothing(s)
    <3>1. dirty' = dirty
      BY <2>1 DEF DispatchNothing
    <3>2. Writes(s, "RESERVED", Amount[o], 0)'
      BY <1>1, <1>5, <3>1 DEF Writes
    <3> QED BY <3>1, <3>2
  <2>2. CASE DispatchFails(s)
    <3>1. /\ \A x \in Ops : dirty'[s].status[x] = IF x = o THEN "FAILED" ELSE dirty[s].status[x]
          /\ dirty'[s].reserved = dirty[s].reserved - Amount[o]
          /\ dirty'[s].spend = dirty[s].spend /\ dirty'[s].insert = dirty[s].insert
      BY <1>2, <2>0, <2>2 DEF DispatchFails, DirtyRows
    <3>2. Writes(s, "FAILED", 0, 0)'
      BY <1>1, <1>2, <1>5, <3>1 DEF Writes
    <3> QED BY <3>1, <3>2
  <2>3. CASE DispatchAccepted(s) /\ Kind[o] = "REFUND"
    <3>1. /\ \A x \in Ops : dirty'[s].status[x] = IF x = o THEN "SUCCEEDED" ELSE dirty[s].status[x]
          /\ dirty'[s].reserved = dirty[s].reserved - Amount[o]
          /\ dirty'[s].spend = dirty[s].spend + Amount[o]
      BY <1>2, <2>0, <2>3 DEF DispatchAccepted, DirtyRows
    <3>2. Writes(s, "SUCCEEDED", 0, Amount[o])'
      BY <1>1, <1>2, <1>5, <3>1 DEF Writes
    <3> QED BY <3>2
  <2>4. CASE DispatchAccepted(s) /\ Kind[o] # "REFUND"
    <3>1. /\ \A x \in Ops : dirty'[s].status[x] = IF x = o THEN "EXECUTING" ELSE dirty[s].status[x]
          /\ dirty'[s].reserved = dirty[s].reserved /\ dirty'[s].spend = dirty[s].spend
      BY <1>2, <2>0, <2>4 DEF DispatchAccepted, DirtyRows
    <3>2. Writes(s, "EXECUTING", Amount[o], 0)'
      BY <1>1, <1>2, <1>5, <3>1 DEF Writes
    <3> QED BY <3>2
  <2> QED BY <2>1, <2>2, <2>3, <2>4
<1>10. PICK st \in {"RESERVED", "EXECUTING", "SUCCEEDED", "FAILED"} :
        /\ Writes(s, st, IF st \in {"SUCCEEDED", "FAILED"} THEN 0 ELSE Amount[o],
                  IF st = "SUCCEEDED" THEN Amount[o] ELSE 0)'
        /\ dirty'[s].insert = dirty[s].insert \/ st \in {"EXECUTING", "SUCCEEDED"}
  BY <1>9
<1>11. dirty'[s].status[o] = st /\ Written(s)' = {o}
  BY <1>1, <1>2, <1>10 DEF Writes, Written
<1>12. RightStep(s)' /\ Guarded(s)'
  BY <1>0, <1>1, <1>2, <1>4, <1>6, <1>7 DEF HandlerOK, RightStep, Guarded
<1>13. StillTrue(s)'
  BY <1>0, <1>1, <1>4, <1>6, <1>7, <1>11 DEF HandlerOK, StillTrue, Claim, Found, dbVars
<1>14. Balanced(s)'
  BY <1>1, <1>4, <1>10 DEF Balanced, CallerWrites
<1>15. dirty'[s].verdict = dirty[s].verdict
  BY <1>0 DEF DispatchAccepted, DispatchNothing, DispatchFails, TypeInv, TypeOK, DirtyRows
<1>16. dirty[s].insert = 0
  BY <1>0, <1>2, <1>5 DEF HandlerOK, RecordsRightly, Writes
<1>17. GivesUpRightly(s)' /\ RecordsRightly(s)'
  BY <1>0, <1>1, <1>4, <1>10, <1>11, <1>15, <1>16 DEF HandlerOK, GivesUpRightly, RecordsRightly
<1> QED BY <1>7, <1>8, <1>12, <1>13, <1>14, <1>17, OwnStep DEF HandlerOK

(* An approval is refused its budget, or locks the row it will write. *)
LEMMA ApprovalGoesOn ==
  ASSUME PipelineConstants, IsolationInv, ReservationInv', NEW s \in Sessions,
         ApproveReserve(s) \/ ApproveFlush(s)
  PROVE  IsolationInv'
<1> DEFINE o == Op(s)
<1>0. TypeInv /\ HandlerOK(s)
  BY DEF IsolationInv, ReservationInv
<1>1. job[s].call \in AllCalls \cup {"none"}
  BY <1>0 DEF TypeInv, TypeOK, JobRows, PipelineConstants
<1>2. job[s].call = "approve" /\ o \in Ops
  BY <1>0, <1>1 DEF HandlerOK, RightStep, AllCalls, ApproveReserve, ApproveFlush
<1>3. status[o] = "REQUIRES_APPROVAL"
  BY <1>0, <1>2 DEF HandlerOK, StillTrue, Claim, Found
<1>4. dirty[s].verdict \notin {"FAILED", "DEAD_LETTER"}
  BY <1>0, <1>2 DEF HandlerOK, GivesUpRightly
<1>5. UNCHANGED dbVars /\ seen' = seen
  BY DEF ApproveReserve, ApproveFlush
<1>6. CASE GrantReservation(s) /\ Goto(s, "flush") /\ ApproveReserve(s)
  BY <1>5, <1>6, GrantedHandler DEF ApproveReserve
<1>7. CASE /\ dirty' = [dirty EXCEPT ![s].status[Op(s)] = "POLICY_REJECTED"]
           /\ Goto(s, "commit") /\ UNCHANGED <<locks, grants>> /\ ApproveReserve(s)
  <2>1. /\ Step(s)' = "commit" /\ Op(s)' = o /\ job'[s].call = "approve"
        /\ \A t \in Sessions \ {s} : job'[t] = job[t]
    BY <1>0, <1>2, <1>7, MovedOn
  <2>2. Nothing(s)
    BY <1>0, <1>2, <1>7 DEF HandlerOK, Balanced, CallerWrites, ApproveReserve
  <2>3. /\ \A x \in Ops : dirty'[s].status[x] = IF x = o THEN "POLICY_REJECTED" ELSE "ABSENT"
        /\ dirty'[s].reserved = 0 /\ dirty'[s].spend = 0
        /\ dirty'[s].insert = dirty[s].insert /\ dirty'[s].verdict = dirty[s].verdict
    BY <1>0, <1>2, <1>7, <2>2 DEF TypeInv, TypeOK, DirtyRows, Nothing, Writes
  <2>4. OthersRest(s)
    BY <1>0, <1>5, <1>7, <2>1 DEF OthersRest, TypeInv, TypeOK
  <2>5. RightStep(s)' /\ Guarded(s)'
    BY <1>2, <2>1 DEF RightStep, Guarded
  <2>6. StillTrue(s)'
    BY <1>3, <1>5, <2>1 DEF StillTrue, Claim, Found, dbVars
  <2>7. Balanced(s)'
    BY <2>1, <2>3 DEF Balanced, CallerWrites, Writes
  <2>8. dirty[s].insert = 0
    BY <1>0, <1>2, <2>2 DEF HandlerOK, RecordsRightly, Nothing, Writes
  <2>9. GivesUpRightly(s)' /\ RecordsRightly(s)'
    BY <1>4, <2>3, <2>8 DEF GivesUpRightly, RecordsRightly
  <2> QED BY <1>5, <1>7, <2>4, <2>5, <2>6, <2>7, <2>9, OwnStep DEF HandlerOK
<1>8. CASE ApproveFlush(s)
  <2>1. /\ Step(s)' = "dispatch" /\ Op(s)' = o /\ job'[s].call = "approve"
        /\ \A t \in Sessions \ {s} : job'[t] = job[t]
    BY <1>0, <1>2, <1>8, MovedOn DEF ApproveFlush
  <2>2. Writes(s, "RESERVED", Amount[o], 0)
    BY <1>0, <1>2, <1>8 DEF HandlerOK, Balanced, CallerWrites, ApproveFlush
  <2>3. dirty' = dirty /\ locks'[s].ops = {o} /\ OpFree(s, o)
    BY <1>0, <1>8 DEF ApproveFlush, TypeInv, TypeOK, LockRows
  <2>4. OthersRest(s)
    BY <1>0, <1>8, <2>1 DEF ApproveFlush, OthersRest, TypeInv, TypeOK
  <2>5. RightStep(s)' /\ Guarded(s)'
    BY <1>2, <2>1 DEF RightStep, Guarded
  <2>6. StillTrue(s)'
    BY <1>3, <1>5, <2>1 DEF StillTrue, Claim, Found, dbVars
  <2>7. Writes(s, "RESERVED", Amount[o], 0)'
    BY <2>1, <2>2, <2>3 DEF Writes
  <2>8. Balanced(s)'
    BY <2>1, <2>7 DEF Balanced, CallerWrites
  <2>9. GivesUpRightly(s)' /\ RecordsRightly(s)'
    BY <1>0, <1>2, <1>4, <2>1, <2>3 DEF HandlerOK, GivesUpRightly, RecordsRightly
  <2>10. \A x \in locks'[s].ops : OpFree(s, x)
    BY <2>3
  <2> QED BY <1>5, <2>4, <2>5, <2>6, <2>8, <2>9, <2>10, OwnStep DEF HandlerOK
<1> QED BY <1>6, <1>7, <1>8 DEF ApproveReserve

(* A transaction names operations that were executing, so a webhook that    *)
(* knows its order finds one that is executing, settled or failed.         *)
LEMMA KnownOrder ==
  ASSUME IsolationInv, NEW s \in Sessions, Op(s) \in Ops, ~Unknown(s)
  PROVE  status[Op(s)] \in {"EXECUTING", "SUCCEEDED", "FAILED"}
BY DEF IsolationInv, Recorded, Unknown

(* What the matrix says of them (state_machine.py). *)
LEMMA SettlingTransitions ==
  /\ CanTransition("EXECUTING", "SUCCEEDED") /\ CanTransition("EXECUTING", "FAILED")
  /\ ~CanTransition("FAILED", "SUCCEEDED")
BY DEF CanTransition, AllowedTransitions, OperationStatus

(* A webhook's handler decides. *)
LEMMA WebhookDecides ==
  ASSUME PipelineConstants, IsolationInv, ReservationInv', NEW s \in Sessions, WebhookLookup(s)
  PROVE  IsolationInv'
<1> DEFINE o == Op(s)
<1>0. TypeInv /\ HandlerOK(s) /\ Step(s) = "lookup"
  BY DEF IsolationInv, ReservationInv, WebhookLookup
<1>1. job[s].call \in AllCalls \cup {"none"}
  BY <1>0 DEF TypeInv, TypeOK, JobRows, PipelineConstants
<1>2. job[s].call = "webhook" /\ o \in Ops
  BY <1>0, <1>1 DEF HandlerOK, RightStep, AllCalls
<1>3. Nothing(s) /\ dirty[s].insert = 0
  BY <1>0, <1>2 DEF HandlerOK, Balanced, WebhookWrites, RecordsRightly
<1>4. UNCHANGED dbVars /\ seen' = seen /\ locks' = locks
  BY DEF WebhookLookup
<1>5. dirty \in [Sessions -> DirtyRows] /\ dirty[s] \in DirtyRows
  BY <1>0 DEF TypeInv, TypeOK
<1>6. ASSUME NEW v, WebhookVerdict(s, v),
             v \in {"FAILED", "DEAD_LETTER"}
               => job[s].event # "payment.failed" /\ status[o] = "FAILED"
      PROVE  IsolationInv'
  <2>1. /\ Step(s)' = "commit" /\ Op(s)' = o /\ job'[s].call = "webhook"
        /\ job'[s].event = job[s].event
        /\ \A t \in Sessions \ {s} : job'[t] = job[t]
    BY <1>0, <1>2, <1>6, MovedOn DEF WebhookVerdict
  <2>2. /\ dirty'[s].status = dirty[s].status
        /\ dirty'[s].reserved = dirty[s].reserved /\ dirty'[s].spend = dirty[s].spend
        /\ dirty'[s].insert = dirty[s].insert /\ dirty'[s].verdict = v
    BY <1>5, <1>6 DEF WebhookVerdict, DirtyRows
  <2>3. OthersRest(s)
    BY <1>4, <1>5, <1>6, <2>1 DEF WebhookVerdict, OthersRest
  <2>4. Nothing(s)' /\ Written(s)' = {}
    BY <1>3, <2>1, <2>2 DEF Nothing, Writes, Written
  <2>5. RightStep(s)' /\ Guarded(s)' /\ StillTrue(s)'
    BY <1>2, <2>1, <2>4 DEF RightStep, Guarded, StillTrue, Claim
  <2>6. Balanced(s)'
    BY <2>1, <2>4 DEF Balanced, WebhookWrites
  <2>7. GivesUpRightly(s)' /\ RecordsRightly(s)'
    BY <1>3, <1>4, <1>6, <2>1, <2>2 DEF GivesUpRightly, RecordsRightly, dbVars
  <2> QED BY <1>4, <2>3, <2>5, <2>6, <2>7, OwnStep DEF HandlerOK
<1>7. ASSUME ~Unknown(s), status[o] = "EXECUTING", Goto(s, "mandate"),
             dirty' = [dirty EXCEPT ![s].status[o] = Target(s), ![s].verdict = "PROCESSED"]
      PROVE  IsolationInv'
  <2>1. /\ Step(s)' = "mandate" /\ Op(s)' = o /\ job'[s].call = "webhook"
        /\ job'[s].event = job[s].event
        /\ \A t \in Sessions \ {s} : job'[t] = job[t]
    BY <1>0, <1>2, <1>7, MovedOn
  <2>2. /\ \A x \in Ops : dirty'[s].status[x] = IF x = o THEN Target(s) ELSE "ABSENT"
        /\ dirty'[s].reserved = 0 /\ dirty'[s].spend = 0
        /\ dirty'[s].insert = 0 /\ dirty'[s].verdict = "PROCESSED"
    BY <1>2, <1>3, <1>5, <1>7 DEF DirtyRows, Nothing, Writes
  <2>3. OthersRest(s)
    BY <1>4, <1>5, <1>7, <2>1 DEF OthersRest
  <2>4. Target(s)' = Target(s) /\ Target(s) # "ABSENT"
    BY <2>1 DEF Target
  <2>5. Writes(s, Target(s), 0, 0)' /\ Written(s)' = {o}
    BY <1>2, <2>1, <2>2, <2>4 DEF Writes, Written
  <2>6. RightStep(s)' /\ Guarded(s)'
    BY <1>2, <2>1 DEF RightStep, Guarded
  <2>7. StillTrue(s)'
    BY <1>4, <1>7, <2>1, <2>5 DEF StillTrue, Claim, Found, InFlight, dbVars
  <2>8. Balanced(s)'
    BY <2>1, <2>5 DEF Balanced, WebhookWrites
  <2>9. GivesUpRightly(s)' /\ RecordsRightly(s)'
    BY <2>2 DEF GivesUpRightly, RecordsRightly
  <2> QED BY <1>4, <2>3, <2>6, <2>7, <2>8, <2>9, OwnStep DEF HandlerOK
<1>8. CASE WebhookVerdict(s, "PROCESSED")
  BY <1>6, <1>8
<1>9. CASE ~Unknown(s) /\ ~Ignores(o, Target(s)) /\ ~CanTransition(status[o], Target(s))
           /\ \E v : WebhookVerdict(s, v)
  <2>1. status[o] \in {"EXECUTING", "SUCCEEDED", "FAILED"}
    BY <1>2, <1>9, KnownOrder
  <2>2. job[s].event # "payment.failed" /\ status[o] = "FAILED"
    BY <1>9, <2>1, SettlingTransitions DEF Ignores, Target, InFlight
  <2> QED BY <1>6, <1>9, <2>2
<1>10. CASE /\ ~Unknown(s) /\ ~Ignores(o, Target(s)) /\ CanTransition(status[o], Target(s))
            /\ Goto(s, "mandate")
            /\ dirty' = [dirty EXCEPT ![s].status[o] = Target(s), ![s].verdict = "PROCESSED"]
  <2>1. status[o] \in {"EXECUTING", "SUCCEEDED", "FAILED"}
    BY <1>2, <1>10, KnownOrder
  <2>2. status[o] = "EXECUTING"
    BY <1>10, <2>1, SettlingTransitions DEF Ignores, Target, InFlight
  <2> QED BY <1>7, <1>10, <2>2
<1> QED BY <1>8, <1>9, <1>10 DEF WebhookLookup, Target

(* A webhook's handler that moves on with what it has written. *)
LEMMA WebhookGoesOn ==
  ASSUME PipelineConstants, IsolationInv, ReservationInv', NEW s \in Sessions,
         WebhookRecord(s) \/ WebhookMandate(s)
  PROVE  IsolationInv'
<1> DEFINE o == Op(s)
<1>0. TypeInv /\ HandlerOK(s)
  BY DEF IsolationInv, ReservationInv
<1>1. job[s].call \in AllCalls \cup {"none"}
  BY <1>0 DEF TypeInv, TypeOK, JobRows, PipelineConstants
<1>2. job[s].call = "webhook" /\ o \in Ops
  BY <1>0, <1>1 DEF HandlerOK, RightStep, AllCalls, WebhookRecord, WebhookMandate
<1>3. UNCHANGED dbVars
  BY DEF WebhookRecord, WebhookMandate
<1>4. CASE Close(s)
  BY <1>3, <1>4, AbandonedHandler
<1>5. ASSUME NEW step \in {"lookup", "update"}, Goto(s, step), dirty' = dirty, locks' = locks,
             \A t \in Sessions \ {s} : seen'[t] = seen[t],
             \/ step = "lookup" /\ Step(s) = "record"
             \/ step = "update" /\ Step(s) = "mandate" /\ seen'[s].reserved >= Amount[o]
      PROVE  IsolationInv'
  <2>1. /\ Step(s)' = step /\ Op(s)' = o /\ job'[s].call = "webhook"
        /\ job'[s].event = job[s].event
        /\ \A t \in Sessions \ {s} : job'[t] = job[t]
    BY <1>0, <1>2, <1>5, MovedOn
  <2>2. Written(s)' = Written(s) /\ Target(s)' = Target(s)
    BY <1>5, <2>1 DEF Written, Target
  <2>3. OthersRest(s)
    BY <1>5, <2>1 DEF OthersRest
  <2>4. RightStep(s)' /\ Guarded(s)'
    BY <1>2, <2>1 DEF RightStep, Guarded
  <2>5. StillTrue(s)'
    BY <1>0, <1>2, <1>3, <2>1, <2>2 DEF HandlerOK, StillTrue, Claim, Found, dbVars
  <2>6. \A st, r, p : Writes(s, st, r, p)' <=> Writes(s, st, r, p)
    BY <1>5, <2>1 DEF Writes
  <2>7. WebhookWrites(s)
    BY <1>0, <1>2 DEF HandlerOK, Balanced
  <2>8. Balanced(s)'
    <3>1. CASE step = "lookup" /\ Step(s) = "record"
      <4>1. Nothing(s)'
        BY <2>6, <2>7, <3>1 DEF WebhookWrites, Nothing
      <4> QED BY <2>1, <3>1, <4>1 DEF Balanced, WebhookWrites
    <3>2. CASE step = "update" /\ Step(s) = "mandate" /\ seen'[s].reserved >= Amount[o]
      <4>1. Writes(s, Target(s), 0, 0)'
        BY <2>2, <2>6, <2>7, <3>2 DEF WebhookWrites
      <4> QED BY <2>1, <3>2, <4>1 DEF Balanced, WebhookWrites
    <3> QED BY <1>5, <3>1, <3>2
  <2>9. GivesUpRightly(s)' /\ RecordsRightly(s)'
    <3>1. dirty[s].insert = 0
      BY <1>0, <1>2 DEF HandlerOK, RecordsRightly
    <3>2. dirty[s].verdict \in {"FAILED", "DEAD_LETTER"}
            => job[s].event # "payment.failed" /\ status[o] = "FAILED"
      BY <1>0 DEF HandlerOK, GivesUpRightly
    <3>3. dirty'[s].insert = dirty[s].insert /\ dirty'[s].verdict = dirty[s].verdict
      BY <1>5
    <3> QED BY <1>3, <2>1, <3>1, <3>2, <3>3 DEF GivesUpRightly, RecordsRightly, dbVars
  <2> QED BY <1>3, <1>5, <2>3, <2>4, <2>5, <2>8, <2>9, OwnStep DEF HandlerOK
<1>6. CASE WebhookRecord(s) /\ Goto(s, "lookup") /\ UNCHANGED <<seen, dirty, locks>>
  <2>1. Step(s) = "record"
    BY <1>6 DEF WebhookRecord
  <2> QED BY <1>5, <1>6, <2>1
<1>7. CASE WebhookMandate(s)
  <2>1. Step(s) = "mandate" /\ dirty' = dirty /\ locks' = locks
    BY <1>7 DEF WebhookMandate
  <2>2. Writes(s, Target(s), 0, 0)
    BY <1>0, <1>2, <2>1 DEF HandlerOK, Balanced, WebhookWrites
  <2>3. o \in Claim(s)
    BY <1>2, <2>2, WrittenOne DEF Claim, Target
  <2>4. status[o] \in InFlight
    BY <1>0, <1>2, <2>3 DEF HandlerOK, StillTrue, Found
  <2>5. mandate.reserved >= Amount[o]
    BY <1>2, <2>4, HeldIsReserved
  <2>6. /\ seen'[s].reserved = mandate.reserved
        /\ \A t \in Sessions \ {s} : seen'[t] = seen[t]
    BY <1>0, <1>7 DEF WebhookMandate, TypeInv, TypeOK, SeenRows
  <2>7. Goto(s, "update")
    <3>1. mandate.reserved \in Int /\ Amount[o] \in Nat
      BY <1>0, <1>2 DEF TypeInv, TypeOK, PipelineConstants
    <3>2. ~(mandate.reserved < Amount[o])
      BY <2>5, <3>1
    <3> QED BY <1>7, <3>2 DEF WebhookMandate
  <2> QED BY <1>5, <2>1, <2>5, <2>6, <2>7
<1> QED BY <1>4, <1>6, <1>7 DEF WebhookRecord

(* A webhook moves the amount of its operation out of the reservations. *)
LEMMA WebhookSettles ==
  ASSUME PipelineConstants, IsolationInv, ReservationInv', NEW s \in Sessions, UpdateMandate(s)
  PROVE  IsolationInv'
<1> DEFINE o == Op(s)
<1>0. TypeInv /\ HandlerOK(s) /\ Step(s) = "update"
  BY DEF IsolationInv, ReservationInv, UpdateMandate
<1>1. job[s].call \in AllCalls \cup {"none"}
  BY <1>0 DEF TypeInv, TypeOK, JobRows, PipelineConstants
<1>2. job[s].call = "webhook" /\ o \in Ops
  BY <1>0, <1>1 DEF HandlerOK, RightStep, AllCalls
<1>3. UNCHANGED dbVars /\ seen' = seen
  BY DEF UpdateMandate
<1>4. WebhookWrites(s)
  BY <1>0, <1>2 DEF HandlerOK, Balanced
<1>5. Writes(s, Target(s), 0, 0) /\ Covered(s)
  BY <1>0, <1>4 DEF WebhookWrites, Covered
<1>6. /\ Step(s)' = "commit" /\ Op(s)' = o /\ job'[s].call = "webhook"
      /\ job'[s].event = job[s].event
      /\ \A t \in Sessions \ {s} : job'[t] = job[t]
  BY <1>0, <1>2, MovedOn DEF UpdateMandate
<1>7. /\ dirty'[s].status = dirty[s].status
      /\ dirty'[s].reserved = -Amount[o]
      /\ dirty'[s].spend = IF job[s].event = "payment.failed" THEN 0 ELSE Amount[o]
      /\ dirty'[s].insert = dirty[s].insert /\ dirty'[s].verdict = dirty[s].verdict
  BY <1>0, <1>5 DEF UpdateMandate, TypeInv, TypeOK, DirtyRows
<1>8. OthersRest(s) /\ locks'[s].ops = locks[s].ops
  BY <1>0, <1>3, <1>6 DEF UpdateMandate, OthersRest, TypeInv, TypeOK, LockRows
<1>9. Written(s)' = Written(s) /\ Target(s)' = Target(s)
  BY <1>6, <1>7 DEF Written, Target
<1>10. Writes(s, Target(s), -Amount[o], IF job[s].event = "payment.failed" THEN 0 ELSE Amount[o])'
  BY <1>5, <1>6, <1>7, <1>9 DEF Writes
<1>11. Balanced(s)'
  BY <1>6, <1>10 DEF Balanced, WebhookWrites
<1>12. RightStep(s)' /\ Guarded(s)'
  BY <1>2, <1>6 DEF RightStep, Guarded
<1>13. StillTrue(s)'
  BY <1>0, <1>2, <1>3, <1>6, <1>9 DEF HandlerOK, StillTrue, Claim, Found, dbVars
<1>14. GivesUpRightly(s)' /\ RecordsRightly(s)'
  BY <1>0, <1>2, <1>3, <1>6, <1>7 DEF HandlerOK, GivesUpRightly, RecordsRightly, dbVars
<1> QED BY <1>3, <1>8, <1>11, <1>12, <1>13, <1>14, OwnStep DEF HandlerOK

(* The sweep's verdict on an operation whose row it holds. *)
LEMMA SweepDecides ==
  ASSUME PipelineConstants, IsolationInv, ReservationInv', NEW s \in Sessions,
         NEW o \in Ops, NEW v, SweepRead(s, o, v)
  PROVE  IsolationInv'
<1>0. TypeInv /\ HandlerOK(s) /\ Step(s) = "sweep" /\ o \in job[s].todo
  BY DEF IsolationInv, ReservationInv, SweepRead
<1>1. job[s].call \in AllCalls \cup {"none"}
  BY <1>0 DEF TypeInv, TypeOK, JobRows, PipelineConstants
<1>2. job[s].call = "sweep"
  BY <1>0, <1>1 DEF HandlerOK, RightStep, AllCalls
<1>3. SweepWrites(s) /\ Settled(s) = Written(s)
  BY <1>0, <1>2 DEF HandlerOK, Balanced, Settled
<1>4. UNCHANGED dbVars /\ seen' = seen /\ locks' = locks
  BY DEF SweepRead
<1>5. dirty \in [Sessions -> DirtyRows] /\ dirty[s] \in DirtyRows
  BY <1>0 DEF TypeInv, TypeOK
<1>6. /\ job'[s].call = "sweep" /\ job'[s].todo = job[s].todo \ {o}
      /\ \A t \in Sessions \ {s} : job'[t] = job[t]
  BY <1>0, <1>2 DEF SweepRead, TypeInv, TypeOK, JobRows
<1>7. /\ dirty'[s].reserved = dirty[s].reserved /\ dirty'[s].spend = dirty[s].spend
      /\ dirty'[s].insert = dirty[s].insert /\ dirty'[s].verdict = dirty[s].verdict
      /\ \A x \in Ops \ {o} : dirty'[s].status[x] = dirty[s].status[x]
      /\ \A t \in Sessions \ {s} : dirty'[t] = dirty[t]
  BY <1>5 DEF SweepRead, DirtyRows
<1>8. o \notin Written(s)
  BY <1>0, <1>3 DEF SweepWrites
<1>9. \/ Step(s)' = "sweep" /\ dirty'[s].status = dirty[s].status
      \/ /\ Step(s)' = "settle" /\ Op(s)' = o
         /\ dirty'[s].status[o] \in {"SUCCEEDED", "FAILED"}
  BY <1>0, <1>5 DEF SweepRead, SweepVerdicts, TypeInv, TypeOK, JobRows, DirtyRows, Step, Op
<1>10. \/ Step(s)' = "sweep" /\ Written(s)' = Written(s)
       \/ Step(s)' = "settle" /\ Op(s)' = o /\ Written(s)' = Written(s) \cup {o}
  BY <1>7, <1>9 DEF Written
<1>11. Settled(s)' = Settled(s)
  BY <1>3, <1>8, <1>10 DEF Settled
<1>12. Spent(s)' = Spent(s)
  BY <1>3, <1>7, <1>8, <1>11 DEF Spent, Written
<1>13. SweepWrites(s)'
  <2>1. job'[s].todo \cap Written(s)' = {}
    BY <1>3, <1>6, <1>10 DEF SweepWrites
  <2>2. \A x \in Written(s)' : dirty'[s].status[x] \in {"SUCCEEDED", "FAILED"}
    BY <1>3, <1>7, <1>8, <1>9, <1>10 DEF SweepWrites, Written
  <2>3. Step(s)' = "settle" => Op(s)' \in Written(s)'
    BY <1>10
  <2>4. /\ dirty'[s].reserved = -Books!Total(Settled(s)')
        /\ dirty'[s].spend = Books!Total(Spent(s)')
    BY <1>3, <1>7, <1>11, <1>12 DEF SweepWrites
  <2> QED BY <2>1, <2>2, <2>3, <2>4 DEF SweepWrites
<1>14. Claim(s)' \subseteq Claim(s)
  BY <1>0, <1>2, <1>6, <1>10 DEF Claim
<1>15. RightStep(s)' /\ Balanced(s)'
  BY <1>6, <1>9, <1>13 DEF RightStep, Balanced
<1>16. StillTrue(s)' /\ Guarded(s)'
  BY <1>0, <1>2, <1>4, <1>6, <1>14 DEF HandlerOK, StillTrue, Guarded, dbVars
<1>17. OthersRest(s)
  BY <1>4, <1>6, <1>7 DEF OthersRest
<1>18. GivesUpRightly(s)' /\ RecordsRightly(s)'
  <2>1. dirty[s].insert = 0 /\ dirty[s].verdict \notin {"FAILED", "DEAD_LETTER"}
    BY <1>0, <1>2 DEF HandlerOK, GivesUpRightly, RecordsRightly
  <2> QED BY <1>7, <2>1 DEF GivesUpRightly, RecordsRightly
<1> QED BY <1>4, <1>15, <1>16, <1>17, <1>18, OwnStep DEF HandlerOK

(* The sweep takes the amount of the operation it has decided on out of    *)
(* the reservations, or goes on when it has nothing more to decide.        *)
LEMMA SweepGoesOn ==
  ASSUME PipelineConstants, IsolationInv, ReservationInv', NEW s \in Sessions,
         SweepSettle(s) \/ SweepDone(s)
  PROVE  IsolationInv'
<1> DEFINE o == Op(s)
<1>0. TypeInv /\ HandlerOK(s) /\ Step(s) \in {"sweep", "settle"}
  BY DEF IsolationInv, ReservationInv, SweepSettle, SweepDone
<1>1. job[s].call \in AllCalls \cup {"none"}
  BY <1>0 DEF TypeInv, TypeOK, JobRows, PipelineConstants
<1>2. job[s].call = "sweep" /\ SweepWrites(s)
  BY <1>0, <1>1 DEF HandlerOK, RightStep, Balanced, AllCalls
<1>3. UNCHANGED dbVars /\ seen' = seen
  BY DEF SweepSettle, SweepDone
<1>4. dirty \in [Sessions -> DirtyRows] /\ dirty[s] \in DirtyRows
  BY <1>0 DEF TypeInv, TypeOK
<1>5. PICK step \in {"sweep", "commit"} : Goto(s, step)
  BY DEF SweepSettle, SweepDone
<1>6. /\ Step(s)' = step /\ job'[s].call = "sweep" /\ job'[s].todo = job[s].todo
      /\ \A t \in Sessions \ {s} : job'[t] = job[t]
  BY <1>0, <1>2, <1>5, MovedOn
<1>7. /\ dirty'[s].status = dirty[s].status
      /\ dirty'[s].insert = dirty[s].insert /\ dirty'[s].verdict = dirty[s].verdict
      /\ \A t \in Sessions \ {s} : dirty'[t] = dirty[t]
  BY <1>4 DEF SweepSettle, SweepDone, DirtyRows
<1>8. locks'[s].ops = locks[s].ops /\ \A t \in Sessions \ {s} : locks'[t] = locks[t]
  BY <1>0 DEF SweepSettle, SweepDone, TypeInv, TypeOK, LockRows
<1>9. Written(s)' = Written(s) /\ Claim(s)' = Claim(s) /\ Settled(s)' = Written(s)
  BY <1>2, <1>6, <1>7 DEF Written, Claim, Settled
<1>10. /\ dirty'[s].reserved = -Books!Total(Settled(s)')
       /\ dirty'[s].spend = Books!Total(Spent(s)')
  <2>1. CASE SweepDone(s)
    <3>1. dirty' = dirty /\ Settled(s) = Written(s)
      BY <2>1 DEF SweepDone, Settled
    <3>2. Settled(s)' = Settled(s) /\ Spent(s)' = Spent(s)
      BY <1>7, <1>9, <3>1 DEF Spent
    <3> QED BY <1>2, <3>1, <3>2 DEF SweepWrites
  <2>2. CASE SweepSettle(s)
    <3>0. Books!LedgerConstants
      BY BooksConstants
    <3>1. Step(s) = "settle" /\ o \in Written(s) /\ o \in Ops
      BY <1>2, <2>2 DEF SweepSettle, SweepWrites, Written
    <3>2. /\ Settled(s) \in SUBSET Ops /\ o \notin Settled(s)
          /\ Settled(s)' = Settled(s) \cup {o}
          /\ Spent(s) \in SUBSET Ops /\ o \notin Spent(s)
      BY <1>9, <3>1 DEF Settled, Spent, Written
    <3>3. /\ Books!Total(Settled(s) \cup {o}) = Books!Total(Settled(s)) + Amount[o]
          /\ Books!Total(Spent(s) \cup {o}) = Books!Total(Spent(s)) + Amount[o]
      <4>1. Books!Total({o}) = Amount[o]
        BY <3>0, <3>1, Books!TotalOne
      <4>2. Books!Total(Settled(s) \cup {o}) = Books!Total(Settled(s)) + Books!Total({o})
        BY <3>0, <3>1, <3>2, Books!TotalDisjoint
      <4>3. Books!Total(Spent(s) \cup {o}) = Books!Total(Spent(s)) + Books!Total({o})
        BY <3>0, <3>1, <3>2, Books!TotalDisjoint
      <4> QED BY <4>1, <4>2, <4>3
    <3>4. /\ dirty'[s].reserved = dirty[s].reserved - Amount[o]
          /\ dirty'[s].spend = IF dirty[s].status[o] = "SUCCEEDED" THEN dirty[s].spend + Amount[o]
                               ELSE dirty[s].spend
      BY <1>4, <2>2 DEF SweepSettle, DirtyRows
    <3>5. /\ Books!Total(Settled(s)) \in Nat /\ Amount[o] \in Nat
      BY <3>0, <3>1, <3>2, Books!TotalType DEF PipelineConstants
    <3>6. dirty[s].reserved = -Books!Total(Settled(s)) /\ dirty[s].spend = Books!Total(Spent(s))
      BY <1>2 DEF SweepWrites
    <3>7. Books!Total(Settled(s)') = Books!Total(Settled(s)) + Amount[o]
      BY <3>2, <3>3
    <3>8. dirty'[s].reserved = -Books!Total(Settled(s)')
      BY <3>4, <3>5, <3>6, <3>7
    <3>9. dirty'[s].spend = Books!Total(Spent(s)')
      <4>1. CASE dirty[s].status[o] = "SUCCEEDED"
        <5>1. Spent(s)' = Spent(s) \cup {o}
          BY <1>7, <3>2, <4>1 DEF Spent
        <5> QED BY <3>3, <3>4, <3>6, <4>1, <5>1
      <4>2. CASE dirty[s].status[o] # "SUCCEEDED"
        <5>1. Spent(s)' = Spent(s)
          BY <1>7, <3>2, <4>2 DEF Spent
        <5> QED BY <3>4, <3>6, <4>2, <5>1
      <4> QED BY <4>1, <4>2
    <3> QED BY <3>8, <3>9
  <2> QED BY <2>1, <2>2
<1>11. SweepWrites(s)'
  BY <1>2, <1>6, <1>7, <1>9, <1>10 DEF SweepWrites
<1>12. RightStep(s)' /\ Balanced(s)'
  BY <1>6, <1>11 DEF RightStep, Balanced
<1>13. StillTrue(s)' /\ Guarded(s)'
  BY <1>0, <1>2, <1>3, <1>6, <1>8, <1>9 DEF HandlerOK, StillTrue, Guarded, dbVars
<1>14. OthersRest(s)
  BY <1>3, <1>6, <1>7, <1>8 DEF OthersRest
<1>15. GivesUpRightly(s)' /\ RecordsRightly(s)'
  <2>1. dirty[s].insert = 0 /\ dirty[s].verdict \notin {"FAILED", "DEAD_LETTER"}
    BY <1>0, <1>2 DEF HandlerOK, GivesUpRightly, RecordsRightly
  <2> QED BY <1>7, <2>1 DEF GivesUpRightly, RecordsRightly
<1> QED BY <1>3, <1>8, <1>12, <1>13, <1>14, <1>15, OwnStep DEF HandlerOK
------------------------------------------------------------------------------
(* Steps that change the committed rows. *)

(* What a COMMIT finds and writes. *)
LEMMA CommitWrites ==
  ASSUME PipelineConstants, IsolationInv, NEW s \in Sessions, Commit(s)
  PROVE  /\ job[s].call \in {"request", "mcp", "approve", "reject", "webhook", "sweep"}
         /\ \A o \in Ops :
              status'[o] = IF o \in Written(s) THEN dirty[s].status[o] ELSE status[o]
         /\ \A o \in Written(s) :
              /\ o \in Ops
              /\ status[o] \in Found(job[s].call)
              /\ job[s].call = "reject" => dirty[s].status[o] = "POLICY_REJECTED"
              /\ job[s].call \in {"webhook", "sweep"}
                   => dirty[s].status[o] \in {"SUCCEEDED", "FAILED"}
<1>0. TypeInv /\ HandlerOK(s) /\ Step(s) = "commit"
  BY DEF IsolationInv, ReservationInv, Commit
<1>1. job[s].call \in AllCalls \cup {"none"}
  BY <1>0 DEF TypeInv, TypeOK, JobRows, PipelineConstants
<1>2. job[s].call \in {"request", "mcp", "approve", "reject", "webhook", "sweep"}
  BY <1>0, <1>1 DEF HandlerOK, RightStep, AllCalls
<1>3. \A o \in Ops :
        status'[o] = IF o \in Written(s) THEN dirty[s].status[o] ELSE status[o]
  BY DEF Commit
<1>4. ASSUME NEW o \in Written(s) PROVE o \in Claim(s)
  <2>1. CASE job[s].call # "approve"
    BY <1>4, <2>1 DEF Claim
  <2>2. CASE job[s].call = "approve"
    <3>1. CallerWrites(s)
      BY <1>0, <2>2 DEF HandlerOK, Balanced
    <3>2. \E st, r, p : Writes(s, st, r, p)
      BY <1>0, <3>1 DEF CallerWrites
    <3>3. o = Op(s)
      BY <1>4, <3>2 DEF Writes, Written
    <3> QED BY <2>2, <3>3 DEF Claim
  <2> QED BY <2>1, <2>2
<1>5. \A o \in Written(s) : o \in Ops /\ status[o] \in Found(job[s].call)
  BY <1>0, <1>4 DEF HandlerOK, StillTrue, Written
<1>6. ASSUME NEW o \in Written(s), job[s].call = "reject"
      PROVE  dirty[s].status[o] = "POLICY_REJECTED"
  BY <1>0, <1>6 DEF HandlerOK, Balanced, Writes, Written
<1>7. ASSUME NEW o \in Written(s), job[s].call \in {"webhook", "sweep"}
      PROVE  dirty[s].status[o] \in {"SUCCEEDED", "FAILED"}
  <2>1. CASE job[s].call = "sweep"
    BY <1>0, <1>7, <2>1 DEF HandlerOK, Balanced, SweepWrites
  <2>2. CASE job[s].call = "webhook"
    <3>1. WebhookWrites(s)
      BY <1>0, <2>2 DEF HandlerOK, Balanced
    <3>2. \/ Writes(s, "ABSENT", 0, 0)
          \/ \E r, p : Writes(s, Target(s), r, p)
      BY <1>0, <3>1 DEF WebhookWrites, Nothing
    <3> QED BY <1>7, <3>2 DEF Writes, Written, Target
  <2> QED BY <1>7, <2>1, <2>2
<1> QED BY <1>2, <1>3, <1>5, <1>6, <1>7

(* No COMMIT overwrites a terminal status with another one. *)
LEMMA CommitKeepsTerminal ==
  ASSUME PipelineConstants, IsolationInv, NEW s \in Sessions, Commit(s),
         NEW o \in Ops, status[o] \in Terminal
  PROVE  status'[o] = status[o]
BY CommitWrites DEF Terminal, Found, InFlight

(* Handlers that run side by side lock what they rely on. *)
LEMMA SideBySide ==
  ASSUME PipelineConstants, Isolated, IsolationInv,
         NEW s \in Sessions, NEW t \in Sessions, s # t
  PROVE  job[t].call \in {"none", "request", "mcp", "reject", "sweep"}
BY DEF Isolated, Alone, RowLocked, IsolationInv, ReservationInv, TypeInv, TypeOK, JobRows

(* A COMMIT respects what the other handlers have read. *)
LEMMA CommitRespectsOthers ==
  ASSUME PipelineConstants, Isolated, IsolationInv, NEW s \in Sessions, Commit(s),
         NEW t \in Sessions \ {s}
  PROVE  HandlerOK(t)'
<1>0. TypeInv /\ HandlerOK(s) /\ HandlerOK(t)
  BY DEF IsolationInv, ReservationInv
<1>1. /\ job'[t] = job[t] /\ seen'[t] = seen[t] /\ dirty'[t] = dirty[t]
      /\ locks'[t] = locks[t]
  BY <1>0, ClosedHandler DEF Commit, OthersRest
<1>2. /\ job[t].call \in {"none", "request", "mcp", "reject", "sweep"}
      /\ job[s].call \in {"none", "request", "mcp", "reject", "sweep"}
  BY SideBySide
<1>3. ASSUME NEW o \in Claim(t), o \in Written(s)
      PROVE  status'[o] \in Found(job[t].call)
  <2>1. /\ o \in Ops /\ status[o] \in Found(job[s].call)
        /\ status'[o] = dirty[s].status[o]
        /\ job[s].call \in {"request", "mcp", "reject", "sweep"}
        /\ job[s].call = "reject" => dirty[s].status[o] = "POLICY_REJECTED"
    BY <1>2, <1>3, CommitWrites
  <2>2. status[o] \in Found(job[t].call)
    BY <1>0, <1>3 DEF HandlerOK, StillTrue
  <2>3. job[t].call # "none"
    <3>1. job[t].call = "none" => Written(t) = {}
      BY <1>0, Unwritten DEF HandlerOK, Balanced
    <3> QED BY <1>3, <3>1 DEF Claim
  <2>4. CASE job[s].call \in {"request", "mcp"} /\ job[t].call \in {"request", "mcp"}
    <3>1. locks[s].mandate /\ locks[t].mandate
      BY <1>0, <1>3, <2>4 DEF HandlerOK, Guarded, Claim
    <3> QED BY <3>1 DEF IsolationInv, ReservationInv, OneLockHolder
  <2>5. CASE job[s].call = "sweep" /\ job[t].call = "sweep"
    <3>1. o \in locks[s].ops /\ o \in locks[t].ops
      BY <1>0, <1>3, <2>5 DEF HandlerOK, Guarded, Claim
    <3> QED BY <3>1 DEF IsolationInv, OneRowHolder
  <2>6. CASE job[s].call = "reject" /\ job[t].call = "reject"
    BY <2>1, <2>6 DEF Found
  <2> QED BY <1>2, <2>1, <2>2, <2>3, <2>4, <2>5, <2>6 DEF Found, InFlight
<1>4. StillTrue(t)'
  <2>1. Claim(t)' = Claim(t) /\ Claim(t) \subseteq Ops
    <3>1. job[t].todo \subseteq Ops
      BY <1>0 DEF TypeInv, TypeOK, JobRows
    <3> QED BY <1>0, <1>1, <1>2, <3>1 DEF Claim, Written, HandlerOK, RightStep
  <2>2. \A o \in Claim(t) : status'[o] \in Found(job[t].call)
    BY <1>0, <1>3, <2>1, CommitWrites DEF HandlerOK, StillTrue
  <2> QED BY <1>1, <2>1, <2>2 DEF StillTrue
<1>5. GivesUpRightly(t)'
  BY <1>0, <1>1, <1>2 DEF HandlerOK, GivesUpRightly
<1> QED BY <1>0, <1>1, <1>4, <1>5, RestingHandler

(* The ledger's view of one operation moves, those of the others stay. *)
LEMMA PhaseMoves ==
  ASSUME NEW o \in Ops, NEW p, LedgerPhase'[o] = p,
         \A x \in Ops \ {o} : status'[x] = status[x]
  PROVE  LedgerPhase' = [LedgerPhase EXCEPT ![o] = p]
<1>1. \A x \in Ops \ {o} : LedgerPhase'[x] = LedgerPhase[x]
  BY DEF LedgerPhase
<1>2. LedgerPhase = [x \in Ops |-> LedgerPhase[x]]
  BY DEF LedgerPhase
<1>3. LedgerPhase' = [x \in Ops |-> LedgerPhase'[x]]
  BY DEF LedgerPhase
<1> HIDE DEF LedgerPhase
<1> QED BY <1>1, <1>2, <1>3

(* A handler of one operation commits what it has written. *)
LEMMA CommitOne ==
  ASSUME PipelineConstants, IsolationInv, NEW s \in Sessions, Commit(s), Op(s) \in Ops,
         NEW st, NEW r, NEW p, Writes(s, st, r, p)
  PROVE  /\ \A x \in Ops \ {Op(s)} : status'[x] = status[x]
         /\ st # "ABSENT" => status'[Op(s)] = st /\ status[Op(s)] \in Found(job[s].call)
         /\ st = "ABSENT" => status' = status
         /\ mandate'.reserved = mandate.reserved + r
         /\ mandate'.spend = mandate.spend + p
<1>1. status \in [Ops -> StatusOrAbsent]
  BY DEF IsolationInv, ReservationInv, TypeInv, TypeOK
<1>2. \A x \in Ops \ {Op(s)} : status'[x] = status[x]
  BY DEF Commit, Writes, Written
<1>3. ASSUME st # "ABSENT"
      PROVE  status'[Op(s)] = st /\ status[Op(s)] \in Found(job[s].call)
  <2>1. Op(s) \in Written(s) /\ dirty[s].status[Op(s)] = st
    BY <1>3 DEF Writes, Written
  <2> QED BY <2>1, CommitWrites
<1>4. ASSUME st = "ABSENT" PROVE status' = status
  <2>1. Written(s) = {}
    BY <1>4 DEF Writes, Written
  <2> QED BY <1>1, <2>1 DEF Commit
<1>5. mandate'.reserved = mandate.reserved + r /\ mandate'.spend = mandate.spend + p
  BY DEF Commit, Writes
<1> QED BY <1>2, <1>3, <1>4, <1>5

(* The COMMIT of a request or an approval is a reservation, a reservation   *)
(* spent at once or given back at once, or does not concern the ledger.    *)
LEMMA CallerCommitRefines ==
  ASSUME PipelineConstants, IsolationInv, NEW s \in Sessions, Commit(s),
         job[s].call \in {"request", "mcp", "approve"}
  PROVE  [Books!Next]_(Books!vars)
<1> DEFINE o == Op(s)
<1>0. TypeInv /\ HandlerOK(s) /\ Step(s) = "commit"
  BY DEF IsolationInv, ReservationInv, Commit
<1>1. o \in Ops /\ Amount[o] \in Nat /\ Amount[o] > 0
  <2>1. o \in Ops
    BY <1>0 DEF HandlerOK, RightStep
  <2>2. Amount[o] \in Nat \ {0}
    BY <2>1 DEF PipelineConstants
  <2> QED BY <2>1, <2>2
<1>2. mandate.reserved \in Int /\ mandate.spend \in Int /\ Limit \in Nat
  BY <1>0 DEF TypeInv, TypeOK, PipelineConstants
<1>3. CallerWrites(s)
  BY <1>0 DEF HandlerOK, Balanced
<1>4. ASSUME NEW st, NEW r \in Nat, NEW p \in Nat, Writes(s, st, r, p), r + p = Amount[o]
      PROVE  mandate.spend + mandate.reserved + Amount[o] <= Limit
  <2>1. dirty[s].reserved = r /\ dirty[s].spend = p
    BY <1>4 DEF Writes
  <2>2. Net(s) = Amount[o]
    BY <1>4, <2>1 DEF Net
  <2>3. mandate.spend + mandate.reserved + Net(s) <= Limit \/ UnreservedCapture(s)
    BY <1>1, <2>2 DEF IsolationInv, ReservationInv, SessionOK, GrowthIsCovered
  <2> QED BY <2>2, <2>3 DEF UnreservedCapture
<1>5. ASSUME NEW st, NEW r, NEW p, Writes(s, st, r, p), st # "ABSENT"
      PROVE  /\ LedgerPhase[o] = "none" /\ status'[o] = st
             /\ \A x \in Ops \ {o} : status'[x] = status[x]
             /\ mandate'.reserved = mandate.reserved + r /\ mandate'.spend = mandate.spend + p
  <2>1. status[o] \in {"ABSENT", "REQUIRES_APPROVAL"}
    BY <1>1, <1>5, CommitOne DEF Found
  <2>2. LedgerPhase[o] = "none"
    BY <1>1, <2>1, PhaseOf DEF InFlight
  <2> QED BY <1>1, <1>5, <2>2, CommitOne
<1>6. ASSUME NEW st \in {"RESERVED", "EXECUTING"}, Writes(s, st, Amount[o], 0)
      PROVE  Books!Reserve(o)
  <2>1. /\ LedgerPhase[o] = "none" /\ status'[o] = st
        /\ \A x \in Ops \ {o} : status'[x] = status[x]
        /\ mandate'.reserved = mandate.reserved + Amount[o] /\ mandate'.spend = mandate.spend + 0
    BY <1>5, <1>6
  <2>2. LedgerPhase'[o] = "held"
    BY <1>1, <2>1 DEF LedgerPhase, InFlight
  <2>3. LedgerPhase' = [LedgerPhase EXCEPT ![o] = "held"]
    BY <1>1, <2>1, <2>2, PhaseMoves
  <2>4. mandate.spend + mandate.reserved + Amount[o] <= Limit
    BY <1>1, <1>4, <1>6
  <2> QED BY <1>2, <2>1, <2>3, <2>4 DEF Books!Reserve
<1>7. ASSUME Writes(s, "SUCCEEDED", 0, Amount[o]) PROVE Books!Spend(o)
  <2>1. /\ LedgerPhase[o] = "none" /\ status'[o] = "SUCCEEDED"
        /\ \A x \in Ops \ {o} : status'[x] = status[x]
        /\ mandate'.reserved = mandate.reserved + 0 /\ mandate'.spend = mandate.spend + Amount[o]
    BY <1>5, <1>7
  <2>2. LedgerPhase'[o] = "committed"
    BY <1>1, <2>1 DEF LedgerPhase, InFlight
  <2>3. LedgerPhase' = [LedgerPhase EXCEPT ![o] = "committed"]
    BY <1>1, <2>1, <2>2, PhaseMoves
  <2>4. mandate.spend + mandate.reserved + Amount[o] <= Limit
    BY <1>1, <1>4, <1>7
  <2> QED BY <1>2, <2>1, <2>3, <2>4 DEF Books!Spend
<1>8. ASSUME Writes(s, "FAILED", 0, 0) PROVE Books!Abandon(o)
  <2>1. /\ LedgerPhase[o] = "none" /\ status'[o] = "FAILED"
        /\ \A x \in Ops \ {o} : status'[x] = status[x]
        /\ mandate'.reserved = mandate.reserved + 0 /\ mandate'.spend = mandate.spend + 0
    BY <1>5, <1>8
  <2>2. LedgerPhase'[o] = "released"
    BY <1>1, <2>1 DEF LedgerPhase, InFlight
  <2>3. LedgerPhase' = [LedgerPhase EXCEPT ![o] = "released"]
    BY <1>1, <2>1, <2>2, PhaseMoves
  <2> QED BY <1>2, <2>1, <2>3 DEF Books!Abandon
<1>9. ASSUME Writes(s, "POLICY_REJECTED", 0, 0) PROVE UNCHANGED Books!vars
  <2>1. /\ LedgerPhase[o] = "none" /\ status'[o] = "POLICY_REJECTED"
        /\ \A x \in Ops \ {o} : status'[x] = status[x]
        /\ mandate'.reserved = mandate.reserved + 0 /\ mandate'.spend = mandate.spend + 0
    BY <1>5, <1>9
  <2>2. LedgerPhase'[o] = "none"
    BY <1>1, <2>1 DEF LedgerPhase, InFlight
  <2>3. LedgerPhase' = [LedgerPhase EXCEPT ![o] = "none"]
    BY <1>1, <2>1, <2>2, PhaseMoves
  <2>4. LedgerPhase' = LedgerPhase
    BY <2>1, <2>3 DEF LedgerPhase
  <2> QED BY <1>2, <2>1, <2>4 DEF Books!vars
<1> QED BY <1>0, <1>1, <1>3, <1>6, <1>7, <1>8, <1>9 DEF CallerWrites, Books!Next

(* A rejection concerns the ledger as little as what it overwrites. *)
LEMMA RejectCommitRefines ==
  ASSUME PipelineConstants, IsolationInv, NEW s \in Sessions, Commit(s),
         job[s].call = "reject"
  PROVE  UNCHANGED Books!vars
<1> DEFINE o == Op(s)
<1>0. TypeInv /\ HandlerOK(s)
  BY DEF IsolationInv, ReservationInv
<1>1. o \in Ops /\ Writes(s, "POLICY_REJECTED", 0, 0)
  BY <1>0 DEF HandlerOK, RightStep, Balanced
<1>2. /\ status[o] \in {"REQUIRES_APPROVAL", "POLICY_REJECTED"}
      /\ status'[o] = "POLICY_REJECTED"
      /\ \A x \in Ops \ {o} : status'[x] = status[x]
      /\ mandate'.reserved = mandate.reserved + 0 /\ mandate'.spend = mandate.spend + 0
  BY <1>1, CommitOne DEF Found
<1>3. LedgerPhase[o] = "none" /\ LedgerPhase'[o] = "none"
  BY <1>1, <1>2 DEF LedgerPhase, InFlight
<1>4. LedgerPhase' = [LedgerPhase EXCEPT ![o] = "none"]
  BY <1>1, <1>2, <1>3, PhaseMoves
<1>5. LedgerPhase' = LedgerPhase
  BY <1>3, <1>4 DEF LedgerPhase
<1>6. mandate.reserved \in Int /\ mandate.spend \in Int
  BY <1>0 DEF TypeInv, TypeOK
<1> QED BY <1>2, <1>5, <1>6 DEF Books!vars

(* Reservations that end, operation by operation. *)
LEMMA PhasesSettle ==
  ASSUME NEW C, NEW R,
         \A o \in Ops : LedgerPhase'[o] = IF o \in C THEN "committed"
                                          ELSE IF o \in R THEN "released" ELSE LedgerPhase[o]
  PROVE  LedgerPhase' = [o \in Ops |-> IF o \in C THEN "committed"
                                       ELSE IF o \in R THEN "released" ELSE LedgerPhase[o]]
<1>1. LedgerPhase' = [o \in Ops |-> LedgerPhase'[o]]
  BY DEF LedgerPhase
<1> HIDE DEF LedgerPhase
<1> QED BY <1>1

(* The COMMIT of a webhook ends the reservation it has found in flight. *)
LEMMA WebhookCommitRefines ==
  ASSUME PipelineConstants, IsolationInv, NEW s \in Sessions, Commit(s),
         job[s].call = "webhook"
  PROVE  [Books!Next]_(Books!vars)
<1> DEFINE o == Op(s)
           C == IF job[s].event = "payment.failed" THEN {} ELSE {o}
           R == IF job[s].event = "payment.failed" THEN {o} ELSE {}
           p == IF job[s].event = "payment.failed" THEN 0 ELSE Amount[o]
<1>0. TypeInv /\ HandlerOK(s) /\ Step(s) = "commit"
  BY DEF IsolationInv, ReservationInv, Commit
<1>1. o \in Ops /\ Amount[o] \in Nat
  <2>1. o \in Ops
    BY <1>0 DEF HandlerOK, RightStep
  <2> QED BY <2>1 DEF PipelineConstants
<1>2. mandate.reserved \in Int /\ mandate.spend \in Int
  BY <1>0 DEF TypeInv, TypeOK
<1>3. WebhookWrites(s)
  BY <1>0 DEF HandlerOK, Balanced
<1>4. CASE Nothing(s)
  <2>1. /\ status' = status /\ mandate'.reserved = mandate.reserved + 0
        /\ mandate'.spend = mandate.spend + 0
    BY <1>1, <1>4, CommitOne DEF Nothing
  <2> QED BY <1>2, <2>1 DEF Books!vars, LedgerPhase
<1>5. CASE Writes(s, Target(s), -Amount[o], p)
  <2>0. Books!LedgerConstants
    BY BooksConstants
  <2>1. /\ status[o] \in InFlight /\ status'[o] = Target(s)
        /\ \A x \in Ops \ {o} : status'[x] = status[x]
        /\ mandate'.reserved = mandate.reserved + (-Amount[o])
        /\ mandate'.spend = mandate.spend + p
    BY <1>1, <1>5, CommitOne DEF Found, Target
  <2>2. C \cup R = {o} /\ C \cap R = {} /\ C \in SUBSET Ops /\ R \in SUBSET Ops
    BY <1>1
  <2>3. LedgerPhase[o] = "held"
    BY <1>1, <2>1, PhaseOf
  <2>4. C \in SUBSET Books!In("held") /\ R \in SUBSET Books!In("held")
    BY <1>1, <2>2, <2>3 DEF Books!In
  <2>5. Books!Total({}) = 0 /\ Books!Total({o}) = Amount[o]
    BY <1>1, <2>0, Books!TotalEmpty, Books!TotalOne
  <2>6. Books!Total(C) = p /\ Books!Total(R) = Amount[o] - p
    BY <1>1, <2>5
  <2>7. /\ mandate'.reserved = mandate.reserved - Books!Total(C) - Books!Total(R)
        /\ mandate'.spend = mandate.spend + Books!Total(C)
    <3>1. p \in Nat
      BY <1>1
    <3> HIDE DEF p, C, R
    <3> QED BY <1>1, <1>2, <2>1, <2>6, <3>1
  <2>8. \A x \in Ops : LedgerPhase'[x] = IF x \in C THEN "committed"
                                         ELSE IF x \in R THEN "released" ELSE LedgerPhase[x]
    BY <1>1, <2>1 DEF LedgerPhase, InFlight, Target
  <2>9. LedgerPhase' = [x \in Ops |-> IF x \in C THEN "committed"
                                      ELSE IF x \in R THEN "released" ELSE LedgerPhase[x]]
    <3> HIDE DEF C, R
    <3> QED BY <2>8, PhasesSettle
  <2>10. Books!Settle(C, R)
    <3> HIDE DEF C, R
    <3> QED BY <2>7, <2>9 DEF Books!Settle
  <2>11. C \cup R # {}
    BY <2>2
  <2> HIDE DEF C, R
  <2> QED BY <2>2, <2>4, <2>10, <2>11 DEF Books!Next
<1> QED BY <1>0, <1>3, <1>4, <1>5 DEF WebhookWrites

(* The COMMIT of a sweep ends the reservations it has decided on, together. *)
LEMMA SweepCommitRefines ==
  ASSUME PipelineConstants, IsolationInv, NEW s \in Sessions, Commit(s),
         job[s].call = "sweep"
  PROVE  [Books!Next]_(Books!vars)
<1> DEFINE C == Spent(s)
           R == Written(s) \ Spent(s)
<1>0. TypeInv /\ HandlerOK(s) /\ Step(s) = "commit" /\ Books!LedgerConstants
  BY BooksConstants DEF IsolationInv, ReservationInv, Commit
<1>1. SweepWrites(s) /\ Settled(s) = Written(s)
  BY <1>0 DEF HandlerOK, Balanced, Settled
<1>2. mandate.reserved \in Int /\ mandate.spend \in Int
  BY <1>0 DEF TypeInv, TypeOK
<1>3. /\ C \in SUBSET Ops /\ R \in SUBSET Ops /\ C \cap R = {} /\ C \cup R = Written(s)
      /\ C = {o \in Written(s) : dirty[s].status[o] = "SUCCEEDED"}
  BY <1>1 DEF Spent, Written
<1>4. ASSUME NEW o \in Ops
      PROVE  /\ status'[o] = IF o \in Written(s) THEN dirty[s].status[o] ELSE status[o]
             /\ o \in Written(s) => /\ status[o] \in InFlight
                                    /\ dirty[s].status[o] \in {"SUCCEEDED", "FAILED"}
  BY CommitWrites DEF Found
<1>5. Books!Total(C \cup R) = Books!Total(C) + Books!Total(R)
  BY <1>0, <1>3, Books!TotalDisjoint
<1>6. Books!Total(C) \in Nat /\ Books!Total(R) \in Nat
  BY <1>0, <1>3, Books!TotalType
<1>7. /\ mandate'.reserved = mandate.reserved + dirty[s].reserved
      /\ mandate'.spend = mandate.spend + dirty[s].spend
  BY DEF Commit
<1>8. dirty[s].reserved = -Books!Total(C \cup R) /\ dirty[s].spend = Books!Total(C)
  BY <1>1, <1>3 DEF SweepWrites
<1>9. /\ mandate'.reserved = mandate.reserved - Books!Total(C) - Books!Total(R)
      /\ mandate'.spend = mandate.spend + Books!Total(C)
  <2> HIDE DEF C, R
  <2> QED BY <1>2, <1>5, <1>6, <1>7, <1>8
<1>10. ASSUME NEW o \in Ops
       PROVE  LedgerPhase'[o] = IF o \in C THEN "committed"
                                ELSE IF o \in R THEN "released" ELSE LedgerPhase[o]
  <2>1. o \in C => status'[o] = "SUCCEEDED"
    BY <1>3, <1>4
  <2>2. o \in R => status'[o] = "FAILED"
    BY <1>3, <1>4
  <2>3. o \notin C \cup R => status'[o] = status[o]
    BY <1>3, <1>4
  <2> HIDE DEF C, R
  <2> QED BY <2>1, <2>2, <2>3 DEF LedgerPhase, InFlight
<1>11. C \in SUBSET Books!In("held") /\ R \in SUBSET Books!In("held")
  BY <1>3, <1>4, PhaseOf DEF Books!In
<1>12. Books!Settle(C, R)
  <2>1. LedgerPhase' = [o \in Ops |-> IF o \in C THEN "committed"
                                      ELSE IF o \in R THEN "released" ELSE LedgerPhase[o]]
    <3> HIDE DEF C, R
    <3> QED BY <1>10, PhasesSettle
  <2> HIDE DEF C, R
  <2> QED BY <1>9, <2>1 DEF Books!Settle
<1>13. CASE C \cup R # {}
  <2> HIDE DEF C, R
  <2> QED BY <1>3, <1>11, <1>12, <1>13 DEF Books!Next
<1>14. CASE C \cup R = {}
  <2>1. C = {} /\ R = {} /\ Books!Total({}) = 0
    BY <1>14, Books!TotalEmpty
  <2>2. Books!Total(C) = 0 /\ Books!Total(R) = 0
    BY <2>1
  <2>3. mandate'.reserved = mandate.reserved /\ mandate'.spend = mandate.spend
    <3> HIDE DEF C, R
    <3> QED BY <1>2, <1>9, <2>2
  <2>4. \A o \in Ops : status'[o] = status[o]
    BY <1>3, <1>4, <1>14
  <2> QED BY <2>3, <2>4 DEF Books!vars, LedgerPhase
<1> QED BY <1>13, <1>14

(* Every COMMIT is a step of the ledger. *)
LEMMA CommitRefines ==
  ASSUME PipelineConstants, IsolationInv, NEW s \in Sessions, Commit(s)
  PROVE  [Books!Next]_(Books!vars)
BY CommitWrites, CallerCommitRefines, RejectCommitRefines, WebhookCommitRefines,
   SweepCommitRefines

(* A COMMIT leaves its session closed and the others as they should be. *)
LEMMA CommittedHandler ==
  ASSUME PipelineConstants, Isolated, IsolationInv, ReservationInv',
         NEW s \in Sessions, Commit(s)
  PROVE  IsolationInv'
<1>0. TypeInv /\ HandlerOK(s) /\ Close(s)
  BY DEF IsolationInv, ReservationInv, Commit
<1>1. OthersRest(s) /\ HandlerOK(s)' /\ locks'[s].ops = {}
  BY <1>0, ClosedHandler
<1>2. \A t \in Sessions : HandlerOK(t)'
  BY <1>1, CommitRespectsOthers
<1>3. OneRowHolder'
  BY <1>1 DEF IsolationInv, OneRowHolder, OthersRest
<1>4. Books!LedgerInv'
  BY CommitRefines, BooksConstants, Books!LedgerStep DEF IsolationInv
<1>5. ASSUME NEW o \in Ops, txrows'[o] # {}
      PROVE  status'[o] \in {"EXECUTING", "SUCCEEDED", "FAILED"}
  <2>1. CASE txrows[o] # {}
    <3>1. status[o] \in {"EXECUTING", "SUCCEEDED", "FAILED"}
      BY <2>1 DEF IsolationInv, Recorded
    <3> QED BY <3>1, CommitWrites DEF Found, InFlight
  <2>2. CASE txrows[o] = {}
    <3>1. o = Op(s) /\ dirty[s].insert # 0
      BY <1>0, <1>5, <2>2 DEF Commit, TypeInv, TypeOK
    <3>2. dirty[s].status[o] \in {"EXECUTING", "SUCCEEDED"}
      BY <1>0, <3>1 DEF HandlerOK, RecordsRightly
    <3>3. o \in Written(s)
      BY <3>2 DEF Written
    <3> QED BY <3>2, <3>3, CommitWrites
  <2> QED BY <2>1, <2>2
<1>6. ASSUME NEW e \in Events, inbox'[e].status \in {"FAILED", "DEAD_LETTER"}
      PROVE  e[1] # "payment.failed" /\ status'[e[2][1]] = "FAILED"
  <2>1. e[2][1] \in Ops
    BY DEF Events, Orders
  <2>2. e[1] # "payment.failed" /\ status[e[2][1]] = "FAILED"
    <3>1. CASE inbox'[e] = inbox[e]
      BY <1>6, <3>1 DEF IsolationInv, FailedEventsAreLateCaptures
    <3>2. CASE inbox'[e] # inbox[e]
      <4>1. job[s].call = "webhook" /\ e = Event(s) /\ inbox'[e].status = dirty[s].verdict
        BY <1>0, <3>2 DEF Commit, TypeInv, TypeOK
      <4>2. e[1] = job[s].event /\ e[2][1] = Op(s)
        BY <4>1 DEF Event, Op
      <4> QED BY <1>0, <1>6, <4>1, <4>2 DEF HandlerOK, GivesUpRightly
    <3> QED BY <3>1, <3>2
  <2> QED BY <2>1, <2>2, CommitKeepsTerminal DEF Terminal
<1> QED BY <1>2, <1>3, <1>4, <1>5, <1>6 DEF IsolationInv, Recorded, FailedEventsAreLateCaptures

(* A denial, or a request for review, of an operation that is new. *)
LEMMA DecidedHandler ==
  ASSUME PipelineConstants, Isolated, IsolationInv, ReservationInv',
         NEW s \in Sessions, Step(s) = "lock", MandateFree(s), KeyIsFree(Op(s)),
         NEW st \in {"POLICY_REJECTED", "REQUIRES_APPROVAL"}, CommitStatus(s, st)
  PROVE  IsolationInv' /\ UNCHANGED Books!vars
<1> DEFINE o == Op(s)
<1>0. TypeInv /\ Close(s)
  BY DEF IsolationInv, ReservationInv, CommitStatus
<1>1. o \in Ops /\ status[o] = "ABSENT"
  BY <1>0 DEF TypeInv, JobsNameOps, KeyIsFree
<1>2. /\ status'[o] = st /\ \A x \in Ops \ {o} : status'[x] = status[x]
      /\ UNCHANGED <<txrows, mandate, inbox>>
  BY <1>0, <1>1 DEF CommitStatus, TypeInv, TypeOK
<1>3. OthersRest(s) /\ HandlerOK(s)' /\ locks'[s].ops = {}
  BY <1>0, ClosedHandler
<1>4. ASSUME NEW t \in Sessions \ {s} PROVE HandlerOK(t)'
  <2>0. HandlerOK(t)
    BY DEF IsolationInv
  <2>1. /\ job'[t] = job[t] /\ seen'[t] = seen[t] /\ dirty'[t] = dirty[t]
        /\ locks'[t] = locks[t]
    BY <1>3 DEF OthersRest
  <2>2. job[t].call \in {"none", "request", "mcp", "reject", "sweep"}
    BY SideBySide
  <2>3. o \notin Claim(t)
    <3>1. CASE job[t].call \in {"request", "mcp"}
      BY <2>0, <3>1 DEF HandlerOK, Guarded, Claim, MandateFree
    <3>2. CASE job[t].call \in {"reject", "sweep"}
      BY <1>1, <2>0, <3>2 DEF HandlerOK, StillTrue, Found, InFlight
    <3>3. CASE job[t].call = "none"
      <4>1. Written(t) = {}
        BY <2>0, <3>3, Unwritten DEF HandlerOK, Balanced
      <4> QED BY <3>3, <4>1 DEF Claim
    <3> QED BY <2>2, <3>1, <3>2, <3>3
  <2>4. Claim(t)' = Claim(t) /\ Claim(t) \subseteq Ops
    <3>1. job[t].todo \subseteq Ops
      BY <1>0 DEF TypeInv, TypeOK, JobRows
    <3> QED BY <2>0, <2>1, <2>2, <3>1 DEF Claim, Written, HandlerOK, RightStep
  <2>5. StillTrue(t)'
    BY <1>2, <2>0, <2>1, <2>3, <2>4 DEF HandlerOK, StillTrue
  <2>6. GivesUpRightly(t)'
    BY <2>0, <2>1, <2>2 DEF HandlerOK, GivesUpRightly
  <2> QED BY <2>0, <2>1, <2>5, <2>6, RestingHandler
<1>5. OneRowHolder'
  BY <1>3 DEF IsolationInv, OneRowHolder, OthersRest
<1>6. UNCHANGED Books!vars
  <2>1. LedgerPhase[o] = "none" /\ LedgerPhase'[o] = "none"
    BY <1>1, <1>2 DEF LedgerPhase, InFlight
  <2>2. LedgerPhase' = [LedgerPhase EXCEPT ![o] = "none"]
    BY <1>1, <1>2, <2>1, PhaseMoves
  <2>3. LedgerPhase' = LedgerPhase
    BY <2>1, <2>2 DEF LedgerPhase
  <2> QED BY <1>2, <2>3 DEF Books!vars
<1>7. Books!LedgerInv'
  BY <1>6, BooksConstants, Books!LedgerStep DEF IsolationInv
<1>8. Recorded'
  BY <1>1, <1>2 DEF IsolationInv, Recorded
<1>9. FailedEventsAreLateCaptures'
  BY <1>1, <1>2 DEF IsolationInv, FailedEventsAreLateCaptures, Events, Orders
<1> QED BY <1>3, <1>4, <1>5, <1>6, <1>7, <1>8, <1>9 DEF IsolationInv
------------------------------------------------------------------------------
(* Every step. *)

(* The empty database and idle sessions satisfy the invariant.             *)
LEMMA IsolationInit ==
  ASSUME PipelineConstants, Init
  PROVE  IsolationInv /\ Books!Init
<1>1. ReservationInv
  BY ReservationInit
<1>2. OneRowHolder
  BY DEF Init, OneRowHolder, NoLocks
<1>3. ASSUME NEW s \in Sessions PROVE HandlerOK(s)
  <2>1. /\ Step(s) = "idle" /\ job[s].call = "none" /\ dirty[s].reserved = 0
        /\ dirty[s].spend = 0 /\ dirty[s].insert = 0 /\ dirty[s].verdict = "none"
        /\ \A o \in Ops : dirty[s].status[o] = "ABSENT"
    BY DEF Init, Step, NoJob, Clean
  <2>2. Nothing(s)
    BY <2>1 DEF Nothing, Writes
  <2>3. Claim(s) = {}
    BY <2>1 DEF Claim, Written
  <2> QED BY <2>1, <2>2, <2>3 DEF HandlerOK, RightStep, StillTrue, Guarded, Balanced,
                                  GivesUpRightly, RecordsRightly
<1>4. Recorded /\ FailedEventsAreLateCaptures
  BY DEF Init, Recorded, FailedEventsAreLateCaptures
<1>5. Books!Init
  BY DEF Init, Books!Init, LedgerPhase, InFlight
<1>6. Books!LedgerInv
  BY <1>5, BooksConstants, Books!LedgerInit
<1> QED BY <1>1, <1>2, <1>3, <1>4, <1>5, <1>6 DEF IsolationInv

(* What a step does to the rest of the system: it keeps the invariant, and *)
(* to the ledger it is a step or nothing.                                  *)
LEMMA ActorsKeep ==
  ASSUME PipelineConstants, IsolationInv, ReservationInv', UNCHANGED <<dbVars, sessionVars>>
  PROVE  IsolationInv'
<1>1. ASSUME NEW t \in Sessions PROVE HandlerOK(t)'
  <2>1. /\ job'[t] = job[t] /\ seen'[t] = seen[t] /\ dirty'[t] = dirty[t]
        /\ locks'[t] = locks[t] /\ HandlerOK(t)
    BY DEF IsolationInv, sessionVars
  <2>2. StillTrue(t)' /\ GivesUpRightly(t)'
    BY <2>1 DEF HandlerOK, StillTrue, Claim, Written, Op, GivesUpRightly, dbVars, sessionVars
  <2> QED BY <2>1, <2>2, RestingHandler
<1>2. OneRowHolder' /\ Recorded' /\ FailedEventsAreLateCaptures'
  BY DEF IsolationInv, OneRowHolder, Recorded, FailedEventsAreLateCaptures, dbVars, sessionVars
<1>3. Books!LedgerInv'
  BY BooksStay DEF IsolationInv, dbVars
<1> QED BY <1>1, <1>2, <1>3 DEF IsolationInv

(* A handler that is not verify_payment has no row to read after the       *)
(* mandate's update.                                                       *)
LEMMA NoTransactionRow ==
  ASSUME PipelineConstants, IsolationInv, NEW s \in Sessions
  PROVE  Step(s) # "txrow"
<1>1. RightStep(s)
  BY DEF IsolationInv, HandlerOK
<1>2. job[s].call \in AllCalls \cup {"none"}
  BY DEF IsolationInv, ReservationInv, TypeInv, TypeOK, JobRows, PipelineConstants
<1> QED BY <1>1, <1>2 DEF RightStep, AllCalls

(* The request pipeline's decision, whichever it is.                       *)
LEMMA RequestDecided ==
  ASSUME PipelineConstants, Isolated, IsolationInv, ReservationInv',
         NEW s \in Sessions, RequestDecide(s)
  PROVE  IsolationInv' /\ [Books!Next]_(Books!vars)
<1>1. Step(s) = "lock" /\ MandateFree(s) /\ KeyIsFree(Op(s))
  BY DEF RequestDecide
<1>2. CASE \E st \in {"POLICY_REJECTED", "REQUIRES_APPROVAL"} : CommitStatus(s, st)
  BY <1>1, <1>2, DecidedHandler
<1>3. CASE GrantReservation(s) /\ Goto(s, "dispatch") /\ UNCHANGED <<dbVars, seen>>
  <2>1. IsolationInv'
    BY <1>1, <1>3, GrantedHandler DEF KeyIsFree
  <2>2. UNCHANGED Books!vars
    BY <1>3 DEF Books!vars, LedgerPhase, dbVars
  <2> QED BY <2>1, <2>2
<1> QED BY <1>2, <1>3 DEF RequestDecide

(* A session goes on. *)
LEMMA HandlerGoesOn ==
  ASSUME PipelineConstants, Isolated, IsolationInv, ReservationInv',
         NEW s \in Sessions, Continue(s)
  PROVE  IsolationInv' /\ [Books!Next]_(Books!vars)
<1>1. CASE Commit(s)
  BY <1>1, CommittedHandler, CommitRefines
<1>2. CASE RequestDecide(s)
  BY <1>2, RequestDecided
<1>3. CASE RequestDuplicate(s) \/ SweepAmbiguous(s) \/ DeadlockAbort(s)
  <2>1. Close(s) /\ UNCHANGED dbVars
    BY <1>3 DEF RequestDuplicate, SweepAmbiguous, DeadlockAbort
  <2>2. UNCHANGED Books!vars
    BY <2>1 DEF Books!vars, LedgerPhase, dbVars
  <2> QED BY <2>1, <2>2, AbandonedHandler
<1>4. CASE VerifyAmbiguous(s) \/ VerifyRow(s)
  BY <1>4, NoTransactionRow DEF VerifyAmbiguous, VerifyRow
<1>5. CASE DispatchAccepted(s) \/ DispatchNothing(s) \/ DispatchFails(s)
  <2>1. UNCHANGED Books!vars
    BY <1>5 DEF DispatchAccepted, DispatchNothing, DispatchFails, Books!vars, LedgerPhase,
                dbVars
  <2> QED BY <1>5, <2>1, DispatchedHandler
<1>6. CASE ApproveReserve(s) \/ ApproveFlush(s)
  <2>1. UNCHANGED Books!vars
    BY <1>6 DEF ApproveReserve, ApproveFlush, Books!vars, LedgerPhase, dbVars
  <2> QED BY <1>6, <2>1, ApprovalGoesOn
<1>7. CASE WebhookRecord(s) \/ WebhookLookup(s) \/ WebhookMandate(s) \/ UpdateMandate(s)
  <2>1. UNCHANGED Books!vars
    BY <1>7 DEF WebhookRecord, WebhookLookup, WebhookMandate, UpdateMandate, Books!vars,
                LedgerPhase, dbVars
  <2> QED BY <1>7, <2>1, WebhookGoesOn, WebhookDecides, WebhookSettles
<1>8. ASSUME NEW o \in Ops, NEW v, SweepRead(s, o, v)
      PROVE  IsolationInv' /\ [Books!Next]_(Books!vars)
  <2>1. UNCHANGED Books!vars
    BY <1>8 DEF SweepRead, Books!vars, LedgerPhase, dbVars
  <2> QED BY <1>8, <2>1, SweepDecides
<1>9. CASE SweepSettle(s) \/ SweepDone(s)
  <2>1. UNCHANGED Books!vars
    BY <1>9 DEF SweepSettle, SweepDone, Books!vars, LedgerPhase, dbVars
  <2> QED BY <1>9, <2>1, SweepGoesOn
<1> QED BY <1>1, <1>2, <1>3, <1>4, <1>5, <1>6, <1>7, <1>8, <1>9 DEF Continue

(* Every step of isolated handlers keeps the invariant and is a step of    *)
(* the ledger, or invisible to it.                                         *)
LEMMA IsolationStep ==
  ASSUME PipelineConstants, Isolated, IsolationInv, [Next]_vars
  PROVE  IsolationInv' /\ [Books!Next]_(Books!vars)
<1>0. ReservationInv'
  BY ReservationStep DEF IsolationInv
<1>1. ASSUME UNCHANGED <<dbVars, sessionVars>>
      PROVE  IsolationInv' /\ [Books!Next]_(Books!vars)
  BY <1>0, <1>1, ActorsKeep DEF Books!vars, LedgerPhase, dbVars
<1>2. ASSUME NEW s \in Sessions, NEW o \in Ops,
             \/ RequestOpen(s, o) \/ ApproveOpen(s, o) \/ RejectOpen(s, o) \/ VerifyOpen(s, o)
      PROVE  IsolationInv' /\ [Books!Next]_(Books!vars)
  <2>1. UNCHANGED Books!vars
    BY <1>2 DEF RequestOpen, ApproveOpen, RejectOpen, VerifyOpen, Books!vars, LedgerPhase,
                dbVars
  <2> QED BY <1>0, <1>2, <2>1, CallOpened
<1>3. ASSUME NEW s \in Sessions, NEW e \in Events, WebhookOpen(s, e)
      PROVE  IsolationInv' /\ [Books!Next]_(Books!vars)
  <2>1. UNCHANGED Books!vars
    BY <1>3 DEF WebhookOpen, Books!vars, LedgerPhase, dbVars
  <2> QED BY <1>0, <1>3, <2>1, WebhookOpened
<1>4. ASSUME NEW s \in Sessions, SweepOpen(s)
      PROVE  IsolationInv' /\ [Books!Next]_(Books!vars)
  <2>1. UNCHANGED Books!vars
    BY <1>4 DEF SweepOpen, Books!vars, LedgerPhase, dbVars
  <2> QED BY <1>0, <1>4, <2>1, SweepOpened
<1>5. ASSUME NEW s \in Sessions, Continue(s)
      PROVE  IsolationInv' /\ [Books!Next]_(Books!vars)
  BY <1>0, <1>5, HandlerGoesOn
<1>6. ASSUME NEW s \in Sessions, Crash(s)
      PROVE  IsolationInv' /\ [Books!Next]_(Books!vars)
  <2>1. UNCHANGED Books!vars
    BY <1>6 DEF Crash, Books!vars, LedgerPhase, dbVars
  <2> QED BY <1>0, <1>6, <2>1, AbandonedHandler DEF Crash
<1>7. ASSUME NEW o, Aging(o) PROVE UNCHANGED <<dbVars, sessionVars>>
  BY <1>7 DEF Aging
<1>8. ASSUME NEW o, NEW i, Pay(o, i) \/ AttemptFails(o, i)
      PROVE  UNCHANGED <<dbVars, sessionVars>>
  BY <1>8 DEF Pay, AttemptFails
<1>9. CASE UNCHANGED vars
  BY <1>1, <1>9 DEF vars
<1> QED BY <1>1, <1>2, <1>3, <1>4, <1>5, <1>6, <1>7, <1>8, <1>9 DEF Next
------------------------------------------------------------------------------
(* The ledger of OperationProperties is this one.                          *)

(* A step of Books is a step of Ledger. *)
LEMMA BooksAreTheLedger ==
  /\ Books!Init => Ledger!Init
  /\ [Books!Next]_(Books!vars) => [Ledger!Next]_(Ledger!vars)
<1>1. \A S : Books!Total(S) = Ledger!Total(S)
  BY DEF Books!Total, Ledger!Total, Books!Cardinality, Ledger!Cardinality
<1>2. \A C, R : Books!Settle(C, R) => Ledger!Settle(C, R)
  BY <1>1 DEF Books!Settle, Ledger!Settle
<1>3. Books!Init => Ledger!Init
  BY DEF Books!Init, Ledger!Init
<1>4. UNCHANGED Books!vars => UNCHANGED Ledger!vars
  BY DEF Books!vars, Ledger!vars
<1>5. Books!In("held") = Ledger!In("held")
  BY DEF Books!In, Ledger!In
<1>6. ASSUME Books!Next PROVE Ledger!Next
  <2>1. ASSUME NEW o \in Ops, Books!Reserve(o) \/ Books!Spend(o) \/ Books!Abandon(o)
        PROVE  Ledger!Next
    BY <2>1 DEF Books!Reserve, Books!Spend, Books!Abandon, Ledger!Reserve, Ledger!Spend,
                Ledger!Abandon, Ledger!Next
  <2>2. ASSUME NEW C \in SUBSET Books!In("held"), NEW R \in SUBSET Books!In("held"),
               C \cap R = {}, C \cup R # {}, Books!Settle(C, R)
        PROVE  Ledger!Next
    BY <1>2, <1>5, <2>2 DEF Ledger!Next
  <2> QED BY <1>6, <2>1, <2>2 DEF Books!Next
<1> QED BY <1>3, <1>4, <1>6
------------------------------------------------------------------------------
(* What is final. *)

(* A status is written by a COMMIT, or by a request that has found no row. *)
LEMMA OnlyCommitsMoveStatuses ==
  ASSUME [Next]_vars, NEW o \in Ops, status'[o] # status[o]
  PROVE  \E s \in Sessions :
           \/ Commit(s)
           \/ KeyIsFree(Op(s)) /\ \E st : CommitStatus(s, st)
<1>1. CASE UNCHANGED vars
  BY <1>1 DEF vars, dbVars
<1>2. ASSUME NEW s \in Sessions, NEW x \in Ops,
             \/ RequestOpen(s, x) \/ ApproveOpen(s, x) \/ RejectOpen(s, x) \/ VerifyOpen(s, x)
      PROVE  UNCHANGED status
  BY <1>2 DEF RequestOpen, ApproveOpen, RejectOpen, VerifyOpen, dbVars
<1>3. ASSUME NEW s \in Sessions, NEW e \in Events, WebhookOpen(s, e) PROVE UNCHANGED status
  BY <1>3 DEF WebhookOpen, dbVars
<1>4. ASSUME NEW s \in Sessions, SweepOpen(s) \/ Crash(s) PROVE UNCHANGED status
  BY <1>4 DEF SweepOpen, Crash, dbVars
<1>5. ASSUME NEW s \in Sessions, Continue(s), ~Commit(s)
      PROVE  UNCHANGED status \/ (KeyIsFree(Op(s)) /\ \E st : CommitStatus(s, st))
  <2>1. ASSUME NEW x \in Ops, NEW v, SweepRead(s, x, v) PROVE UNCHANGED status
    BY <2>1 DEF SweepRead, dbVars
  <2>2. CASE RequestDuplicate(s)
    BY <2>2 DEF RequestDuplicate, dbVars
  <2>3. CASE RequestDecide(s)
    BY <2>3 DEF RequestDecide, dbVars
  <2>4. CASE \/ DispatchAccepted(s) \/ DispatchNothing(s) \/ DispatchFails(s)
             \/ ApproveReserve(s) \/ ApproveFlush(s) \/ VerifyAmbiguous(s) \/ VerifyRow(s)
    BY <2>4 DEF DispatchAccepted, DispatchNothing, DispatchFails, ApproveReserve,
                ApproveFlush, VerifyAmbiguous, VerifyRow, dbVars
  <2>5. CASE \/ WebhookRecord(s) \/ WebhookLookup(s) \/ WebhookMandate(s)
             \/ UpdateMandate(s) \/ SweepAmbiguous(s) \/ SweepSettle(s) \/ SweepDone(s)
             \/ DeadlockAbort(s)
    BY <2>5 DEF WebhookRecord, WebhookLookup, WebhookMandate, UpdateMandate, SweepAmbiguous,
                SweepSettle, SweepDone, DeadlockAbort, dbVars
  <2> QED BY <1>5, <2>1, <2>2, <2>3, <2>4, <2>5 DEF Continue
<1>6. ASSUME NEW x \in Ops, Aging(x) PROVE UNCHANGED status
  BY <1>6 DEF Aging, dbVars
<1>7. ASSUME NEW x, NEW i, Pay(x, i) \/ AttemptFails(x, i) PROVE UNCHANGED status
  BY <1>7 DEF Pay, AttemptFails, dbVars
<1> QED BY <1>1, <1>2, <1>3, <1>4, <1>5, <1>6, <1>7 DEF Next

(* A terminal status is left by no step. *)
LEMMA TerminalStep ==
  ASSUME PipelineConstants, IsolationInv, [Next]_vars,
         NEW o \in Ops, status[o] \in Terminal
  PROVE  status'[o] = status[o]
<1>0. TypeInv
  BY DEF IsolationInv, ReservationInv
<1>1. SUFFICES ASSUME status'[o] # status[o] PROVE FALSE
  OBVIOUS
<1>2. PICK s \in Sessions :
        Commit(s) \/ (KeyIsFree(Op(s)) /\ \E st : CommitStatus(s, st))
  BY <1>1, OnlyCommitsMoveStatuses
<1>3. CASE Commit(s)
  BY <1>1, <1>3, CommitKeepsTerminal
<1>4. CASE KeyIsFree(Op(s)) /\ \E st : CommitStatus(s, st)
  <2>1. o # Op(s)
    BY <1>4 DEF KeyIsFree, Terminal
  <2> QED BY <1>0, <1>1, <1>4, <2>1 DEF CommitStatus, TypeInv, TypeOK
<1> QED BY <1>2, <1>3, <1>4
------------------------------------------------------------------------------
(* The properties that isolated handlers have.                             *)

(* Isolated handlers implement the ledger: whatever is crashed, refused,   *)
(* timed out, approved, retried or delivered twice, the mandate's columns  *)
(* move exactly with the operations, each reservation is committed once or *)
(* released once, and budget is taken only within the limit.  The ledger   *)
(* itself needs no more than BudgetLedgerProofs.                           *)
THEOREM LedgerImplemented ==
  ASSUME Isolated
  PROVE  Spec => ImplementsLedger
<1>1. Init => IsolationInv /\ Ledger!Init
  BY PipelineConstants, IsolationInit, BooksAreTheLedger
<1>2. IsolationInv /\ [Next]_vars => IsolationInv' /\ [Ledger!Next]_(Ledger!vars)
  BY PipelineConstants, IsolationStep, BooksAreTheLedger
<1> QED BY <1>1, <1>2, PTL DEF Spec, ImplementsLedger, Ledger!Spec

(* A terminal status is never left (state_machine.py).                     *)
THEOREM TerminalStaysFinal ==
  ASSUME Isolated
  PROVE  Spec => TerminalIsFinal
<1>1. Init => IsolationInv
  BY PipelineConstants, IsolationInit
<1>2. IsolationInv /\ [Next]_vars => IsolationInv'
  BY PipelineConstants, IsolationStep
<1>3. IsolationInv /\ [Next]_vars
        => [\A o \in Ops : status[o] \in Terminal => status'[o] = status[o]]_vars
  BY PipelineConstants, TerminalStep
<1> QED BY <1>1, <1>2, <1>3, PTL DEF Spec, TerminalIsFinal

(* A webhook event is given up, dead letter or not, only for a capture of  *)
(* an operation that had failed (webhooks.py, the retry and dead letter).  *)
THEOREM DeadLettersAreLateCaptures ==
  ASSUME Isolated
  PROVE  Spec => []FailedEventsAreLateCaptures
<1>1. Init => IsolationInv
  BY PipelineConstants, IsolationInit
<1>2. IsolationInv /\ [Next]_vars => IsolationInv'
  BY PipelineConstants, IsolationStep
<1>3. IsolationInv => FailedEventsAreLateCaptures
  BY DEF IsolationInv
<1> QED BY <1>1, <1>2, <1>3, PTL DEF Spec

(* What is spent stays within the aggregate limit (README.md, the core      *)
(* safety property), which concurrent webhooks can break.                  *)
THEOREM SpendStaysWithinLimit ==
  ASSUME Isolated
  PROVE  Spec => []SpendWithinLimit
<1>1. Init => IsolationInv
  BY PipelineConstants, IsolationInit
<1>2. IsolationInv /\ [Next]_vars => IsolationInv'
  BY PipelineConstants, IsolationStep
<1>3. ASSUME IsolationInv PROVE SpendWithinLimit
  <2>1. Books!WithinLimit /\ mandate.reserved = Books!Total(Books!In("held"))
    BY <1>3 DEF IsolationInv, Books!LedgerInv, Books!ColumnsMatchOperations
  <2>2. Books!Total(Books!In("held")) \in Nat
    <3>1. Books!In("held") \in SUBSET Ops
      BY DEF Books!In
    <3> QED BY <3>1, PipelineConstants, BooksConstants, Books!TotalType
  <2>3. mandate.spend \in Int /\ Limit \in Nat
    BY <1>3, PipelineConstants DEF IsolationInv, ReservationInv, TypeInv, TypeOK, PipelineConstants
  <2>4. mandate.reserved \in Nat
    BY <2>1, <2>2
  <2> QED BY <2>1, <2>3, <2>4 DEF Books!WithinLimit, SpendWithinLimit
<1> QED BY <1>1, <1>2, <1>3, PTL DEF Spec

------------------------------------------------------------------------------
(* Deliveries of one event, however they interleave with each other and     *)
(* with everything else.                                                   *)
(*                                                                         *)
(* The argument is the unique event_id with the row lock that the flush    *)
(* takes: two handlers never process one event at the same time, and one   *)
(* that read no row finds none when it flushes.  A handler that read a row *)
(* read one that is past its first attempt, and so is what it writes.      *)

DeliverySteps == {"record", "lookup", "mandate", "update", "commit"}

OverAtOnce(e) == inbox[e] = [status |-> "PROCESSED", attempts |-> 1]

(* The handler has flushed the event row and holds it. *)
Delivers(s) == job[s].call = "webhook" /\ Step(s) # "record"

DeliveryOK(s) ==
  job[s].call = "webhook" =>
    /\ Step(s) \in DeliverySteps /\ Event(s) \in Events
    /\ Delivers(s) /\ seen[s].attempts = 0 => inbox[Event(s)].attempts = 0
    /\ seen[s].attempts # 0 => inbox[Event(s)].attempts # 0 /\ ~OverAtOnce(Event(s))

DeliveriesApart ==
  \A s, t \in Sessions : Delivers(s) /\ Delivers(t) /\ Event(s) = Event(t) => s = t

DeliveryInv ==
  /\ ReservationInv
  /\ \A s \in Sessions : DeliveryOK(s)
  /\ DeliveriesApart

(* A session that goes on with the event whose row it holds. *)
DeliversOn(s) ==
  /\ Delivers(s) /\ Delivers(s)' /\ Step(s)' \in DeliverySteps
  /\ Event(s)' = Event(s) /\ seen'[s].attempts = seen[s].attempts

(* A session that takes the row. *)
TakesEvent(s) ==
  /\ job[s].call = "webhook" /\ Step(s) = "record" /\ Step(s)' = "lookup"
  /\ Event(s)' = Event(s) /\ seen'[s] = seen[s]
  /\ EventFree(s) /\ (seen[s].attempts = 0 => inbox[Event(s)].attempts = 0)

(* A session that reads the inbox. *)
ReadsEvent(s) ==
  /\ Step(s)' = "record" /\ Event(s)' \in Events /\ Accepts(Event(s)')
  /\ seen'[s].attempts = inbox[Event(s)'].attempts

(* One session's step that leaves the inbox. *)
LEMMA OneDelivers ==
  ASSUME DeliveryInv, ReservationInv', UNCHANGED inbox, NEW s \in Sessions,
         \A t \in Sessions \ {s} : job'[t] = job[t] /\ seen'[t] = seen[t],
         \/ job'[s].call # "webhook"
         \/ DeliversOn(s) \/ TakesEvent(s) \/ ReadsEvent(s)
  PROVE  DeliveryInv'
<1>1. ASSUME NEW t \in Sessions \ {s}
      PROVE  /\ DeliveryOK(t)' /\ Delivers(t)' = Delivers(t) /\ Event(t)' = Event(t)
             /\ job'[t].call = job[t].call /\ Step(t)' = Step(t)
  <2>1. job'[t] = job[t] /\ seen'[t] = seen[t] /\ DeliveryOK(t)
    BY DEF DeliveryInv
  <2> QED BY <2>1 DEF DeliveryOK, Delivers, Event, Step, OverAtOnce
<1>2. CASE job'[s].call # "webhook"
  <2>1. DeliveryOK(s)' /\ ~Delivers(s)'
    BY <1>2 DEF DeliveryOK, Delivers
  <2> QED BY <1>1, <2>1 DEF DeliveryInv, DeliveriesApart
<1>3. CASE DeliversOn(s)
  <2>1. DeliveryOK(s)'
    BY <1>3 DEF DeliveryInv, DeliveryOK, DeliversOn, Delivers, OverAtOnce
  <2> QED BY <1>1, <1>3, <2>1 DEF DeliveryInv, DeliveriesApart, DeliversOn
<1>4. CASE TakesEvent(s)
  <2>1. DeliveryOK(s)'
    <3>1. DeliveryOK(s) /\ job[s].call = "webhook"
      BY <1>4 DEF DeliveryInv, TakesEvent
    <3> QED BY <1>4, <3>1 DEF DeliveryOK, TakesEvent, Delivers, DeliverySteps, OverAtOnce
  <2>2. \A t \in Sessions \ {s} : ~ (Delivers(t) /\ Event(t) = Event(s))
    <3>1. \A t \in Sessions \ {s} : Delivers(t) => Step(t) \notin {"idle", "record"}
      BY DEF DeliveryInv, DeliveryOK, Delivers, DeliverySteps
    <3> QED BY <1>4, <3>1 DEF TakesEvent, EventFree, Delivers
  <2>3. Event(s)' = Event(s)
    BY <1>4 DEF TakesEvent
  <2> QED BY <1>1, <2>1, <2>2, <2>3 DEF DeliveryInv, DeliveriesApart
<1>5. CASE ReadsEvent(s)
  <2>1. DeliveryOK(s)' /\ ~Delivers(s)'
    BY <1>5 DEF DeliveryOK, Delivers, ReadsEvent, DeliverySteps, Accepts, OverAtOnce
  <2> QED BY <1>1, <2>1 DEF DeliveryInv, DeliveriesApart
<1> QED BY <1>2, <1>3, <1>4, <1>5

(* Steps that are none of a session. *)
LEMMA OutsideKeepsDeliveries ==
  ASSUME DeliveryInv, ReservationInv', UNCHANGED <<inbox, job, seen>>
  PROVE  DeliveryInv'
BY DEF DeliveryInv, DeliveryOK, DeliveriesApart, Delivers, Event, Step, OverAtOnce

(* A session that closes serves no event. *)
LEMMA ClosedDelivery ==
  ASSUME DeliveryInv, ReservationInv', UNCHANGED inbox, NEW s \in Sessions, Close(s)
  PROVE  DeliveryInv'
<1>1. /\ job'[s].call = "none"
      /\ \A t \in Sessions \ {s} : job'[t] = job[t] /\ seen'[t] = seen[t]
  BY DEF Close, NoJob, DeliveryInv, ReservationInv, TypeInv, TypeOK
<1> QED BY <1>1, OneDelivers

(* A session that moves to another step goes on with its event. *)
LEMMA MovedDelivery ==
  ASSUME DeliveryInv, ReservationInv', UNCHANGED inbox, NEW s \in Sessions, NEW step,
         Goto(s, step), \A t \in Sessions \ {s} : seen'[t] = seen[t],
         job[s].call = "webhook" =>
           /\ Step(s) # "record" /\ step \in DeliverySteps \ {"record"}
           /\ seen'[s].attempts = seen[s].attempts
  PROVE  DeliveryInv'
<1>1. /\ Step(s)' = step /\ Event(s)' = Event(s) /\ job'[s].call = job[s].call
      /\ \A t \in Sessions \ {s} : job'[t] = job[t]
  <2>1. TypeInv /\ job[s] \in JobRows
    BY DEF DeliveryInv, ReservationInv, TypeInv, TypeOK
  <2>2. /\ Step(s)' = step /\ job'[s].op = job[s].op /\ job'[s].call = job[s].call
        /\ job'[s].event = job[s].event /\ job'[s].order = job[s].order
        /\ \A t \in Sessions \ {s} : job'[t] = job[t]
    BY <2>1 DEF Goto, Step, JobRows, TypeInv, TypeOK
  <2> QED BY <2>2 DEF Event
<1>2. CASE job[s].call # "webhook"
  BY <1>1, <1>2, OneDelivers
<1>3. CASE job[s].call = "webhook"
  <2>1. DeliversOn(s)
    BY <1>1, <1>3 DEF DeliversOn, Delivers, DeliverySteps
  <2> QED BY <1>1, <2>1, OneDelivers
<1> QED BY <1>2, <1>3

(* A COMMIT that finishes a delivery writes an attempt that is not the      *)
(* first, or the first of an event that nobody else has read a row of.     *)
LEMMA CommitKeepsDeliveries ==
  ASSUME DeliveryInv, ReservationInv', NEW s \in Sessions, Commit(s)
  PROVE  DeliveryInv'
<1>0. TypeInv
  BY DEF DeliveryInv, ReservationInv
<1>1. Close(s)
  BY DEF Commit
<1>2. CASE job[s].call # "webhook"
  BY <1>1, <1>2, ClosedDelivery DEF Commit
<1>3. CASE job[s].call = "webhook"
  <2>0. DeliveryOK(s) /\ Delivers(s) /\ Event(s) \in Events
    BY <1>3 DEF DeliveryInv, DeliveryOK, Delivers, Commit
  <2>1. PICK e \in Events : e = Event(s)
    BY <2>0
  <2>2. /\ inbox'[e].attempts = seen[s].attempts + 1
        /\ \A f \in Events \ {e} : inbox'[f] = inbox[f]
    BY <1>0, <1>3, <2>1 DEF Commit, TypeInv, TypeOK
  <2>3. seen[s].attempts \in Nat
    BY <1>0 DEF TypeInv, TypeOK, SeenRows
  <2>4. /\ job'[s].call = "none"
        /\ \A t \in Sessions \ {s} : job'[t] = job[t] /\ seen'[t] = seen[t]
    BY <1>0, <1>1 DEF Close, NoJob, TypeInv, TypeOK
  <2>5. ASSUME NEW t \in Sessions \ {s}
        PROVE  DeliveryOK(t)' /\ Delivers(t)' = Delivers(t) /\ Event(t)' = Event(t)
    <3>1. job'[t] = job[t] /\ seen'[t] = seen[t] /\ DeliveryOK(t)
      BY <2>4 DEF DeliveryInv
    <3>2. Step(t)' = Step(t) /\ Delivers(t)' = Delivers(t) /\ Event(t)' = Event(t)
      BY <3>1 DEF Step, Delivers, Event
    <3>3. CASE job[t].call # "webhook"
      BY <3>1, <3>2, <3>3 DEF DeliveryOK
    <3>4. CASE job[t].call = "webhook" /\ Event(t) # e
      <4>1. inbox'[Event(t)] = inbox[Event(t)]
        BY <2>2, <3>1, <3>4 DEF DeliveryOK
      <4> QED BY <3>1, <3>2, <3>4, <4>1 DEF DeliveryOK, OverAtOnce
    <3>5. CASE job[t].call = "webhook" /\ Event(t) = e
      <4>1. ~Delivers(t)
        BY <2>0, <2>1, <3>5 DEF DeliveryInv, DeliveriesApart
      <4>2. seen[t].attempts # 0 => seen[s].attempts # 0
        BY <2>0, <2>1, <3>1, <3>5, <1>3 DEF DeliveryOK
      <4>3. inbox'[e].attempts # 0
        BY <2>2, <2>3
      <4>4. seen[t].attempts # 0 => ~OverAtOnce(e)'
        BY <2>2, <2>3, <4>2 DEF OverAtOnce
      <4> QED BY <3>1, <3>2, <3>5, <4>1, <4>3, <4>4 DEF DeliveryOK, OverAtOnce
    <3> QED BY <3>2, <3>3, <3>4, <3>5
  <2>6. DeliveryOK(s)' /\ ~Delivers(s)'
    BY <2>4 DEF DeliveryOK, Delivers
  <2> QED BY <2>5, <2>6 DEF DeliveryInv, DeliveriesApart
<1> QED BY <1>2, <1>3

(* The steps that a webhook's handler takes of its own. *)
LEMMA WebhookKeepsDeliveries ==
  ASSUME DeliveryInv, ReservationInv', NEW s \in Sessions,
         WebhookRecord(s) \/ WebhookLookup(s) \/ WebhookMandate(s)
  PROVE  DeliveryInv'
<1>0. TypeInv /\ job[s].call = "webhook"
  BY DEF DeliveryInv, ReservationInv, SessionOK, SettlesForACaller, WebhookRecord,
         WebhookLookup, WebhookMandate
<1>1. UNCHANGED inbox
  BY DEF WebhookRecord, WebhookLookup, WebhookMandate, dbVars
<1>2. CASE WebhookRecord(s)
  <2>1. CASE Close(s)
    BY <1>1, <2>1, ClosedDelivery
  <2>2. CASE ~Close(s)
    <3>1. /\ Step(s) = "record" /\ EventFree(s) /\ Goto(s, "lookup") /\ seen' = seen
          /\ ~ (seen[s].attempts = 0 /\ inbox[Event(s)].attempts > 0)
      BY <1>2, <2>2 DEF WebhookRecord
    <3>2. Event(s) \in Events
      BY <1>0 DEF DeliveryInv, DeliveryOK
    <3>3. seen[s].attempts = 0 => inbox[Event(s)].attempts = 0
      BY <1>0, <3>1, <3>2 DEF TypeInv, TypeOK
    <3>4. Step(s)' = "lookup" /\ \A t \in Sessions \ {s} : job'[t] = job[t]
      BY <1>0, <3>1, MovedOn
    <3>5. Event(s)' = Event(s)
      BY <1>0, <3>1 DEF Goto, Event, TypeInv, TypeOK, JobRows
    <3>6. TakesEvent(s)
      BY <1>0, <3>1, <3>3, <3>4, <3>5 DEF TakesEvent
    <3> QED BY <1>1, <3>1, <3>4, <3>6, OneDelivers
  <2> QED BY <2>1, <2>2
<1>3. CASE WebhookLookup(s)
  <2>1. PICK step \in {"mandate", "commit"} : Goto(s, step)
    BY <1>3 DEF WebhookLookup, WebhookVerdict
  <2>2. Step(s) # "record" /\ seen' = seen
    BY <1>3 DEF WebhookLookup
  <2> QED BY <1>1, <2>1, <2>2, MovedDelivery DEF DeliverySteps
<1>4. CASE WebhookMandate(s)
  <2>1. PICK step \in {"update", "commit"} : Goto(s, step)
    BY <1>4 DEF WebhookMandate
  <2>2. /\ Step(s) # "record" /\ seen'[s].attempts = seen[s].attempts
        /\ \A t \in Sessions \ {s} : seen'[t] = seen[t]
    BY <1>0, <1>4 DEF WebhookMandate, TypeInv, TypeOK, SeenRows
  <2> QED BY <1>1, <2>1, <2>2, MovedDelivery DEF DeliverySteps
<1> QED BY <1>2, <1>3, <1>4

(* The other steps of a session, none of which begins a delivery. *)
LEMMA ContinueKeepsDeliveries ==
  ASSUME DeliveryInv, ReservationInv', NEW s \in Sessions, Continue(s)
  PROVE  DeliveryInv'
<1>0. TypeInv
  BY DEF DeliveryInv, ReservationInv
<1>1. job[s].call = "webhook" => Step(s) \in DeliverySteps
  BY DEF DeliveryInv, DeliveryOK
<1>2. CASE \/ RequestDuplicate(s) \/ VerifyAmbiguous(s) \/ SweepAmbiguous(s)
           \/ DeadlockAbort(s)
  BY <1>2, ClosedDelivery DEF RequestDuplicate, VerifyAmbiguous, SweepAmbiguous,
                              DeadlockAbort, dbVars
<1>3. CASE RequestDecide(s)
  <2>1. UNCHANGED inbox /\ Step(s) = "lock"
    BY <1>3 DEF RequestDecide, CommitStatus, dbVars
  <2>2. Close(s) \/ (Goto(s, "dispatch") /\ seen' = seen)
    BY <1>3 DEF RequestDecide, CommitStatus
  <2>3. job[s].call # "webhook"
    BY <1>1, <2>1 DEF DeliverySteps
  <2> QED BY <2>1, <2>2, <2>3, ClosedDelivery, MovedDelivery
<1>4. CASE \/ DispatchAccepted(s) \/ DispatchNothing(s) \/ DispatchFails(s)
           \/ ApproveReserve(s) \/ ApproveFlush(s) \/ VerifyRow(s)
           \/ SweepSettle(s) \/ SweepDone(s)
  <2>1. UNCHANGED inbox /\ seen' = seen
    BY <1>4 DEF DispatchAccepted, DispatchNothing, DispatchFails, ApproveReserve,
                ApproveFlush, VerifyRow, SweepSettle, SweepDone, dbVars
  <2>2. Step(s) \in {"dispatch", "reserve", "flush", "txrow", "settle", "sweep"}
    BY <1>4 DEF DispatchAccepted, DispatchNothing, DispatchFails, ApproveReserve,
                ApproveFlush, VerifyRow, SweepSettle, SweepDone
  <2>3. \E step : Goto(s, step)
    BY <1>4 DEF DispatchAccepted, DispatchNothing, DispatchFails, ApproveReserve,
                ApproveFlush, VerifyRow, SweepSettle, SweepDone
  <2>4. job[s].call # "webhook"
    BY <1>1, <2>2 DEF DeliverySteps
  <2> QED BY <2>1, <2>3, <2>4, MovedDelivery
<1>5. CASE WebhookRecord(s) \/ WebhookLookup(s) \/ WebhookMandate(s)
  BY <1>5, WebhookKeepsDeliveries
<1>6. CASE UpdateMandate(s)
  <2>1. UNCHANGED inbox /\ seen' = seen /\ Step(s) = "update"
    BY <1>6 DEF UpdateMandate, dbVars
  <2>2. PICK step : Goto(s, step) /\ (job[s].call = "webhook" => step = "commit")
    BY <1>6 DEF UpdateMandate
  <2> QED BY <2>1, <2>2, MovedDelivery DEF DeliverySteps
<1>7. ASSUME NEW o \in Ops, NEW v, SweepRead(s, o, v) PROVE DeliveryInv'
  <2>1. job[s].call # "webhook"
    BY <1>1, <1>7 DEF SweepRead, DeliverySteps
  <2>2. /\ UNCHANGED <<inbox, seen>> /\ job'[s].call = job[s].call
        /\ \A t \in Sessions \ {s} : job'[t] = job[t]
    BY <1>0, <1>7 DEF SweepRead, TypeInv, TypeOK, JobRows, dbVars
  <2> QED BY <2>1, <2>2, OneDelivers
<1>8. CASE Commit(s)
  BY <1>8, CommitKeepsDeliveries
<1> QED BY <1>2, <1>3, <1>4, <1>5, <1>6, <1>7, <1>8 DEF Continue

(* The steps that open a session. *)
LEMMA OpenKeepsDeliveries ==
  ASSUME DeliveryInv, ReservationInv', NEW s \in Sessions,
         \/ \E o \in Ops : \/ RequestOpen(s, o) \/ ApproveOpen(s, o)
                           \/ RejectOpen(s, o) \/ VerifyOpen(s, o)
         \/ \E e \in Events : WebhookOpen(s, e)
         \/ SweepOpen(s)
  PROVE  DeliveryInv'
<1>0. TypeInv
  BY DEF DeliveryInv, ReservationInv
<1>1. ASSUME NEW o \in Ops,
             \/ RequestOpen(s, o) \/ ApproveOpen(s, o) \/ RejectOpen(s, o) \/ VerifyOpen(s, o)
      PROVE  DeliveryInv'
  <2>1. PICK c, step : c # "webhook" /\ Open(s, c, o, step)
    BY <1>1 DEF RequestOpen, ApproveOpen, RejectOpen, VerifyOpen
  <2>2. UNCHANGED inbox /\ \A t \in Sessions \ {s} : seen'[t] = seen[t]
    BY <1>0, <1>1 DEF RequestOpen, ApproveOpen, RejectOpen, VerifyOpen, dbVars, TypeInv, TypeOK
  <2>3. job'[s].call = c /\ \A t \in Sessions \ {s} : job'[t] = job[t]
    BY <1>0, <2>1 DEF Open, NoJob, TypeInv, TypeOK
  <2> QED BY <2>1, <2>2, <2>3, OneDelivers
<1>2. ASSUME NEW e \in Events, WebhookOpen(s, e) PROVE DeliveryInv'
  <2>1. /\ UNCHANGED inbox /\ Accepts(e)
        /\ \A t \in Sessions \ {s} : job'[t] = job[t] /\ seen'[t] = seen[t]
    BY <1>0, <1>2 DEF WebhookOpen, dbVars, TypeInv, TypeOK
  <2>2. /\ Step(s)' = "record" /\ seen'[s].attempts = inbox[e].attempts
        /\ job'[s].event = e[1] /\ job'[s].op = e[2][1] /\ job'[s].order = e[2][2]
    BY <1>0, <1>2 DEF WebhookOpen, NoJob, Step, TypeInv, TypeOK, SeenRows
  <2>3. Event(s)' = e
    BY <2>2 DEF Event, Events, Orders
  <2>4. ReadsEvent(s)
    BY <2>1, <2>2, <2>3 DEF ReadsEvent
  <2> QED BY <2>1, <2>4, OneDelivers
<1>3. CASE SweepOpen(s)
  <2>1. /\ UNCHANGED <<inbox, seen>> /\ job'[s].call = "sweep"
        /\ \A t \in Sessions \ {s} : job'[t] = job[t]
    BY <1>0, <1>3 DEF SweepOpen, NoJob, dbVars, TypeInv, TypeOK
  <2> QED BY <2>1, OneDelivers
<1> QED BY <1>1, <1>2, <1>3

(* Every step keeps the delivery invariant. *)
LEMMA DeliveryStep ==
  ASSUME PipelineConstants, DeliveryInv, [Next]_vars
  PROVE  DeliveryInv'
<1>0. ReservationInv'
  BY ReservationStep DEF DeliveryInv
<1>1. CASE UNCHANGED vars
  BY <1>0, <1>1, OutsideKeepsDeliveries DEF vars, dbVars, sessionVars
<1>2. ASSUME NEW s \in Sessions,
             \/ \E o \in Ops : \/ RequestOpen(s, o) \/ ApproveOpen(s, o)
                               \/ RejectOpen(s, o) \/ VerifyOpen(s, o)
             \/ \E e \in Events : WebhookOpen(s, e)
             \/ SweepOpen(s)
      PROVE  DeliveryInv'
  BY <1>0, <1>2, OpenKeepsDeliveries
<1>3. ASSUME NEW s \in Sessions, Continue(s) PROVE DeliveryInv'
  BY <1>0, <1>3, ContinueKeepsDeliveries
<1>4. ASSUME NEW s \in Sessions, Crash(s) PROVE DeliveryInv'
  BY <1>0, <1>4, ClosedDelivery DEF Crash, dbVars
<1>5. ASSUME NEW o, Aging(o) PROVE DeliveryInv'
  BY <1>0, <1>5, OutsideKeepsDeliveries DEF Aging, dbVars, sessionVars
<1>6. ASSUME NEW o, NEW i, Pay(o, i) \/ AttemptFails(o, i) PROVE DeliveryInv'
  BY <1>0, <1>6, OutsideKeepsDeliveries DEF Pay, AttemptFails, dbVars, sessionVars
<1> QED BY <1>1, <1>2, <1>3, <1>4, <1>5, <1>6 DEF Next

(* Whatever deliveries, sweeps, approvals and crashes interleave: no        *)
(* handler comes to commit a verdict or a settlement for an event that its *)
(* first delivery processed (webhooks.py, the flush under the unique       *)
(* event_id).                                                              *)
THEOREM FirstVerdictStands == Spec => []FirstVerdictIsFinal
<1>1. Init => DeliveryInv
  <2>1. Init => \A s \in Sessions : DeliveryOK(s) /\ ~Delivers(s)
    BY DEF Init, DeliveryOK, Delivers, NoJob
  <2> QED BY <2>1, ReservationInit DEF DeliveryInv, DeliveriesApart
<1>2. DeliveryInv /\ [Next]_vars => DeliveryInv'
  BY PipelineConstants, DeliveryStep
<1>3. DeliveryInv => FirstVerdictIsFinal
  BY DEF DeliveryInv, DeliveryOK, Delivers, OverAtOnce, FirstVerdictIsFinal
<1> QED BY <1>1, <1>2, <1>3, PTL DEF Spec
==============================================================================
