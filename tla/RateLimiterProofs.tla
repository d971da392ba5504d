-------------------------- MODULE RateLimiterProofs --------------------------
(***************************************************************************)
(* The limit holds for any number of callers and processes, any limit and   *)
(* window, and whatever fails, as long as a check takes at most MaxDelay.   *)
(***************************************************************************)
EXTENDS RateLimiter, FiniteSetTheorems, TLAPS

(* A check is over before MaxDelay has passed since it read the clock. *)
ChecksAreTimely ==
  \A c \in Callers : job[c].at # "idle" =>
    job[c].stamp <= now /\ now <= job[c].stamp + MaxDelay

(* What a store holds was stamped in the past, and leaves the window before *)
(* Redis drops the key.                                                    *)
StoresAreFinite == \A s \in Stores : IsFiniteSet(store[s])
StampsArePast == \A s \in Stores : \A m \in store[s] : m.stamp <= now
KeyOutlivesMembers == \A m \in store[Redis] : m.stamp + Window <= expires

(* An admission was counted at most MaxDelay after its stamp. *)
AdmissionsAreTimely ==
  \A s \in Stores : \A g \in granted[s] :
    g.stamp <= g.at /\ g.at <= now /\ g.at <= g.stamp + MaxDelay

(* A withdrawal never names an admission. *)
IdsAreUsed ==
  /\ \A s \in Stores : \A g \in granted[s] : g.id < serial
  /\ \A c \in Callers : job[c].at = "withdraw" => job[c].id < serial
WithdrawalsSpareAdmissions ==
  \A c \in Callers : job[c].at = "withdraw" =>
    \A s \in Stores : \A g \in granted[s] : g.id # job[c].id

(* Whoever clears a window, by however old a clock, leaves in the store     *)
(* every admission that is in the window now.                              *)
AdmissionsAreKept ==
  \A s \in Stores : \A g \in granted[s] : g.stamp + Window > now => g \in store[s]

LimiterInv ==
  /\ TypeOK
  /\ ChecksAreTimely
  /\ StoresAreFinite /\ StampsArePast /\ KeyOutlivesMembers
  /\ AdmissionsAreTimely
  /\ IdsAreUsed /\ WithdrawalsSpareAdmissions
  /\ AdmissionsAreKept
  /\ WithinLimitPerStore
------------------------------------------------------------------------------
(* A subset of what was counted, and the new member, stay within the limit  *)
(* if the count did not exceed it.                                         *)
LEMMA CountedFits ==
  ASSUME LimiterConstants, NEW kept, IsFiniteSet(kept), ~Exceeds(kept),
         NEW m, NEW R, R \subseteq kept \cup {m}
  PROVE  Cardinality(R) <= Limit
<1>1. IsFiniteSet(kept \cup {m}) /\ Cardinality(kept \cup {m}) <= Cardinality(kept) + 1
  <2>0. Cardinality(kept) \in Nat
    BY FS_CardinalityType
  <2>1. CASE m \in kept
    <3>1. kept \cup {m} = kept
      BY <2>1
    <3>2. Cardinality(kept) <= Cardinality(kept) + 1
      BY <2>0
    <3> QED BY <3>1, <3>2
  <2>2. CASE m \notin kept
    <3>1. /\ IsFiniteSet(kept \cup {m})
          /\ Cardinality(kept \cup {m}) = Cardinality(kept) + 1
      BY <2>2, FS_AddElement
    <3> QED BY <3>1, <2>0
  <2> QED BY <2>1, <2>2
<1>2. IsFiniteSet(R) /\ Cardinality(R) <= Cardinality(kept \cup {m})
  BY <1>1, FS_Subset
<1>3. Cardinality(kept) + 1 <= Limit
  BY FS_CardinalityType DEF Exceeds, LimiterConstants
<1> QED BY <1>1, <1>2, <1>3, FS_CardinalityType DEF LimiterConstants

(* The admissions of the last Window - MaxDelay instants are among those    *)
(* that a caller counts, if it spares what its own window holds.           *)
LEMMA RecentIsCounted ==
  ASSUME LimiterConstants, LimiterInv, NEW c \in Callers, job[c].at # "idle",
         NEW s \in Stores, NEW kept,
         \A m \in store[s] : m.stamp + Window > job[c].stamp => m \in kept
  PROVE  Recent(s, now) \subseteq kept
<1> SUFFICES ASSUME NEW g \in Recent(s, now)
             PROVE  g \in kept
  OBVIOUS
<1>1. g \in granted[s] /\ g \in Member /\ now < g.at + (Window - MaxDelay)
  BY DEF Recent, LimiterInv, TypeOK
<1>2. g.at <= g.stamp + MaxDelay
  BY <1>1 DEF LimiterInv, AdmissionsAreTimely
<1>3. now < g.stamp + Window
  BY <1>1, <1>2 DEF LimiterInv, TypeOK, Member, LimiterConstants
<1>4. g \in store[s]
  BY <1>1, <1>3 DEF LimiterInv, AdmissionsAreKept, TypeOK, Member, LimiterConstants
<1>5. job[c].stamp <= now /\ job[c].stamp \in Nat
  BY DEF LimiterInv, ChecksAreTimely, TypeOK, Job
<1>6. g.stamp + Window > job[c].stamp
  BY <1>1, <1>3, <1>5 DEF LimiterInv, TypeOK, Member, LimiterConstants
<1> QED BY <1>4, <1>6
------------------------------------------------------------------------------
(* Nothing is counted, admitted or pending at the start. *)
LEMMA LimiterInit ==
  ASSUME LimiterConstants, Init
  PROVE  LimiterInv
<1>1. Redis \in Stores
  BY DEF Stores
<1>2. TypeOK
  BY DEF Init, TypeOK, Idle, Job
<1>3. ChecksAreTimely /\ IdsAreUsed /\ WithdrawalsSpareAdmissions
  BY DEF Init, ChecksAreTimely, IdsAreUsed, WithdrawalsSpareAdmissions, Idle
<1>4. StoresAreFinite
  BY FS_EmptySet DEF Init, StoresAreFinite
<1>5. StampsArePast /\ KeyOutlivesMembers /\ AdmissionsAreTimely /\ AdmissionsAreKept
  BY <1>1 DEF Init, StampsArePast, KeyOutlivesMembers, AdmissionsAreTimely, AdmissionsAreKept
<1>6. WithinLimitPerStore
  <2> SUFFICES ASSUME NEW s \in Stores, NEW t \in 0..now
               PROVE  Cardinality(Recent(s, t)) <= Limit
    BY DEF WithinLimitPerStore
  <2>1. Recent(s, t) = {}
    BY DEF Init, Recent
  <2> QED BY <2>1, FS_EmptySet DEF LimiterConstants
<1> QED BY <1>2, <1>3, <1>4, <1>5, <1>6 DEF LimiterInv

(* The parts of the invariant that speak of admissions survive a step that  *)
(* admits nobody and takes from the stores only what has left the window.   *)
LEMMA NoAdmission ==
  ASSUME LimiterConstants, LimiterInv, UNCHANGED <<now, granted>>,
         \A s \in Stores : \A g \in granted[s] :
           g \in store[s] /\ g.stamp + Window > now => g \in store'[s]
  PROVE  AdmissionsAreTimely' /\ AdmissionsAreKept' /\ WithinLimitPerStore'
<1>1. AdmissionsAreTimely'
  BY DEF LimiterInv, AdmissionsAreTimely
<1>2. AdmissionsAreKept'
  BY DEF LimiterInv, AdmissionsAreKept
<1>3. WithinLimitPerStore'
  BY DEF LimiterInv, WithinLimitPerStore, Recent
<1> QED BY <1>1, <1>2, <1>3

(* A caller that is admitted by store s after counting what is kept there.  *)
LEMMA Admission ==
  ASSUME LimiterConstants, LimiterInv, TypeOK', NEW c \in Callers, job[c].at # "idle",
         NEW s \in Stores, NEW kept \in SUBSET store[s], ~Exceeds(kept),
         \A m \in store[s] : m.stamp + Window > job[c].stamp => m \in kept,
         store' = [store EXCEPT ![s] = kept \cup {Fresh(c)}],
         granted' = [granted EXCEPT ![s] = @ \cup {Fresh(c)}],
         now' = now
  PROVE  AdmissionsAreTimely' /\ AdmissionsAreKept' /\ WithinLimitPerStore'
<1> USE DEF LimiterConstants
<1>1. /\ job[c].stamp \in Nat /\ job[c].stamp <= now /\ now <= job[c].stamp + MaxDelay
      /\ now \in Nat /\ serial \in Nat
  BY DEF LimiterInv, ChecksAreTimely, TypeOK, Job
<1>2. Fresh(c) = [id |-> serial, stamp |-> job[c].stamp, at |-> now]
  BY DEF Fresh
<1>3. /\ granted'[s] = granted[s] \cup {Fresh(c)} /\ store'[s] = kept \cup {Fresh(c)}
      /\ \A r \in Stores : r # s => granted'[r] = granted[r] /\ store'[r] = store[r]
  BY DEF LimiterInv, TypeOK
<1>4. AdmissionsAreTimely'
  <2> SUFFICES ASSUME NEW r \in Stores, NEW g \in granted'[r]
               PROVE  g.stamp <= g.at /\ g.at <= now /\ g.at <= g.stamp + MaxDelay
    BY DEF AdmissionsAreTimely
  <2>1. CASE g \in granted[r]
    BY <2>1 DEF LimiterInv, AdmissionsAreTimely
  <2>2. CASE g = Fresh(c)
    BY <2>2, <1>1, <1>2
  <2> QED BY <2>1, <2>2, <1>3
<1>5. AdmissionsAreKept'
  <2> SUFFICES ASSUME NEW r \in Stores, NEW g \in granted'[r], g.stamp + Window > now
               PROVE  g \in store'[r]
    BY DEF AdmissionsAreKept
  <2>1. CASE r # s
    BY <2>1, <1>3 DEF LimiterInv, AdmissionsAreKept
  <2>2. CASE r = s /\ g = Fresh(c)
    BY <2>2, <1>3
  <2>3. CASE r = s /\ g \in granted[s]
    <3>1. g \in store[s] /\ g.stamp \in Nat
      BY <2>3 DEF LimiterInv, AdmissionsAreKept, TypeOK, Member
    <3>2. g.stamp + Window > job[c].stamp
      BY <3>1, <1>1
    <3> QED BY <3>1, <3>2, <2>3, <1>3
  <2> QED BY <2>1, <2>2, <2>3, <1>3
<1>6. WithinLimitPerStore'
  <2> SUFFICES ASSUME NEW r \in Stores, NEW t \in 0..now
               PROVE  Cardinality(Recent(r, t)') <= Limit
    BY DEF WithinLimitPerStore
  <2>1. CASE r # s \/ t # now
    <3>1. Recent(r, t)' = Recent(r, t)
      BY <2>1, <1>1, <1>2, <1>3 DEF Recent
    <3> QED BY <3>1 DEF LimiterInv, WithinLimitPerStore
  <2>2. CASE r = s /\ t = now
    <3>1. Recent(s, now) \subseteq kept
      BY RecentIsCounted
    <3>2. Recent(r, t)' \subseteq kept \cup {Fresh(c)}
      BY <3>1, <2>2, <1>3 DEF Recent
    <3>3. IsFiniteSet(kept)
      BY FS_Subset DEF LimiterInv, StoresAreFinite
    <3> QED BY <3>2, <3>3, CountedFits
  <2> QED BY <2>1, <2>2
<1> QED BY <1>4, <1>5, <1>6
------------------------------------------------------------------------------
(* A transaction of a caller spares what the caller's window holds, and the *)
(* members it leaves expire before the key.                                *)
LEMMA TransactionKeeps ==
  ASSUME LimiterConstants, LimiterInv, NEW c \in Callers, Transaction(c)
  PROVE  /\ job[c].at # "idle"
         /\ Counted(c) \in SUBSET store[Redis]
         /\ \A m \in store[Redis] : m.stamp + Window > job[c].stamp => m \in Counted(c)
         /\ Fresh(c) \in Member
         /\ StoresAreFinite' /\ StampsArePast' /\ KeyOutlivesMembers'
<1> USE DEF LimiterConstants
<1>1. job[c].at = "stamped" /\ job[c].stamp \in Nat /\ job[c].stamp <= now
  BY DEF Transaction, LimiterInv, ChecksAreTimely, TypeOK, Job
<1>2. Redis \in Stores
  BY DEF Stores
<1>3. Fresh(c) \in Member
  BY <1>1 DEF Fresh, Member, LimiterInv, TypeOK
<1>4. /\ Counted(c) \in SUBSET store[Redis]
      /\ \A m \in store[Redis] : m.stamp + Window > job[c].stamp => m \in Counted(c)
  BY DEF Counted, InWindow
<1>5. /\ store'[Redis] = Counted(c) \cup {Fresh(c)}
      /\ \A s \in Stores : s # Redis => store'[s] = store[s]
      /\ now' = now /\ expires' = now + Window + TtlGrace
  BY <1>2 DEF Transaction, LimiterInv, TypeOK
<1>6. StoresAreFinite'
  <2>1. IsFiniteSet(Counted(c))
    BY <1>2, <1>4, FS_Subset DEF LimiterInv, StoresAreFinite
  <2>2. IsFiniteSet(Counted(c) \cup {Fresh(c)})
    BY <2>1, FS_AddElement
  <2> QED BY <2>2, <1>5 DEF LimiterInv, StoresAreFinite
<1>7. StampsArePast'
  BY <1>1, <1>2, <1>4, <1>5 DEF LimiterInv, StampsArePast, Fresh
<1>8. KeyOutlivesMembers'
  <2> SUFFICES ASSUME NEW m \in store'[Redis]
               PROVE  m.stamp + Window <= now + Window + TtlGrace
    BY <1>5 DEF KeyOutlivesMembers
  <2>1. m.stamp <= now /\ m.stamp \in Nat
    BY <1>1, <1>2, <1>4, <1>5 DEF LimiterInv, StampsArePast, Fresh, TypeOK, Member
  <2> QED BY <2>1 DEF LimiterInv, TypeOK
<1> QED BY <1>1, <1>3, <1>4, <1>6, <1>7, <1>8

(* Every step of a caller keeps the types. *)
LEMMA StepTypes ==
  ASSUME LimiterConstants, LimiterInv, NEW c \in Callers, Step(c)
  PROVE  TypeOK'
<1> USE DEF LimiterConstants, LimiterInv, TypeOK, Answer, Move
<1>0. Redis \in Stores /\ ProcessOf[c] \in Stores
  BY DEF Stores
<1>i. Idle \in Job
  BY DEF Idle, Job
<1>f. job[c].at # "idle" => Fresh(c) \in Member
  BY DEF Fresh, Member, Job
<1>1. CASE Stamp(c)
  BY <1>1 DEF Stamp, Job
<1>2. CASE RedisGrants(c)
  <2>1. job' \in [Callers -> Job]
    BY <1>2, <1>i DEF RedisGrants
  <2>2. store' \in [Stores -> SUBSET Member] /\ granted' \in [Stores -> SUBSET Member]
    BY <1>2, <1>0, TransactionKeeps DEF RedisGrants, Transaction
  <2> QED BY <1>2, <2>1, <2>2 DEF RedisGrants, Transaction
<1>3. CASE RedisExceeds(c)
  <2>1. job' \in [Callers -> Job]
    BY <1>3 DEF RedisExceeds, Job
  <2>2. store' \in [Stores -> SUBSET Member]
    BY <1>3, <1>0, TransactionKeeps DEF RedisExceeds, Transaction
  <2> QED BY <1>3, <2>1, <2>2 DEF RedisExceeds, Transaction
<1>4. CASE RedisAnswerLost(c)
  <2>1. job' \in [Callers -> Job]
    BY <1>4 DEF RedisAnswerLost, Job
  <2>2. store' \in [Stores -> SUBSET Member]
    BY <1>4, <1>0, TransactionKeeps DEF RedisAnswerLost, Transaction
  <2> QED BY <1>4, <2>1, <2>2 DEF RedisAnswerLost, Transaction
<1>5. CASE RedisDown(c)
  BY <1>5 DEF RedisDown, Job
<1>6. CASE Withdraw(c)
  BY <1>6, <1>0, <1>i DEF Withdraw, Withdrawn
<1>7. CASE WithdrawFails(c)
  <2>1. job' \in [Callers -> Job]
    BY <1>7 DEF WithdrawFails, Job
  <2>2. store' \in [Stores -> SUBSET Member]
    BY <1>7, <1>0 DEF WithdrawFails, Withdrawn
  <2> QED BY <1>7, <2>1, <2>2 DEF WithdrawFails
<1>8. CASE FailClosed(c)
  BY <1>8, <1>i DEF FailClosed
<1>9. CASE LocalGrants(c)
  <2>1. Popped(c) \subseteq store[ProcessOf[c]]
    BY DEF Popped, AfterPops
  <2>2. Fresh(c) \in Member
    BY <1>9, <1>f DEF LocalGrants, FallBack
  <2> QED BY <1>9, <1>0, <1>i, <2>1, <2>2 DEF LocalGrants, FallBack
<1>10. CASE LocalDenies(c)
  <2>1. Popped(c) \subseteq store[ProcessOf[c]]
    BY DEF Popped, AfterPops
  <2> QED BY <1>10, <1>0, <1>i, <2>1 DEF LocalDenies, FallBack
<1> QED BY <1>1, <1>2, <1>3, <1>4, <1>5, <1>6, <1>7, <1>8, <1>9, <1>10 DEF Step
(* Jobs and identities after a step of a caller. *)
LEMMA StepJobs ==
  ASSUME LimiterConstants, LimiterInv, NEW c \in Callers, Step(c)
  PROVE  ChecksAreTimely' /\ IdsAreUsed' /\ WithdrawalsSpareAdmissions'
<1> USE DEF LimiterConstants
<1>0. /\ Redis \in Stores /\ ProcessOf[c] \in Stores
      /\ serial \in Nat /\ now \in Nat
      /\ job \in [Callers -> Job] /\ granted \in [Stores -> SUBSET Member]
      /\ ChecksAreTimely /\ IdsAreUsed /\ WithdrawalsSpareAdmissions
  BY DEF Stores, LimiterInv, TypeOK
<1>1. ChecksAreTimely'
  <2>1. now' = now
    BY DEF Step, Stamp, RedisGrants, RedisExceeds, RedisAnswerLost, RedisDown, Withdraw,
           WithdrawFails, FailClosed, LocalGrants, LocalDenies, Transaction, FallBack
  <2> SUFFICES ASSUME NEW d \in Callers, job'[d].at # "idle"
               PROVE  job'[d].stamp <= now /\ now <= job'[d].stamp + MaxDelay
    BY <2>1 DEF ChecksAreTimely
  <2>2. \/ job'[d].stamp = job[d].stamp /\ job[d].at # "idle"
        \/ job'[d].stamp = now
    <3>1. CASE Stamp(c)
      BY <3>1, <1>0 DEF Stamp
    <3>2. CASE RedisGrants(c) \/ Withdraw(c) \/ FailClosed(c) \/ LocalGrants(c) \/ LocalDenies(c)
      BY <3>2, <1>0 DEF RedisGrants, Withdraw, FailClosed, LocalGrants, LocalDenies, FallBack,
                        Answer, Idle
    <3>3. CASE RedisExceeds(c) \/ RedisAnswerLost(c) \/ RedisDown(c) \/ WithdrawFails(c)
      BY <3>3, <1>0 DEF RedisExceeds, RedisAnswerLost, RedisDown, WithdrawFails, Transaction,
                        Move, Job
    <3> QED BY <3>1, <3>2, <3>3 DEF Step
  <2> QED BY <2>2, <1>0 DEF ChecksAreTimely
<1>2. CASE RedisGrants(c) \/ LocalGrants(c)
  <2>1. PICK s \in Stores :
          /\ granted' = [granted EXCEPT ![s] = @ \cup {Fresh(c)}]
          /\ job' = [job EXCEPT ![c] = Idle]
          /\ serial' = serial + 1
    BY <1>2, <1>0 DEF RedisGrants, LocalGrants, FallBack, Transaction, Answer
  <2>2. \A r \in Stores : \A g \in granted'[r] : g \in granted[r] \/ g.id = serial
    BY <2>1, <1>0 DEF Fresh
  <2>3. \A r \in Stores : \A g \in granted[r] : g.id < serial /\ g.id \in Nat
    BY <1>0 DEF IdsAreUsed, Member
  <2>4. \A d \in Callers : job'[d].at = "withdraw" =>
          job[d].at = "withdraw" /\ job'[d].id = job[d].id
    BY <2>1, <1>0 DEF Idle
  <2>5. \A d \in Callers : job[d].id \in Nat
    BY <1>0 DEF Job
  <2>6. IdsAreUsed'
    BY <2>1, <2>2, <2>3, <2>4, <2>5, <1>0 DEF IdsAreUsed
  <2>7. WithdrawalsSpareAdmissions'
    BY <2>1, <2>2, <2>4, <2>5, <1>0 DEF IdsAreUsed, WithdrawalsSpareAdmissions
  <2> QED BY <1>1, <2>6, <2>7
<1>3. CASE RedisExceeds(c)
  <2>1. /\ granted' = granted /\ serial' = serial + 1
        /\ \A d \in Callers : job'[d].at = "withdraw" =>
             job'[d].id = serial \/ (job[d].at = "withdraw" /\ job'[d].id = job[d].id)
    BY <1>3, <1>0 DEF RedisExceeds, Transaction
  <2>2. \A r \in Stores : \A g \in granted[r] : g.id < serial /\ g.id \in Nat
    BY <1>0 DEF IdsAreUsed, Member
  <2>3. \A d \in Callers : job[d].id \in Nat
    BY <1>0 DEF Job
  <2> QED BY <1>0, <1>1, <2>1, <2>2, <2>3 DEF IdsAreUsed, WithdrawalsSpareAdmissions
<1>4. CASE ~(RedisGrants(c) \/ LocalGrants(c) \/ RedisExceeds(c))
  <2>1. granted' = granted /\ (serial' = serial \/ serial' = serial + 1)
    BY <1>4 DEF Step, Stamp, RedisAnswerLost, RedisDown, Withdraw, WithdrawFails, FailClosed,
                LocalDenies, Transaction
  <2>2. \A d \in Callers : job'[d].at = "withdraw" =>
          job[d].at = "withdraw" /\ job'[d].id = job[d].id
    <3>1. CASE Stamp(c)
      BY <3>1, <1>0 DEF Stamp
    <3>2. CASE Withdraw(c) \/ FailClosed(c) \/ LocalDenies(c)
      BY <3>2, <1>0 DEF Withdraw, FailClosed, LocalDenies, FallBack, Answer, Idle
    <3>3. CASE RedisAnswerLost(c) \/ RedisDown(c) \/ WithdrawFails(c)
      BY <3>3, <1>0 DEF RedisAnswerLost, RedisDown, WithdrawFails, Move, Job
    <3> QED BY <1>4, <3>1, <3>2, <3>3 DEF Step
  <2>3. \A r \in Stores : \A g \in granted[r] : g.id < serial /\ g.id \in Nat
    BY <1>0 DEF IdsAreUsed, Member
  <2>4. \A d \in Callers : job[d].id \in Nat
    BY <1>0 DEF Job
  <2> QED BY <1>0, <1>1, <2>1, <2>2, <2>3, <2>4 DEF IdsAreUsed, WithdrawalsSpareAdmissions
<1> QED BY <1>2, <1>3, <1>4

(* Stores and admissions after a step of a caller. *)
LEMMA StepStores ==
  ASSUME LimiterConstants, LimiterInv, NEW c \in Callers, Step(c)
  PROVE  /\ StoresAreFinite' /\ StampsArePast' /\ KeyOutlivesMembers'
         /\ AdmissionsAreTimely' /\ AdmissionsAreKept' /\ WithinLimitPerStore'
<1> USE DEF LimiterConstants
<1>t. TypeOK'
  BY StepTypes
<1>0. /\ Redis \in Stores /\ ProcessOf[c] \in Stores /\ ProcessOf[c] # Redis
      /\ now \in Nat /\ store \in [Stores -> SUBSET Member]
      /\ granted \in [Stores -> SUBSET Member] /\ job[c] \in Job
      /\ StoresAreFinite /\ StampsArePast /\ KeyOutlivesMembers
  BY DEF Stores, LimiterInv, TypeOK
<1>p. /\ Popped(c) \in SUBSET store[ProcessOf[c]]
      /\ \A m \in store[ProcessOf[c]] : m.stamp + Window > job[c].stamp => m \in Popped(c)
  <2>1. \A m \in store[ProcessOf[c]] : m.id <= m.id
    BY <1>0 DEF Member
  <2> QED BY <2>1 DEF Popped, AfterPops
(* What only shrinks stays finite, past and shorter-lived than the key. *)
<1>s. ASSUME \A s \in Stores : store'[s] \subseteq store[s], UNCHANGED <<now, expires>>
      PROVE  StoresAreFinite' /\ StampsArePast' /\ KeyOutlivesMembers'
  <2>1. StoresAreFinite'
    BY <1>s, <1>0, FS_Subset DEF StoresAreFinite
  <2> QED BY <2>1, <1>s, <1>0 DEF StampsArePast, KeyOutlivesMembers
<1>1. CASE UNCHANGED store /\ UNCHANGED <<now, granted, expires>>
  <2>1. AdmissionsAreTimely' /\ AdmissionsAreKept' /\ WithinLimitPerStore'
    BY <1>1, NoAdmission
  <2> QED BY <1>1, <2>1, <1>s
<1>2. CASE RedisGrants(c)
  <2>1. ~Exceeds(Counted(c)) /\ Transaction(c)
    BY <1>2 DEF RedisGrants
  <2>2. AdmissionsAreTimely' /\ AdmissionsAreKept' /\ WithinLimitPerStore'
    BY <1>2, <1>t, <1>0, <2>1, TransactionKeeps, Admission DEF RedisGrants, Transaction
  <2> QED BY <2>1, <2>2, TransactionKeeps
<1>3. CASE RedisExceeds(c) \/ RedisAnswerLost(c)
  <2>1. Transaction(c) /\ UNCHANGED <<now, granted>>
    BY <1>3 DEF RedisExceeds, RedisAnswerLost, Transaction
  <2>2. ASSUME NEW s \in Stores, NEW g \in granted[s], g \in store[s], g.stamp + Window > now
        PROVE  g \in store'[s]
    <3>1. CASE s # Redis
      BY <3>1, <2>1, <2>2, <1>0 DEF Transaction
    <3>2. CASE s = Redis
      <4>1. job[c].stamp <= now /\ job[c].stamp \in Nat /\ g.stamp \in Nat
        BY <2>1, <1>0 DEF Transaction, LimiterInv, ChecksAreTimely, Job, Member
      <4>2. g \in Counted(c)
        BY <4>1, <3>2, <2>1, <2>2, <1>0, TransactionKeeps
      <4> QED BY <4>2, <3>2, <2>1, <1>0 DEF Transaction
    <3> QED BY <3>1, <3>2
  <2>3. AdmissionsAreTimely' /\ AdmissionsAreKept' /\ WithinLimitPerStore'
    BY <2>1, <2>2, NoAdmission
  <2> QED BY <2>1, <2>3, TransactionKeeps
<1>4. CASE store' = Withdrawn(c) /\ job[c].at = "withdraw" /\ UNCHANGED <<now, granted, expires>>
  <2>1. \A s \in Stores : store'[s] \subseteq store[s]
    BY <1>4, <1>0 DEF Withdrawn
  <2>2. \A s \in Stores : \A g \in granted[s] : g \in store[s] => g \in store'[s]
    BY <1>4, <1>0 DEF Withdrawn, LimiterInv, WithdrawalsSpareAdmissions
  <2>3. AdmissionsAreTimely' /\ AdmissionsAreKept' /\ WithinLimitPerStore'
    BY <1>4, <2>2, NoAdmission
  <2> QED BY <1>4, <2>1, <2>3, <1>s
<1>5. CASE LocalGrants(c)
  <2>1. /\ job[c].at # "idle" /\ ~Exceeds(Popped(c)) /\ now' = now /\ expires' = expires
        /\ store' = [store EXCEPT ![ProcessOf[c]] = Popped(c) \cup {Fresh(c)}]
        /\ granted' = [granted EXCEPT ![ProcessOf[c]] = @ \cup {Fresh(c)}]
    BY <1>5 DEF LocalGrants, FallBack
  <2>2. AdmissionsAreTimely' /\ AdmissionsAreKept' /\ WithinLimitPerStore'
    BY <2>1, <1>t, <1>0, <1>p, Admission
  <2>3. StoresAreFinite'
    <3>1. IsFiniteSet(Popped(c) \cup {Fresh(c)})
      BY <1>p, <1>0, FS_Subset, FS_AddElement DEF StoresAreFinite
    <3> QED BY <3>1, <2>1, <1>0 DEF StoresAreFinite
  <2>4. StampsArePast'
    <3>1. Fresh(c).stamp <= now
      BY <2>1 DEF Fresh, LimiterInv, ChecksAreTimely
    <3> QED BY <3>1, <2>1, <1>0, <1>p DEF StampsArePast
  <2>5. KeyOutlivesMembers'
    BY <2>1, <1>0 DEF KeyOutlivesMembers
  <2> QED BY <2>2, <2>3, <2>4, <2>5
<1>6. CASE LocalDenies(c)
  <2>1. /\ job[c].at # "idle" /\ UNCHANGED <<now, granted, expires>>
        /\ store' = [store EXCEPT ![ProcessOf[c]] = Popped(c)]
    BY <1>6 DEF LocalDenies, FallBack
  <2>2. ASSUME NEW s \in Stores, NEW g \in granted[s], g \in store[s], g.stamp + Window > now
        PROVE  g \in store'[s]
    <3>1. job[c].stamp <= now /\ job[c].stamp \in Nat /\ g.stamp \in Nat
      BY <2>1, <1>0 DEF LimiterInv, ChecksAreTimely, Job, Member
    <3> QED BY <3>1, <2>1, <2>2, <1>0, <1>p
  <2>3. AdmissionsAreTimely' /\ AdmissionsAreKept' /\ WithinLimitPerStore'
    BY <2>1, <2>2, NoAdmission
  <2>4. \A s \in Stores : store'[s] \subseteq store[s]
    BY <2>1, <1>0, <1>p
  <2> QED BY <2>1, <2>3, <2>4, <1>s
<1>7. CASE Stamp(c) \/ RedisDown(c) \/ FailClosed(c)
  BY <1>7, <1>1 DEF Stamp, RedisDown, FailClosed
<1>8. CASE Withdraw(c) \/ WithdrawFails(c)
  BY <1>8, <1>1, <1>4 DEF Withdraw, WithdrawFails
<1> QED BY <1>2, <1>3, <1>5, <1>6, <1>7, <1>8 DEF Step
(* Dropping the key loses no admission that is still in the window. *)
LEMMA ExpireKeeps ==
  ASSUME LimiterConstants, LimiterInv, Expire
  PROVE  LimiterInv'
<1> USE DEF LimiterConstants
<1>0. /\ Redis \in Stores /\ now \in Nat /\ expires \in Nat /\ now >= expires
      /\ store \in [Stores -> SUBSET Member] /\ granted \in [Stores -> SUBSET Member]
      /\ store' = [store EXCEPT ![Redis] = {}]
      /\ UNCHANGED <<now, serial, expires, granted, job>>
  BY DEF Stores, Expire, LimiterInv, TypeOK
<1>1. TypeOK'
  BY <1>0 DEF LimiterInv, TypeOK
<1>2. ChecksAreTimely' /\ IdsAreUsed' /\ WithdrawalsSpareAdmissions'
  BY <1>0 DEF LimiterInv, ChecksAreTimely, IdsAreUsed, WithdrawalsSpareAdmissions
<1>3. StoresAreFinite'
  BY <1>0, FS_EmptySet DEF LimiterInv, StoresAreFinite
<1>4. StampsArePast' /\ KeyOutlivesMembers'
  BY <1>0 DEF LimiterInv, StampsArePast, KeyOutlivesMembers
<1>5. ASSUME NEW s \in Stores, NEW g \in granted[s], g \in store[s], g.stamp + Window > now
      PROVE  g \in store'[s]
  <2>1. s # Redis
    <3> SUFFICES ASSUME s = Redis PROVE FALSE
      OBVIOUS
    <3>1. g.stamp + Window <= expires /\ g.stamp \in Nat
      BY <1>5, <1>0 DEF LimiterInv, KeyOutlivesMembers, Member
    <3> QED BY <3>1, <1>5, <1>0
  <2> QED BY <2>1, <1>5, <1>0
<1>6. AdmissionsAreTimely' /\ AdmissionsAreKept' /\ WithinLimitPerStore'
  BY <1>0, <1>5, NoAdmission
<1> QED BY <1>1, <1>2, <1>3, <1>4, <1>6 DEF LimiterInv

(* As time passes admissions only leave the windows. *)
LEMMA TickKeeps ==
  ASSUME LimiterConstants, LimiterInv, Tick
  PROVE  LimiterInv'
<1> USE DEF LimiterConstants
<1>0. /\ now \in Nat /\ now' = now + 1
      /\ UNCHANGED <<serial, store, expires, granted, job>>
      /\ store \in [Stores -> SUBSET Member] /\ granted \in [Stores -> SUBSET Member]
      /\ job \in [Callers -> Job]
  BY DEF Tick, LimiterInv, TypeOK
<1>1. TypeOK'
  BY <1>0 DEF LimiterInv, TypeOK
<1>2. ChecksAreTimely'
  BY <1>0 DEF Tick, LimiterInv, ChecksAreTimely, Job
<1>3. IdsAreUsed' /\ WithdrawalsSpareAdmissions'
  BY <1>0 DEF LimiterInv, IdsAreUsed, WithdrawalsSpareAdmissions
<1>4. StoresAreFinite' /\ KeyOutlivesMembers'
  BY <1>0 DEF LimiterInv, StoresAreFinite, KeyOutlivesMembers
<1>5. StampsArePast' /\ AdmissionsAreTimely' /\ AdmissionsAreKept'
  <2>1. \A s \in Stores : \A m \in store[s] \cup granted[s] : m.stamp \in Nat /\ m.at \in Nat
    BY <1>0 DEF Member
  <2>2. StampsArePast'
    BY <1>0, <2>1 DEF LimiterInv, StampsArePast
  <2>3. AdmissionsAreTimely'
    BY <1>0, <2>1 DEF LimiterInv, AdmissionsAreTimely
  <2>4. AdmissionsAreKept'
    BY <1>0, <2>1 DEF LimiterInv, AdmissionsAreKept
  <2> QED BY <2>2, <2>3, <2>4
<1>6. WithinLimitPerStore'
  <2> SUFFICES ASSUME NEW s \in Stores, NEW t \in 0..(now + 1)
               PROVE  Cardinality(Recent(s, t)) <= Limit
    BY <1>0 DEF WithinLimitPerStore, Recent
  <2>1. CASE t \in 0..now
    BY <2>1 DEF LimiterInv, WithinLimitPerStore
  <2>2. CASE t = now + 1
    <3>1. Recent(s, t) \subseteq Recent(s, now)
      BY <2>2, <1>0 DEF LimiterInv, AdmissionsAreTimely, Recent, Member
    <3>2. IsFiniteSet(Recent(s, now)) /\ Recent(s, now) \subseteq store[s]
      <4>1. \A g \in Recent(s, now) : g \in store[s]
        <5> SUFFICES ASSUME NEW g \in Recent(s, now)
                     PROVE  g \in store[s]
          OBVIOUS
        <5>1. /\ g \in granted[s] /\ g.at \in Nat /\ g.stamp \in Nat
              /\ now < g.at + (Window - MaxDelay) /\ g.at <= g.stamp + MaxDelay
          BY <1>0 DEF Recent, Member, LimiterInv, AdmissionsAreTimely
        <5>2. g.stamp + Window > now
          BY <5>1, <1>0
        <5> QED BY <5>1, <5>2 DEF LimiterInv, AdmissionsAreKept
      <4> QED BY <4>1, FS_Subset DEF LimiterInv, StoresAreFinite
    <3>3. Cardinality(Recent(s, now)) <= Limit
      BY <1>0 DEF LimiterInv, WithinLimitPerStore
    <3>4. /\ Cardinality(Recent(s, t)) <= Cardinality(Recent(s, now))
          /\ IsFiniteSet(Recent(s, t))
      BY <3>1, <3>2, FS_Subset
    <3>5. Cardinality(Recent(s, t)) \in Nat /\ Cardinality(Recent(s, now)) \in Nat
      BY <3>2, <3>4, FS_CardinalityType
    <3> QED BY <3>3, <3>4, <3>5
  <2> QED BY <2>1, <2>2, <1>0
<1> QED BY <1>1, <1>2, <1>3, <1>4, <1>5, <1>6 DEF LimiterInv

(* The invariant of the limiter holds in every reachable state. *)
LEMMA LimiterInvariant == LimiterConstants => (Spec => []LimiterInv)
<1> SUFFICES ASSUME LimiterConstants PROVE Spec => []LimiterInv
  OBVIOUS
<1>1. Init => LimiterInv
  BY LimiterInit
<1>2. LimiterInv /\ [Next]_vars => LimiterInv'
  <2> SUFFICES ASSUME LimiterInv, [Next]_vars PROVE LimiterInv'
    OBVIOUS
  <2>1. CASE \E c \in Callers : Step(c)
    <3>1. PICK c \in Callers : Step(c)
      BY <2>1
    <3> QED BY <3>1, StepTypes, StepJobs, StepStores DEF LimiterInv
  <2>2. CASE Expire
    BY <2>2, ExpireKeeps
  <2>3. CASE Tick
    BY <2>3, TickKeeps
  <2>4. CASE UNCHANGED vars
    BY <2>4 DEF vars, LimiterInv, TypeOK, ChecksAreTimely, StoresAreFinite, StampsArePast,
                KeyOutlivesMembers, AdmissionsAreTimely, IdsAreUsed,
                WithdrawalsSpareAdmissions, AdmissionsAreKept, WithinLimitPerStore, Recent
  <2> QED BY <2>1, <2>2, <2>3, <2>4 DEF Next
<1> QED BY <1>1, <1>2, PTL DEF Spec

(* Whatever fails and in whatever order callers arrive, no store admits     *)
(* more than the limit in a window (rate_limiter.py, check_rate_limit).    *)
THEOREM StoreQuota == LimiterConstants => (Spec => []WithinLimitPerStore)
<1>1. LimiterInv => WithinLimitPerStore
  BY DEF LimiterInv
<1> QED BY <1>1, LimiterInvariant, PTL
------------------------------------------------------------------------------
(* In production nobody is admitted but by Redis. *)
OnlyRedisAdmits == \A s \in Processes : granted[s] = {}

(* So where every process is in production the limit holds for all of them  *)
(* together: the limiter fails closed (rate_limiter.py, the except branch). *)
THEOREM ProductionQuota ==
  LimiterConstants /\ Production = Processes => (Spec => []WithinLimitOverall)
<1> SUFFICES ASSUME LimiterConstants, Production = Processes PROVE Spec => []WithinLimitOverall
  OBVIOUS
<1>1. Init => OnlyRedisAdmits
  BY DEF Init, OnlyRedisAdmits, Stores
<1>2. LimiterInv /\ OnlyRedisAdmits /\ [Next]_vars => OnlyRedisAdmits'
  <2> SUFFICES ASSUME LimiterInv, OnlyRedisAdmits, [Next]_vars
               PROVE  OnlyRedisAdmits'
    OBVIOUS
  <2>1. ASSUME NEW s \in Processes PROVE granted'[s] = granted[s]
    <3>1. s \in Stores /\ s # Redis /\ granted \in [Stores -> SUBSET Member]
      BY DEF Stores, LimiterConstants, LimiterInv, TypeOK
    <3> QED BY <3>1 DEF Next, Step, Stamp, RedisGrants, RedisExceeds, RedisAnswerLost,
                        RedisDown, Withdraw, WithdrawFails, FailClosed, LocalGrants,
                        LocalDenies, FallBack, Expire, Tick, vars
  <2> QED BY <2>1 DEF OnlyRedisAdmits
<1>3. LimiterInv /\ OnlyRedisAdmits => WithinLimitOverall
  <2> SUFFICES ASSUME LimiterInv, OnlyRedisAdmits, NEW t \in 0..now
               PROVE  Cardinality(UNION {Recent(s, t) : s \in Stores}) <= Limit
    <3>1. Processes \ Production = {}
      OBVIOUS
    <3>2. Cardinality(Processes \ Production) = 0
      BY <3>1, FS_EmptySet
    <3>3. Limit * (1 + 0) = Limit
      BY DEF LimiterConstants
    <3> QED BY <3>2, <3>3 DEF WithinLimitOverall
  <2>1. UNION {Recent(s, t) : s \in Stores} = Recent(Redis, t)
    BY DEF OnlyRedisAdmits, Recent, Stores
  <2>2. Redis \in Stores
    BY DEF Stores
  <2> QED BY <2>1, <2>2 DEF LimiterInv, WithinLimitPerStore
<1>4. Spec => []LimiterInv
  BY LimiterInvariant
<1> QED BY <1>1, <1>2, <1>3, <1>4, PTL DEF Spec
==============================================================================
