----------------------------- MODULE RateLimiter -----------------------------
(***************************************************************************)
(* The sliding-window rate limiter of one agent                             *)
(* (packages/shared/rate_limiter.py), as RateLimitRule calls it: cost 1,    *)
(* one key.  A store is the agent's sorted set in Redis or, outside         *)
(* production, its bucket in the memory of one process.                     *)
(*                                                                         *)
(* A member of a store is an admission that was counted: its stamp is the   *)
(* clock the caller read before it turned to the store, at (not part of the *)
(* code's data) the time the store took it in, id its place in the order of *)
(* insertion.                                                              *)
(***************************************************************************)
EXTENDS Naturals, FiniteSets

CONSTANTS Callers,      \* evaluations of the rate rule that may run at a time
          Processes,    \* API processes
          ProcessOf,    \* the process a caller runs in
          Limit,        \* default_rate_limit
          Window,       \* default_window_seconds
          TtlGrace,     \* what is added to the window in EXPIRE: 10 seconds
          MaxDelay,     \* the longest a check may take (the client's timeouts)
          Production,   \* the processes whose ENVIRONMENT is production
          Faults,       \* what may go wrong with Redis: it does not get the
                        \* transaction ("down") or the withdrawal ("stuck"),
                        \* or an answer is "lost"
          MaxTime,      \* bound of the clock
          MaxCalls      \* bound of the insertions

Redis == "redis"
Stores == Processes \cup {Redis}

LimiterConstants ==
  /\ ProcessOf \in [Callers -> Processes]
  /\ Redis \notin Processes
  /\ Production \subseteq Processes
  /\ Limit \in Nat /\ Window \in Nat /\ TtlGrace \in Nat /\ MaxDelay \in Nat
  /\ MaxTime \in Nat /\ MaxCalls \in Nat
  /\ Faults \subseteq {"down", "stuck", "lost"}
  /\ MaxDelay <= Window

ASSUME LimiterAssumption == LimiterConstants

VARIABLES now,       \* the clock, the same for every process
          serial,    \* insertions so far
          store,     \* the members each store holds
          expires,   \* when Redis drops the key
          granted,   \* the members whose callers were allowed (history)
          job        \* where each caller's check stands

vars == <<now, serial, store, expires, granted, job>>

Member == [id : Nat, stamp : Nat, at : Nat]
Job == [at : {"idle", "stamped", "withdraw", "failed"}, stamp : Nat, id : Nat]
Idle == [at |-> "idle", stamp |-> 0, id |-> 0]

TypeOK ==
  /\ now \in Nat /\ serial \in Nat /\ expires \in Nat
  /\ store \in [Stores -> SUBSET Member]
  /\ granted \in [Stores -> SUBSET Member]
  /\ job \in [Callers -> Job]

Init ==
  /\ now = 0 /\ serial = 0 /\ expires = 0
  /\ store = [s \in Stores |-> {}]
  /\ granted = [s \in Stores |-> {}]
  /\ job = [c \in Callers |-> Idle]
------------------------------------------------------------------------------
(* Mutation: the window reaches one instant too far back. *)
InWindowTooShort(members, stamp) == {m \in members : m.stamp + Window > stamp + 1}

(* ZREMRANGEBYSCORE: what a window ending at stamp leaves of a sorted set. *)
InWindow(members, stamp) == {m \in members : m.stamp + Window > stamp}

(* The pops from the head of a bucket end at the first member in the window. *)
AfterPops(bucket, stamp) ==
  {m \in bucket : \E k \in bucket : k.id <= m.id /\ k.stamp + Window > stamp}

Exceeds(members) == Cardinality(members) + 1 > Limit

Fresh(c) == [id |-> serial, stamp |-> job[c].stamp, at |-> now]

Answer(c) == job' = [job EXCEPT ![c] = Idle]
Move(c, at) == job' = [job EXCEPT ![c].at = at]

(* now = time.time() *)
Stamp(c) ==
  /\ job[c].at = "idle"
  /\ job' = [job EXCEPT ![c] = [at |-> "stamped", stamp |-> now, id |-> 0]]
  /\ UNCHANGED <<now, serial, store, expires, granted>>

(* The MULTI/EXEC: clear, count, insert, set the time to live. *)
Counted(c) == InWindow(store[Redis], job[c].stamp)

Transaction(c) ==
  /\ job[c].at = "stamped"
  /\ serial < MaxCalls
  /\ store' = [store EXCEPT ![Redis] = Counted(c) \cup {Fresh(c)}]
  /\ serial' = serial + 1
  /\ expires' = now + Window + TtlGrace
  /\ UNCHANGED now

RedisGrants(c) ==
  /\ Transaction(c)
  /\ ~Exceeds(Counted(c))
  /\ granted' = [granted EXCEPT ![Redis] = @ \cup {Fresh(c)}]
  /\ Answer(c)

(* The member stays in the set until the next call withdraws it. *)
RedisExceeds(c) ==
  /\ Transaction(c)
  /\ Exceeds(Counted(c))
  /\ job' = [job EXCEPT ![c].at = "withdraw", ![c].id = serial]
  /\ UNCHANGED granted

RedisAnswerLost(c) ==
  /\ "lost" \in Faults
  /\ Transaction(c)
  /\ Move(c, "failed")
  /\ UNCHANGED granted

RedisDown(c) ==
  /\ "down" \in Faults
  /\ job[c].at = "stamped"
  /\ Move(c, "failed")
  /\ UNCHANGED <<now, serial, store, expires, granted>>

(* ZREM *)
Withdrawn(c) == [store EXCEPT ![Redis] = {m \in @ : m.id # job[c].id}]

(* ZREM and ZRANGE are answered: the caller is denied. *)
Withdraw(c) ==
  /\ job[c].at = "withdraw"
  /\ store' = Withdrawn(c)
  /\ Answer(c)
  /\ UNCHANGED <<now, serial, expires, granted>>

(* One of the two is not: the member is gone (the answer was lost) or not. *)
WithdrawFails(c) ==
  /\ job[c].at = "withdraw"
  /\ \/ "stuck" \in Faults /\ UNCHANGED store
     \/ "lost" \in Faults /\ store' = Withdrawn(c)
  /\ Move(c, "failed")
  /\ UNCHANGED <<now, serial, expires, granted>>

(* The except branch in production: denied, for want of coordination. *)
FailClosed(c) ==
  /\ job[c].at = "failed"
  /\ ProcessOf[c] \in Production
  /\ Answer(c)
  /\ UNCHANGED <<now, serial, store, expires, granted>>

(* The except branch elsewhere, in the memory of the caller's process. *)
Popped(c) == AfterPops(store[ProcessOf[c]], job[c].stamp)

(* Mutation: production falls back too. *)
FallBackAlways(c) ==
  /\ job[c].at = "failed"
  /\ Answer(c)
  /\ UNCHANGED <<now, expires>>

FallBack(c) ==
  /\ job[c].at = "failed"
  /\ ProcessOf[c] \notin Production
  /\ Answer(c)
  /\ UNCHANGED <<now, expires>>

LocalGrants(c) ==
  /\ FallBack(c)
  /\ ~Exceeds(Popped(c))
  /\ serial < MaxCalls
  /\ store' = [store EXCEPT ![ProcessOf[c]] = Popped(c) \cup {Fresh(c)}]
  /\ granted' = [granted EXCEPT ![ProcessOf[c]] = @ \cup {Fresh(c)}]
  /\ serial' = serial + 1

LocalDenies(c) ==
  /\ FallBack(c)
  /\ Exceeds(Popped(c))
  /\ store' = [store EXCEPT ![ProcessOf[c]] = Popped(c)]
  /\ UNCHANGED <<serial, granted>>

(* Redis drops a key whose time to live is over. *)
Expire ==
  /\ store[Redis] # {}
  /\ now >= expires
  /\ store' = [store EXCEPT ![Redis] = {}]
  /\ UNCHANGED <<now, serial, expires, granted, job>>

(* Time passes, but no check takes longer than its timeouts allow. *)
Tick ==
  /\ now < MaxTime
  /\ \A c \in Callers : job[c].at # "idle" => now < job[c].stamp + MaxDelay
  /\ now' = now + 1
  /\ UNCHANGED <<serial, store, expires, granted, job>>

Step(c) ==
  \/ Stamp(c)
  \/ RedisGrants(c) \/ RedisExceeds(c) \/ RedisAnswerLost(c) \/ RedisDown(c)
  \/ Withdraw(c) \/ WithdrawFails(c)
  \/ FailClosed(c) \/ LocalGrants(c) \/ LocalDenies(c)

Next == (\E c \in Callers : Step(c)) \/ Expire \/ Tick

Spec == Init /\ [][Next]_vars
------------------------------------------------------------------------------
(* Taken in by store s during the Window - MaxDelay instants that end at t. *)
Recent(s, t) ==
  {g \in granted[s] : g.at <= t /\ t < g.at + (Window - MaxDelay)}

(* Callers read the clock before they turn to the store, so they may arrive *)
(* out of order and clear or count by an old clock.  Still a store admits   *)
(* at most the limit in any window, short of the longest delay             *)
(* (rate_limiter.py, check_rate_limit).                                    *)
WithinLimitPerStore ==
  \A s \in Stores : \A t \in 0..now : Cardinality(Recent(s, t)) <= Limit

(* The limiter as a whole "falls back safely to local memory if Redis is   *)
(* temporarily unreachable" (rate_limiter.py, docstring): each process that *)
(* may fall back adds at most one limit to that of Redis, so where all are  *)
(* in production the limit holds overall.                                  *)
WithinLimitOverall ==
  \A t \in 0..now :
    Cardinality(UNION {Recent(s, t) : s \in Stores})
      <= Limit * (1 + Cardinality(Processes \ Production))
==============================================================================
