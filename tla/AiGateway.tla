------------------------------ MODULE AiGateway ------------------------------
(***************************************************************************)
(* A request to an AI feature: the plan's quota and the hourly limits      *)
(* before it, the circuit breaker around the provider, the counters after  *)
(* it.  src/core/middlewares/subscription.middleware.js (checkPlanLimit),  *)
(* src/core/middlewares/ai-rate-limit.middleware.js,                       *)
(* src/services/ai/rate-limiter.service.js, circuit-breaker.js, and the    *)
(* quota's reset in src/workers/subscriptionRenewal.worker.js.             *)
(*                                                                         *)
(* A worker is a request until the last of its effects is done: the        *)
(* counters are incremented after the answer, and nobody awaits them.  An  *)
(* action is one call to Redis or the database.  The limiter is the one on *)
(* Redis; one feature is modelled (each has counters of its own), and      *)
(* users without a subscription (a paid plan's usage has no window).       *)
(***************************************************************************)
EXTENDS CircuitBreaker, FiniteSets

CONSTANTS
  Workers,      \* requests in flight at the same time
  Users,
  Global,       \* the key of the counter of all users
  HourlyLimit,  \* rateLimit.perUser[feature] and global.maxRequests
  PlanLimit,    \* aiRequests of a user's plan
  MaxRequests,  \* bound on the requests made
  MaxCrashes    \* bound on the times the server stops

Keys == Users \cup {Global}

ASSUME GatewayAssumption ==
  /\ IsFiniteSet(Workers) /\ Workers # {}
  /\ Users # {} /\ Global \notin Users
  /\ HourlyLimit \in [Keys -> Nat]
  /\ PlanLimit \in [Users -> Nat]
  /\ MaxRequests \in Nat /\ MaxCrashes \in Nat

VARIABLES
  redis,    \* key -> its count, and whether it has a time to live
  quota,    \* user -> aiRequestsUsed and where aiRequestsResetAt lies
  task,     \* worker -> the request it is executing
  requests, \* how many requests were made
  crashes   \* how often the server has stopped

gatewayVars == <<redis, quota>>
bounds == <<requests, crashes>>
vars == <<breakerVars, gatewayVars, task, bounds>>

(* aiRequestsResetAt: "over" when missing or more than 7 days ago;         *)
(* "running" when in the last 7 days; "ahead" when in the future.          *)
Windows == {"over", "running", "ahead"}
Points == {"idle", "checkGlobal", "checkUser", "execute", "calling", "incr", "counting"}
\* expire: the keys still to be given a time to live.
\* usage: what is still to be done about the plan's quota.
TaskRecord == [pc : Points, user : Users, counted : BOOLEAN,
               expire : SUBSET Keys, usage : {"no", "read", "add", "start"}]

AnyUser == CHOOSE u \in Users : TRUE
Idle == [pc |-> "idle", user |-> AnyUser, counted |-> FALSE,
         expire |-> {}, usage |-> "no"]

Init ==
  /\ BreakerInit
  /\ redis = [k \in Keys |-> [count |-> 0, ttl |-> FALSE]]
  /\ quota = [u \in Users |-> [used |-> 0, window |-> "over"]]
  /\ task = [w \in Workers |-> Idle]
  /\ requests = 0 /\ crashes = 0

TypeOK ==
  /\ BreakerTypeOK
  /\ redis \in [Keys -> [count : Nat, ttl : BOOLEAN]]
  /\ quota \in [Users -> [used : Nat, window : Windows]]
  /\ task \in [Workers -> TaskRecord]
  /\ requests \in 0..MaxRequests /\ crashes \in 0..MaxCrashes
-----------------------------------------------------------------------------
At(w, pc) == task[w].pc = pc
User(w) == task[w].user
Go(w, pc) == task' = [task EXCEPT ![w].pc = pc]
Done(w) == task' = [task EXCEPT ![w] = Idle]

\* Mutant: the limit itself is still allowed.
AllowedAtLimit(count, limit) == count <= limit
Allowed(count, limit) == count < limit

windowExpired(u) == quota[u].window = "over"
Used(u) == IF windowExpired(u) THEN 0 ELSE quota[u].used

CheckPlanLimit(w, u) ==
  /\ At(w, "idle")
  /\ requests < MaxRequests /\ requests' = requests + 1         \* bound
  /\ Allowed(Used(u), PlanLimit[u])
  /\ task' = [task EXCEPT ![w].pc = "checkGlobal", ![w].user = u]
  /\ UNCHANGED <<breakerVars, gatewayVars, crashes>>
\* checkGlobalLimit and checkUserLimit; when Redis fails the request goes
\* on and is not counted.
Check(w, here, key, next) ==
  /\ At(w, here)
  /\ \/ /\ Allowed(redis[key].count, HourlyLimit[key])
        /\ task' = [task EXCEPT ![w].pc = next, ![w].counted = (next = "execute")]
     \/ ~Allowed(redis[key].count, HourlyLimit[key]) /\ Done(w)
     \/ Go(w, "execute")
  /\ UNCHANGED <<breakerVars, gatewayVars>>
CheckGlobal(w) == Check(w, "checkGlobal", Global, "checkUser")
CheckUser(w) == Check(w, "checkUser", User(w), "execute")

\* res.json(): an answer of status 2xx is counted.
Respond(w, ok) == IF ok /\ task[w].counted THEN Go(w, "incr") ELSE Done(w)

\* A refused or failed call has a fallback, which is an answer like any
\* other, or is an error.
Execute(w) ==
  /\ At(w, "execute")
  /\ \/ Enter /\ Go(w, "calling")
     \/ Refuse /\ \E ok \in BOOLEAN : Respond(w, ok)
  /\ UNCHANGED gatewayVars
Answered(w) ==
  /\ At(w, "calling")
  /\ \/ onSuccess /\ Respond(w, TRUE)
     \/ onFailure /\ \E ok \in BOOLEAN : Respond(w, ok)
  /\ UNCHANGED gatewayVars

\* Mutant: the time to live is set by the second increment.
ToExpireSecond(key) == IF redis[key].count = 1 THEN {key} ELSE {}
\* redisIncr: INCR, and EXPIRE when the count is 1.  The two INCR are sent
\* together; incrementPlanUsage then begins.
ToExpire(key) == IF redis[key].count = 0 THEN {key} ELSE {}
Incr(w) ==
  /\ At(w, "incr")
  /\ redis' = [k \in Keys |->
       [count |-> redis[k].count + IF k \in {User(w), Global} THEN 1 ELSE 0,
        ttl |-> redis[k].ttl]]
  /\ task' = [task EXCEPT ![w].pc = "counting", ![w].usage = "read",
                          ![w].expire = ToExpire(User(w)) \cup ToExpire(Global)]
  /\ UNCHANGED <<breakerVars, quota>>
Expire(w) ==
  /\ \E key \in task[w].expire :
       /\ redis' = [redis EXCEPT ![key].ttl = redis[key].count > 0]
       /\ task' = [task EXCEPT ![w].expire = @ \ {key}]
  /\ UNCHANGED <<breakerVars, quota>>
\* incrementPlanUsage: the window is read first.
ReadWindow(w) ==
  /\ task[w].usage = "read"
  /\ task' = [task EXCEPT ![w].usage = IF windowExpired(User(w)) THEN "start" ELSE "add"]
  /\ UNCHANGED <<breakerVars, gatewayVars>>
AddUsage(w) ==
  /\ \/ /\ task[w].usage = "start"
        /\ quota' = [quota EXCEPT ![User(w)] = [used |-> 1, window |-> "running"]]
     \/ /\ task[w].usage = "add"
        /\ quota' = [quota EXCEPT ![User(w)].used = @ + 1]
  /\ task' = [task EXCEPT ![w].usage = "no"]
  /\ UNCHANGED <<breakerVars, redis>>
AllCounted(w) ==
  /\ At(w, "counting")
  /\ task[w].expire = {} /\ task[w].usage = "no"
  /\ Done(w)
  /\ UNCHANGED <<breakerVars, gatewayVars>>
-----------------------------------------------------------------------------
\* Redis drops a key whose time is over; an admin deletes the counters.
DropKey(key) ==
  /\ redis[key].ttl
  /\ redis' = [redis EXCEPT ![key] = [count |-> 0, ttl |-> FALSE]]
  /\ UNCHANGED <<breakerVars, quota, task, bounds>>
ResetLimits(keys) ==
  /\ redis' = [k \in Keys |-> IF k \in keys THEN [count |-> 0, ttl |-> FALSE]
                                            ELSE redis[k]]
  /\ UNCHANGED <<breakerVars, quota, task, bounds>>
ResetBreaker == reset /\ UNCHANGED <<gatewayVars, task, bounds>>

\* The 7 days of a window pass.
WeekPasses(u) ==
  /\ \/ quota[u].window = "ahead" /\ quota' = [quota EXCEPT ![u].window = "running"]
     \/ quota[u].window = "running" /\ quota' = [quota EXCEPT ![u].window = "over"]
  /\ UNCHANGED <<breakerVars, redis, task, bounds>>
\* resetFreeUserAI, hourly: it takes aiRequestsResetAt for the next reset.
ResetFreeUserAI(u) ==
  /\ quota[u].used > 0 /\ quota[u].window # "ahead"
  /\ quota' = [quota EXCEPT ![u] = [used |-> 0, window |-> "ahead"]]
  /\ UNCHANGED <<breakerVars, redis, task, bounds>>

BreakerTime ==
  (WindowPasses \/ RecoveryPasses) /\ UNCHANGED <<gatewayVars, task, bounds>>

Crash ==
  /\ crashes < MaxCrashes /\ crashes' = crashes + 1                \* bound
  /\ reset
  /\ task' = [w \in Workers |-> Idle]
  /\ UNCHANGED <<gatewayVars, requests>>

Advance(w) ==
  CheckGlobal(w) \/ CheckUser(w) \/ Execute(w) \/ Answered(w) \/ Incr(w)
  \/ Expire(w) \/ ReadWindow(w) \/ AddUsage(w) \/ AllCounted(w)
WorkerStep(w) == Advance(w) /\ UNCHANGED bounds

Next ==
  \/ \E w \in Workers : WorkerStep(w)
  \/ \E w \in Workers, u \in Users : CheckPlanLimit(w, u)
  \/ \E key \in Keys : DropKey(key) \/ ResetLimits({key})
  \/ ResetBreaker \/ BreakerTime \/ Crash
  \/ \E u \in Users : WeekPasses(u) \/ ResetFreeUserAI(u)

Spec == Init /\ [][Next]_vars
-----------------------------------------------------------------------------
(* The breaker, late answers, resets and restarts included, implements the *)
(* abstract one.                                                           *)
Circuit == INSTANCE Breaker WITH
  Callers <- Workers,
  calling <- {w \in Workers : At(w, "calling")},
  recovered <- recoveryOver
BreakerSpec == Circuit!Spec

(* Every limit is tested long before it is counted, so requests in flight  *)
(* together pass it together: no counter exceeds its limit by as many as   *)
(* there are requests in flight.                                           *)
OveruseBounded ==
  LET extra == Cardinality(Workers) - 1
  IN  /\ \A k \in Keys : redis[k].count <= HourlyLimit[k] + extra
      /\ \A u \in Users : Used(u) <= PlanLimit[u] + extra

(* A used-up hour ends: unless the server stopped between INCR and EXPIRE, *)
(* a counter that is not 0 has a time to live or is about to be given one, *)
(* whatever is reset or dropped in the meantime (redisIncr).               *)
CountersExpire ==
  \A k \in Keys : redis[k].count > 0 =>
    redis[k].ttl \/ crashes > 0 \/ \E w \in Workers : k \in task[w].expire
-----------------------------------------------------------------------------
(* Claims of the code that do not hold.                                    *)

(* rate-limiter.service.js: "Atomically increment a Redis counter and set  *)
(* TTL if it's the first increment." Refuted by a crash between the two.   *)
CountersAlwaysExpire ==
  \A k \in Keys : redis[k].count > 0 =>
    redis[k].ttl \/ \E w \in Workers : k \in task[w].expire

(* A free user's quota is per 7 days. Refuted by resetFreeUserAI, which    *)
(* takes the start of the window for its end.                              *)
QuotaLastsTheWeek ==
  [][\A u \in Users : quota[u].window = "running" => quota'[u].window # "ahead"]_vars
=============================================================================
