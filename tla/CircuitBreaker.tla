--------------------------- MODULE CircuitBreaker ---------------------------
(***************************************************************************)
(* The circuit breaker in front of the AI provider:                        *)
(* src/services/ai/circuit-breaker.js, one object per server process.      *)
(*                                                                         *)
(* An operator is what the object does between two awaits of execute().    *)
(* Time is what its two comparisons tell apart.                            *)
(***************************************************************************)
EXTENDS Integers

CONSTANT ErrorThreshold  \* errorThreshold, in percent

ASSUME BreakerAssumption == ErrorThreshold \in 1..100

VARIABLES
  state,          \* CLOSED, OPEN or HALF_OPEN
  failureCount,
  totalRequests,
  windowOver,     \* shouldReset(): the time window has passed
  recoveryOver    \* there was a failure and the recovery time has passed

breakerVars == <<state, failureCount, totalRequests, windowOver, recoveryOver>>

BreakerTypeOK ==
  /\ state \in {"CLOSED", "OPEN", "HALF_OPEN"}
  /\ failureCount \in Nat /\ totalRequests \in Nat
  /\ windowOver \in BOOLEAN /\ recoveryOver \in BOOLEAN

BreakerInit ==
  /\ state = "CLOSED"
  /\ failureCount = 0 /\ totalRequests = 0
  /\ windowOver = FALSE /\ recoveryOver = FALSE

\* Mutant: the recovery time is not waited for.
IsOpenNever == state = "OPEN" /\ ~recoveryOver /\ windowOver
isOpen == state = "OPEN" /\ ~recoveryOver

\* execute() before fn(): a new window starts the counters again.
InWindow(n) == IF windowOver THEN 0 ELSE n
Enter ==
  /\ ~isOpen
  /\ state' = IF state = "OPEN" THEN "HALF_OPEN" ELSE state
  /\ failureCount' = InWindow(failureCount)
  /\ totalRequests' = InWindow(totalRequests) + 1
  /\ windowOver' = FALSE
  /\ UNCHANGED recoveryOver
Refuse ==
  /\ isOpen
  /\ failureCount' = InWindow(failureCount)
  /\ totalRequests' = InWindow(totalRequests)
  /\ windowOver' = FALSE
  /\ UNCHANGED <<state, recoveryOver>>

onSuccess ==
  /\ state' = IF state = "HALF_OPEN" THEN "CLOSED" ELSE state
  /\ failureCount' = IF state = "HALF_OPEN" THEN 0 ELSE failureCount
  /\ UNCHANGED <<totalRequests, windowOver, recoveryOver>>

\* getErrorRate() >= errorThreshold; the rate of no requests is 0.
Exceeded(failures) ==
  totalRequests > 0 /\ failures * 100 >= ErrorThreshold * totalRequests
onFailure ==
  /\ failureCount' = failureCount + 1
  /\ state' = IF state = "HALF_OPEN" \/ (state = "CLOSED" /\ Exceeded(failureCount + 1))
                THEN "OPEN" ELSE state
  /\ recoveryOver' = FALSE
  /\ UNCHANGED <<totalRequests, windowOver>>

\* reset(), by an admin, and the constructor of a new process.
reset ==
  /\ state' = "CLOSED"
  /\ failureCount' = 0 /\ totalRequests' = 0
  /\ windowOver' = FALSE /\ recoveryOver' = FALSE

\* Time passes: lastFailureTime is set when there was a failure, and the
\* circuit was not open without one; with its counters at 0 a window is new.
WindowPasses == totalRequests + failureCount > 0 /\ ~windowOver /\ windowOver' = TRUE
                /\ UNCHANGED <<state, failureCount, totalRequests, recoveryOver>>
RecoveryPasses == state = "OPEN" /\ ~recoveryOver /\ recoveryOver' = TRUE
                  /\ UNCHANGED <<state, failureCount, totalRequests, windowOver>>
=============================================================================
