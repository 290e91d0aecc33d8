------------------------------- MODULE Breaker -------------------------------
(***************************************************************************)
(* What a circuit breaker promises, whatever it counts: a call to the      *)
(* provider is never started while the circuit is open and the recovery    *)
(* time has not passed; the circuit is opened by a failed call only, and   *)
(* leaves OPEN only through a call after the recovery time or a reset.     *)
(* Module CircuitBreaker is shown to implement it.                         *)
(***************************************************************************)
CONSTANTS Callers

VARIABLES
  state,      \* of the circuit
  calling,    \* the callers whose call to the provider is in flight
  recovered   \* the recovery time has passed since the last failure

States == {"CLOSED", "OPEN", "HALF_OPEN"}

Init == state = "CLOSED" /\ calling = {} /\ recovered = FALSE

Admit(c) ==
  /\ c \notin calling
  /\ state = "OPEN" => recovered
  /\ state' = IF state = "OPEN" THEN "HALF_OPEN" ELSE state
  /\ calling' = calling \cup {c}
  /\ UNCHANGED recovered
Succeed(c) ==
  /\ c \in calling
  /\ calling' = calling \ {c}
  /\ state' = IF state = "HALF_OPEN" THEN "CLOSED" ELSE state
  /\ UNCHANGED recovered
Fail(c) ==
  /\ c \in calling
  /\ calling' = calling \ {c}
  /\ recovered' = FALSE
  /\ \/ state = "HALF_OPEN" /\ state' = "OPEN"
     \/ state = "CLOSED" /\ state' \in {"CLOSED", "OPEN"}
     \/ state = "OPEN" /\ state' = "OPEN"
\* An admin resets the circuit; calls in flight go on.
Reset == state' = "CLOSED" /\ recovered' = FALSE /\ UNCHANGED calling
\* The process, which holds the circuit, is restarted.
Restart == state' = "CLOSED" /\ recovered' = FALSE /\ calling' = {}
Recover == recovered' = TRUE /\ UNCHANGED <<state, calling>>

Next ==
  \/ \E c \in Callers : Admit(c) \/ Succeed(c) \/ Fail(c)
  \/ Reset \/ Restart \/ Recover

Spec == Init /\ [][Next]_<<state, calling, recovered>>
=============================================================================
