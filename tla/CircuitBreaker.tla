--------------------------- MODULE CircuitBreaker ---------------------------
(***************************************************************************)
(* The circuit breaker of one service:operation                            *)
(* (apps/api/src/services/universal-error-handling-service.ts):            *)
(* executeWithCircuitBreaker runs a function and reports its outcome with  *)
(* updateCircuitBreaker, which counts it and saves the breaker to Redis;   *)
(* recordError reports a failure too.  Calls overlap: a call yields while  *)
(* its function runs and while the breaker is saved.                       *)
(*                                                                         *)
(* A breaker that does not exist yet is created closed, with both counts   *)
(* zero, by whoever asks for it first, so it is modelled as existing.      *)
(***************************************************************************)
EXTENDS Naturals, FiniteSets

CONSTANTS
    Calls,             \* callers of executeWithCircuitBreaker
    FailureThreshold,  \* config.failureThreshold (5)
    SuccessThreshold,  \* config.successThreshold (3)
    HalfOpenMaxCalls,  \* config.halfOpenMaxCalls (3)
    MaxOutages         \* bound: times the called service or Redis goes down

ASSUME BreakerAssumption ==
    /\ FailureThreshold \in Nat \ {0} /\ SuccessThreshold \in Nat \ {0}
    /\ HalfOpenMaxCalls \in Nat \ {0} /\ MaxOutages \in Nat

VARIABLES
    breaker,  \* the entry of this.circuitBreakers
    calls,    \* where each caller is
    outage,   \* whether the called service and Redis may fail now
    outages,  \* outages so far
    probes    \* calls let through since the breaker became half open

vars == <<breaker, calls, outage, outages, probes>>

(* cooling: nextAttemptTime lies in the future. *)
Breaker == [state : {"closed", "open", "half_open"}, failureCount : Nat, successCount : Nat,
            cooling : BOOLEAN]
(* "running": in fn(); "saving": after a success, in the await of           *)
(* updateCircuitBreaker; "failing": the same after a failure.               *)
CallStates == {"idle", "running", "saving", "failing"}

NewBreaker == [state |-> "closed", failureCount |-> 0, successCount |-> 0, cooling |-> FALSE]

Init ==
    /\ breaker = NewBreaker
    /\ calls = [c \in Calls |-> "idle"]
    /\ outage = FALSE
    /\ outages = 0
    /\ probes = 0

-----------------------------------------------------------------------------
(* updateCircuitBreaker.  A count is only compared with its thresholds, so  *)
(* it is not counted beyond them.                                           *)

Count(n, limit) == IF n < limit THEN n + 1 ELSE n

SuccessLimit == IF SuccessThreshold < HalfOpenMaxCalls THEN HalfOpenMaxCalls ELSE SuccessThreshold

(* Mutant of Succeeded: it closes an open breaker too. *)
SucceededAnywhere(b) ==
    LET n == Count(b.successCount, SuccessLimit)
    IN [b EXCEPT !.successCount = n, !.failureCount = 0,
                 !.state = IF n >= SuccessThreshold THEN "closed" ELSE @]

Succeeded(b) ==
    LET n == Count(b.successCount, SuccessLimit)
    IN [b EXCEPT !.successCount = n, !.failureCount = 0,
                 !.state = IF @ = "half_open" /\ n >= SuccessThreshold THEN "closed" ELSE @]

(* Mutant of Failed: the count is compared before it is increased. *)
FailedLate(b) ==
    LET n == Count(b.failureCount, FailureThreshold)
        opens == b.state = "closed" /\ b.failureCount >= FailureThreshold
    IN [b EXCEPT !.failureCount = n, !.successCount = 0,
                 !.state = IF opens THEN "open" ELSE @, !.cooling = opens \/ @]

Failed(b) ==
    LET n == Count(b.failureCount, FailureThreshold)
        opens == b.state = "closed" /\ n >= FailureThreshold
    IN [b EXCEPT !.failureCount = n, !.successCount = 0,
                 !.state = IF opens THEN "open" ELSE @, !.cooling = opens \/ @]

-----------------------------------------------------------------------------
(* executeWithCircuitBreaker. *)

(* Mutant of Asked: nextAttemptTime is not looked at. *)
AskedEarly(b) == IF b.state = "open" THEN [b EXCEPT !.state = "half_open", !.successCount = 0] ELSE b

(* The breaker when a call asks for it: the first one after the timeout     *)
(* makes it half open.                                                      *)
Asked(b) ==
    IF b.state = "open" /\ ~b.cooling THEN [b EXCEPT !.state = "half_open", !.successCount = 0] ELSE b

(* Mutant of Exhausted: off by one. *)
ExhaustedEarly(b) == b.state = "half_open" /\ b.successCount + 1 >= HalfOpenMaxCalls

Exhausted(b) == b.state = "half_open" /\ b.successCount >= HalfOpenMaxCalls

(* A call is let through. *)
CallStarts(c) ==
    LET b == Asked(breaker)
    IN /\ calls[c] = "idle"
       /\ b.state # "open"
       /\ ~Exhausted(b)
       /\ breaker' = b
       /\ calls' = [calls EXCEPT ![c] = "running"]
       /\ probes' = CASE b.state = "closed" -> 0
                      [] breaker.state = "open" -> 1
                      [] OTHER -> Count(probes, HalfOpenMaxCalls + 1)
       /\ UNCHANGED <<outage, outages>>

(* A call is refused: it throws, and nothing changes. *)
CallRefused(c) ==
    /\ calls[c] = "idle"
    /\ LET b == Asked(breaker) IN b.state = "open" \/ Exhausted(b)
    /\ UNCHANGED vars

FnSucceeds(c) ==
    /\ calls[c] = "running"
    /\ breaker' = Succeeded(breaker)
    /\ calls' = [calls EXCEPT ![c] = "saving"]
    /\ probes' = IF breaker'.state = "half_open" THEN probes ELSE 0
    /\ UNCHANGED <<outage, outages>>

FnFails(c) ==
    /\ calls[c] = "running"
    /\ outage
    /\ breaker' = Failed(breaker)
    /\ calls' = [calls EXCEPT ![c] = "failing"]
    /\ UNCHANGED <<outage, outages, probes>>

(* The breaker has been saved and the call returns or throws. *)
Saved(c) ==
    /\ calls[c] \in {"saving", "failing"}
    /\ calls' = [calls EXCEPT ![c] = "idle"]
    /\ UNCHANGED <<breaker, outage, outages, probes>>

(* Saving fails.  The update after a success is inside the try block, so    *)
(* the call is then also reported as a failure, and throws.                 *)
SaveFails(c) ==
    /\ outage
    /\ \/ /\ calls[c] = "saving"
          /\ breaker' = Failed(breaker)
          /\ calls' = [calls EXCEPT ![c] = "failing"]
       \/ /\ calls[c] = "failing"
          /\ breaker' = breaker
          /\ calls' = [calls EXCEPT ![c] = "idle"]
    /\ UNCHANGED <<outage, outages, probes>>

(* recordError reports a failure of the same service:operation. *)
RecordedError ==
    /\ outage
    /\ breaker' = Failed(breaker)
    /\ UNCHANGED <<calls, outage, outages, probes>>

-----------------------------------------------------------------------------
(* The environment. *)

(* nextAttemptTime is reached. *)
TimeoutPasses ==
    /\ breaker.cooling
    /\ breaker' = [breaker EXCEPT !.cooling = FALSE]
    /\ UNCHANGED <<calls, outage, outages, probes>>

OutageStarts ==
    /\ ~outage
    /\ outages < MaxOutages
    /\ outage' = TRUE
    /\ outages' = outages + 1
    /\ UNCHANGED <<breaker, calls, probes>>

OutageEnds ==
    /\ outage
    /\ outage' = FALSE
    /\ UNCHANGED <<breaker, calls, outages, probes>>

Next ==
    \/ \E c \in Calls : \/ CallStarts(c) \/ CallRefused(c) \/ FnSucceeds(c) \/ FnFails(c)
                        \/ Saved(c) \/ SaveFails(c)
    \/ RecordedError
    \/ TimeoutPasses
    \/ OutageStarts
    \/ OutageEnds

Spec == Init /\ [][Next]_vars

(* Fairness: every caller asks again and again, functions end, Redis        *)
(* answers, time passes, and outages end.                                   *)
Fairness ==
    /\ \A c \in Calls : /\ WF_vars(CallStarts(c))
                        /\ WF_vars(FnSucceeds(c) \/ FnFails(c))
                        /\ WF_vars(Saved(c) \/ SaveFails(c))
    /\ WF_vars(TimeoutPasses)
    /\ WF_vars(OutageEnds)

FairSpec == Spec /\ Fairness

-----------------------------------------------------------------------------
(* Properties. *)

(* Every field keeps its type. *)
TypeOK ==
    /\ breaker \in Breaker
    /\ calls \in [Calls -> CallStates]
    /\ outage \in BOOLEAN
    /\ outages \in 0 .. MaxOutages
    /\ probes \in 0 .. HalfOpenMaxCalls + 1

(* A breaker that lets everything through has seen fewer than               *)
(* failureThreshold failures since the last success, whatever calls, failed *)
(* saves and recorded errors reported them, and one that still waits for    *)
(* its timeout is open.                                                     *)
CountsMatchState ==
    /\ breaker.state = "closed" => breaker.failureCount < FailureThreshold
    /\ breaker.state = "half_open" => breaker.successCount < SuccessThreshold
    /\ breaker.cooling => breaker.state = "open"

Promise == INSTANCE BreakerPromise WITH
    phase <- breaker.state, waiting <- breaker.cooling,
    active <- {c \in Calls : calls[c] = "running"}

(* The breaker keeps the promise of a circuit breaker: see BreakerPromise.  *)
KeepsPromise == Promise!Spec

(* Once the called service is up for good the breaker closes, also when     *)
(* every call in flight is refused or reported late.                        *)
BreakerRecovers == []<>(breaker.state = "closed")

(* "Circuit breaker is HALF_OPEN and max calls exceeded": a half-open       *)
(* breaker lets at most halfOpenMaxCalls calls through.                     *)
HalfOpenCallsLimited == probes <= HalfOpenMaxCalls
=============================================================================
