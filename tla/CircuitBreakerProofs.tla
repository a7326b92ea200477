------------------------ MODULE CircuitBreakerProofs ------------------------
(***************************************************************************)
(* CircuitBreaker for any number of callers and any thresholds: its counts *)
(* match its state, and it implements BreakerPromise.                      *)
(***************************************************************************)
EXTENDS CircuitBreaker, TLAPS

Inv == TypeOK /\ CountsMatchState

(* What updateCircuitBreaker and the test in executeWithCircuitBreaker do   *)
(* to a breaker whose counts match its state.                               *)
BreakerOK(b) ==
    /\ b \in Breaker
    /\ b.state = "closed" => b.failureCount < FailureThreshold
    /\ b.state = "half_open" => b.successCount < SuccessThreshold
    /\ b.cooling => b.state = "open"

LEMMA CountType ==
  ASSUME NEW n \in Nat, NEW limit \in Nat
  PROVE  Count(n, limit) \in Nat /\ Count(n, limit) >= n
  BY DEF Count

LEMMA SucceededKeeps ==
  ASSUME NEW b, BreakerOK(b)
  PROVE  /\ BreakerOK(Succeeded(b))
         /\ Succeeded(b).cooling = b.cooling
         /\ \/ Succeeded(b).state = b.state
            \/ b.state = "half_open" /\ Succeeded(b).state = "closed"
<1> DEFINE n == Count(b.successCount, SuccessLimit)
<1>1. b.successCount \in Nat /\ SuccessLimit \in Nat
  BY BreakerAssumption DEF BreakerOK, Breaker, SuccessLimit
<1>2. n \in Nat
  BY <1>1, CountType
<1> HIDE DEF n
<1> DEFINE closes == b.state = "half_open" /\ n >= SuccessThreshold
<1>3. /\ Succeeded(b) \in Breaker /\ Succeeded(b).cooling = b.cooling
      /\ Succeeded(b).successCount = n /\ Succeeded(b).failureCount = 0
      /\ Succeeded(b).state = IF closes THEN "closed" ELSE b.state
  BY <1>2 DEF Succeeded, n, BreakerOK, Breaker
<1>4. CASE closes
  BY <1>3, <1>4, BreakerAssumption DEF BreakerOK
<1>5. CASE ~closes
  BY <1>2, <1>3, <1>5, BreakerAssumption DEF BreakerOK
<1> QED
  BY <1>4, <1>5

LEMMA FailedKeeps ==
  ASSUME NEW b, BreakerOK(b)
  PROVE  /\ BreakerOK(Failed(b))
         /\ \/ Failed(b).state = b.state /\ Failed(b).cooling = b.cooling
            \/ b.state = "closed" /\ Failed(b).state = "open" /\ Failed(b).cooling = TRUE
<1> DEFINE n == Count(b.failureCount, FailureThreshold)
           opens == b.state = "closed" /\ n >= FailureThreshold
<1>1. n \in Nat
  BY CountType, BreakerAssumption DEF BreakerOK, Breaker
<1> HIDE DEF n
<1>2. /\ Failed(b) \in Breaker
      /\ Failed(b).failureCount = n /\ Failed(b).successCount = 0
      /\ Failed(b).state = IF opens THEN "open" ELSE b.state
      /\ Failed(b).cooling = (opens \/ b.cooling)
  BY <1>1 DEF Failed, n, BreakerOK, Breaker
<1>3. CASE opens
  BY <1>1, <1>2, <1>3, BreakerAssumption DEF BreakerOK
<1>4. CASE ~opens
  BY <1>1, <1>2, <1>4, BreakerAssumption DEF BreakerOK, Breaker
<1> QED
  BY <1>3, <1>4

LEMMA AskedKeeps ==
  ASSUME NEW b, BreakerOK(b)
  PROVE  /\ BreakerOK(Asked(b))
         /\ Asked(b).cooling = b.cooling
         /\ \/ Asked(b) = b
            \/ b.state = "open" /\ ~b.cooling /\ Asked(b).state = "half_open"
<1>1. CASE b.state = "open" /\ ~b.cooling
  <2>1. /\ Asked(b) \in Breaker /\ Asked(b).cooling = b.cooling
        /\ Asked(b).state = "half_open" /\ Asked(b).successCount = 0
    BY <1>1 DEF Asked, BreakerOK, Breaker
  <2> QED
    BY <1>1, <2>1, BreakerAssumption DEF BreakerOK
<1>2. CASE ~ (b.state = "open" /\ ~b.cooling)
  BY <1>2 DEF Asked
<1> QED
  BY <1>1, <1>2

LEMMA InvIsBreakerOK == Inv => BreakerOK(breaker)
  BY DEF Inv, TypeOK, CountsMatchState, BreakerOK

(* A step that leaves a good breaker, and moves the callers and the         *)
(* environment within their types.                                          *)
LEMMA StepKeeps ==
  ASSUME Inv, [Next]_vars
  PROVE  Inv'
<1>0. BreakerOK(breaker) /\ TypeOK
  BY InvIsBreakerOK DEF Inv
<1>1. BreakerOK(breaker')
  <2>1. ASSUME NEW c \in Calls, CallStarts(c) PROVE BreakerOK(breaker')
    BY <1>0, <2>1, AskedKeeps DEF CallStarts
  <2>2. ASSUME NEW c \in Calls, FnSucceeds(c) PROVE BreakerOK(breaker')
    BY <1>0, <2>2, SucceededKeeps DEF FnSucceeds
  <2>3. ASSUME NEW c \in Calls, FnFails(c) \/ SaveFails(c) \/ RecordedError PROVE BreakerOK(breaker')
    BY <1>0, <2>3, FailedKeeps DEF FnFails, SaveFails, RecordedError
  <2>4. CASE TimeoutPasses
    BY <1>0, <2>4 DEF TimeoutPasses, BreakerOK, Breaker
  <2>5. CASE RecordedError
    BY <1>0, <2>5, FailedKeeps DEF RecordedError
  <2>6. CASE UNCHANGED breaker
    BY <1>0, <2>6
  <2> QED
    BY <2>1, <2>2, <2>3, <2>4, <2>5, <2>6 DEF Next, CallRefused, Saved, OutageStarts, OutageEnds, vars
<1>2. calls' \in [Calls -> CallStates]
  BY <1>0 DEF TypeOK, Next, CallStarts, CallRefused, FnSucceeds, FnFails, Saved, SaveFails,
              RecordedError, TimeoutPasses, OutageStarts, OutageEnds, CallStates, vars
<1>5. outage' \in BOOLEAN
  <2>1. outage' = outage \/ OutageStarts \/ OutageEnds
    BY DEF Next, CallStarts, CallRefused, FnSucceeds, FnFails, Saved, SaveFails,
           RecordedError, TimeoutPasses, vars
  <2> QED
    BY <1>0, <2>1 DEF TypeOK, OutageStarts, OutageEnds
<1>3. outages' \in 0 .. MaxOutages
  BY <1>0, BreakerAssumption
     DEF TypeOK, Next, CallStarts, CallRefused, FnSucceeds, FnFails, Saved, SaveFails, RecordedError,
         TimeoutPasses, OutageStarts, OutageEnds, vars
<1>4. probes' \in 0 .. HalfOpenMaxCalls + 1
  <2>1. /\ Count(probes, HalfOpenMaxCalls + 1) \in 0 .. HalfOpenMaxCalls + 1
        /\ 0 \in 0 .. HalfOpenMaxCalls + 1 /\ 1 \in 0 .. HalfOpenMaxCalls + 1
    BY <1>0, BreakerAssumption DEF TypeOK, Count
  <2> QED
    BY <1>0, <2>1 DEF TypeOK, Next, CallStarts, CallRefused, FnSucceeds, FnFails, Saved, SaveFails,
                      RecordedError, TimeoutPasses, OutageStarts, OutageEnds, vars
<1> QED
  BY <1>1, <1>2, <1>3, <1>4, <1>5 DEF Inv, TypeOK, CountsMatchState, BreakerOK

LEMMA Invariant == Spec => []Inv
<1>1. Init => Inv
  <2> SUFFICES ASSUME Init PROVE Inv
    OBVIOUS
  <2>1. /\ NewBreaker \in Breaker /\ NewBreaker.state = "closed"
        /\ NewBreaker.failureCount = 0 /\ ~NewBreaker.cooling
    BY DEF NewBreaker, Breaker
  <2>2. 0 \in 0 .. MaxOutages /\ 0 \in 0 .. HalfOpenMaxCalls + 1 /\ 0 < FailureThreshold
    BY BreakerAssumption
  <2>3. breaker = NewBreaker /\ calls \in [Calls -> CallStates]
    BY DEF Init, CallStates
  <2>4. outage = FALSE /\ outages = 0 /\ probes = 0
    BY DEF Init
  <2> QED
    BY <2>1, <2>2, <2>3, <2>4 DEF Inv, TypeOK, CountsMatchState
<1>2. Inv /\ [Next]_vars => Inv'
  BY StepKeeps
<1> QED
  BY <1>1, <1>2, PTL DEF Spec

(* The fields of the breaker and the positions of the callers keep their    *)
(* types, for any thresholds.                                               *)
THEOREM TypeCorrect == Spec => []TypeOK
<1>1. Inv => TypeOK
  BY DEF Inv
<1> QED
  BY <1>1, Invariant, PTL

(* A closed breaker has counted fewer than failureThreshold failures in a   *)
(* row and a half-open one fewer than successThreshold successes, whatever  *)
(* overlapping calls and failed saves updateCircuitBreaker is told of.      *)
THEOREM CountsAgree == Spec => []CountsMatchState
<1>1. Inv => CountsMatchState
  BY DEF Inv
<1> QED
  BY <1>1, Invariant, PTL

-----------------------------------------------------------------------------
(* Every step is a step of the promise, or leaves it unchanged. *)
LEMMA StepIsPromised ==
  ASSUME Inv, [Next]_vars
  PROVE  [Promise!Next]_(Promise!vars)
<1> DEFINE A == {c \in Calls : calls[c] = "running"}
<1>0. BreakerOK(breaker) /\ calls \in [Calls -> CallStates]
  BY InvIsBreakerOK DEF Inv, TypeOK
<1>1. ASSUME NEW c \in Calls, CallStarts(c) PROVE [Promise!Next]_(Promise!vars)
  <2>1. c \in Calls \ A /\ A' = A \cup {c}
    BY <1>0, <1>1 DEF CallStarts
  <2>2. breaker' = Asked(breaker) /\ breaker'.state # "open"
    BY <1>1 DEF CallStarts
  <2>3. CASE breaker' = breaker
    BY <2>1, <2>2, <2>3 DEF Promise!Next, Promise!Begins
  <2>4. CASE breaker.state = "open" /\ ~breaker.cooling /\ breaker'.state = "half_open"
    BY <1>0, <2>1, <2>2, <2>4, AskedKeeps DEF Promise!Next, Promise!Probe
  <2> QED
    BY <1>0, <2>2, <2>3, <2>4, AskedKeeps
<1>2. ASSUME NEW c \in Calls, FnSucceeds(c) PROVE [Promise!Next]_(Promise!vars)
  <2>1. A' \subseteq A
    BY <1>0, <1>2 DEF FnSucceeds
  <2> QED
    BY <1>0, <1>2, <2>1, SucceededKeeps DEF FnSucceeds, Promise!Next, Promise!Closes, Promise!Ends
<1>3. ASSUME A' \subseteq A, breaker' = Failed(breaker) PROVE [Promise!Next]_(Promise!vars)
  BY <1>0, <1>3, FailedKeeps DEF Promise!Next, Promise!Opens, Promise!Ends
<1>4. ASSUME A' \subseteq A, breaker' = breaker PROVE [Promise!Next]_(Promise!vars)
  BY <1>4 DEF Promise!Next, Promise!Ends
<1>5. CASE TimeoutPasses
  BY <1>0, <1>5 DEF TimeoutPasses, BreakerOK, Breaker, Promise!Next, Promise!TimeoutPasses
<1>6. ASSUME NEW c \in Calls, FnFails(c) \/ Saved(c) \/ SaveFails(c)
      PROVE  A' \subseteq A /\ (breaker' = breaker \/ breaker' = Failed(breaker))
  BY <1>0, <1>6 DEF FnFails, Saved, SaveFails
<1>7. ASSUME \/ RecordedError \/ OutageStarts \/ OutageEnds \/ UNCHANGED vars
             \/ \E c \in Calls : CallRefused(c)
      PROVE  A' \subseteq A /\ (breaker' = breaker \/ breaker' = Failed(breaker))
  BY <1>7 DEF CallRefused, RecordedError, OutageStarts, OutageEnds, vars
<1> QED
  BY <1>1, <1>2, <1>3, <1>4, <1>5, <1>6, <1>7 DEF Next

(* The breaker of executeWithCircuitBreaker and updateCircuitBreaker        *)
(* implements BreakerPromise: it leaves open only through half open, and no *)
(* call begins between its opening and its timeout.                         *)
THEOREM PromiseKept == Spec => KeepsPromise
<1>1. Init => Promise!Init
  BY DEF Init, NewBreaker, Promise!Init
<1>2. Inv /\ [Next]_vars => [Promise!Next]_(Promise!vars)
  BY StepIsPromised
<1> QED
  BY <1>1, <1>2, Invariant, PTL DEF Spec, KeepsPromise, Promise!Spec
=============================================================================
