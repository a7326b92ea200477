---------------------------- MODULE ErrorRecovery ----------------------------
(***************************************************************************)
(* Error records and their retries                                         *)
(* (apps/api/src/services/universal-error-handling-service.ts and the      *)
(* routes of apps/api/src/routes/universal-error-handling.ts), for errors  *)
(* of one service:operation: recordError with its notification, retry and  *)
(* recovery workflow, manual retries, resolution, and the interval that    *)
(* processes the retry queue and the notifications.                        *)
(*                                                                         *)
(* Every save to Redis is awaited, so each handler is several steps; the   *)
(* saves of different handlers may be answered in any order.  A save that  *)
(* fails where nothing catches the rejection (in the interval, and while   *)
(* the service starts) ends the process: no part of the API handles        *)
(* unhandledRejection.  What a later process loads is not modelled.        *)
(***************************************************************************)
EXTENDS Naturals, SequencesExt

CONSTANTS
    Errors,            \* errors that may be recorded
    Retryable,         \* those classified as retryable
    Network,           \* those of category network or timeout
    Severe,            \* those of severity high or critical
    MaxRetries,        \* getMaxRetries() of a retryable error
    FailureThreshold,  \* of the circuit breaker
    Ticks,             \* runs of the interval that may overlap
    MaxManual,         \* bound: manual retries
    MaxRedisErrors     \* bound: saves that fail

ASSUME RecoveryAssumption ==
    /\ Retryable \subseteq Errors /\ Network \subseteq Errors /\ Severe \subseteq Errors
    /\ MaxRetries \in Nat \ {0} /\ FailureThreshold \in Nat \ {0}
    /\ MaxManual \in Nat /\ MaxRedisErrors \in Nat

VARIABLES
    records,        \* this.errorRecords
    queue,          \* this.retryQueues of the service:operation
    notifications,  \* this.notificationQueue
    breaker,        \* this.circuitBreakers of the service:operation
    flow,           \* where recordError is, for each error
    manual,         \* manual retries that are being saved, for each error
    ticks,          \* what each run of the interval still has to retry
    pushes,         \* retries queued so far, for each error
    alive,          \* whether the process runs
    bounds          \* manual retries and Redis errors so far

vars == <<records, queue, notifications, breaker, flow, manual, ticks, pushes, alive, bounds>>

B == INSTANCE CircuitBreaker WITH
    Calls <- {}, SuccessThreshold <- 1, HalfOpenMaxCalls <- 1, MaxOutages <- 0,
    calls <- <<>>, outage <- TRUE, outages <- 0, probes <- 0

(* An error record: nextRetryAt is undefined, in the future or in the past. *)
Record == [status : {"none", "active", "retrying", "resolved", "failed"},
           retryCount : Nat, nextRetryAt : {"none", "future", "past"}]
NoRecord == [status |-> "none", retryCount |-> 0, nextRetryAt |-> "none"]
NewRecord == [status |-> "active", retryCount |-> 0, nextRetryAt |-> "none"]

(* recordError awaits the save of: the record, the breaker, the record that *)
(* was scheduled ("queueing") and scheduled again by the workflow           *)
(* ("requeueing") or that has no retries left ("exhausted").                *)
FlowStates == {"none", "recorded", "counted", "queueing", "requeueing", "exhausted", "done"}

(* A run of the interval: idle, or saving a record before it goes on. *)
Idle == [busy |-> FALSE, todo |-> <<>>]

Init ==
    /\ records = [e \in Errors |-> NoRecord]
    /\ queue = <<>>
    /\ notifications = [e \in Errors |-> "none"]
    /\ breaker = B!NewBreaker
    /\ flow = [e \in Errors |-> "none"]
    /\ manual = [e \in Errors |-> 0]
    /\ ticks = [t \in Ticks |-> Idle]
    /\ pushes = [e \in Errors |-> 0]
    /\ alive = TRUE
    /\ bounds = [manual |-> 0, errors |-> 0]

(* A step of the process that does not end it. *)
Running == alive /\ alive' = alive

-----------------------------------------------------------------------------
(* scheduleRetry: what it does before and after it saves the record. *)

RetryLimit(e) == IF e \in Retryable THEN MaxRetries ELSE 0

Exhausted(e) == records[e].retryCount >= RetryLimit(e)

Scheduled(e) ==
    IF Exhausted(e) THEN [records[e] EXCEPT !.status = "failed"]
    ELSE [records[e] EXCEPT !.status = "retrying", !.nextRetryAt = "future"]

Push(e) ==
    /\ queue' = Append(queue, e)
    /\ pushes' = [pushes EXCEPT ![e] = @ + 1]

-----------------------------------------------------------------------------
(* recordError. *)

RecordError(e) ==
    /\ Running
    /\ flow[e] = "none"
    /\ records' = [records EXCEPT ![e] = NewRecord]
    /\ flow' = [flow EXCEPT ![e] = "recorded"]
    /\ UNCHANGED <<queue, notifications, breaker, manual, ticks, pushes, bounds>>

RecordSaved(e) ==
    /\ Running
    /\ flow[e] = "recorded"
    /\ breaker' = B!Failed(breaker)
    /\ flow' = [flow EXCEPT ![e] = "counted"]
    /\ UNCHANGED <<records, queue, notifications, manual, ticks, pushes, bounds>>

(* executeRecoveryWorkflow: the workflow for network errors schedules a     *)
(* retry; its second step, a fallback, and its end change nothing here.     *)
Workflow(e) ==
    IF e \in Network
    THEN /\ records' = [records EXCEPT ![e] = Scheduled(e)]
         /\ flow' = [flow EXCEPT ![e] = IF Exhausted(e) THEN "exhausted" ELSE "requeueing"]
    ELSE /\ flow' = [flow EXCEPT ![e] = "done"]
         /\ UNCHANGED records

BreakerSaved(e) ==
    /\ Running
    /\ flow[e] = "counted"
    /\ notifications' = IF e \in Severe THEN [notifications EXCEPT ![e] = "pending"] ELSE notifications
    /\ IF e \in Retryable /\ ~Exhausted(e)
       THEN /\ records' = [records EXCEPT ![e] = Scheduled(e)]
            /\ flow' = [flow EXCEPT ![e] = "queueing"]
       ELSE Workflow(e)
    /\ UNCHANGED <<queue, breaker, manual, ticks, pushes, bounds>>

(* Mutant of ScheduleSaved: the saved record is not queued. *)
ScheduleSavedUnqueued(e) ==
    /\ Running
    /\ flow[e] = "queueing"
    /\ Workflow(e)
    /\ UNCHANGED <<queue, pushes, notifications, breaker, manual, ticks, bounds>>

ScheduleSaved(e) ==
    /\ Running
    /\ flow[e] = "queueing"
    /\ Push(e)
    /\ Workflow(e)
    /\ UNCHANGED <<notifications, breaker, manual, ticks, bounds>>

WorkflowSaved(e) ==
    /\ Running
    /\ flow[e] \in {"requeueing", "exhausted"}
    /\ IF flow[e] = "requeueing" THEN Push(e) ELSE UNCHANGED <<queue, pushes>>
    /\ flow' = [flow EXCEPT ![e] = "done"]
    /\ UNCHANGED <<records, notifications, breaker, manual, ticks, bounds>>

-----------------------------------------------------------------------------
(* The routes. *)

(* POST /errors/:errorId/retry refuses a resolved error. *)
ManualRetry(e) ==
    /\ Running
    /\ records[e].status \notin {"none", "resolved"}
    /\ bounds.manual < MaxManual
    /\ bounds' = [bounds EXCEPT !.manual = @ + 1]
    /\ records' = [records EXCEPT ![e] = Scheduled(e)]
    /\ manual' = IF Exhausted(e) THEN manual ELSE [manual EXCEPT ![e] = @ + 1]
    /\ UNCHANGED <<queue, notifications, breaker, flow, ticks, pushes>>

ManualSaved(e) ==
    /\ Running
    /\ manual[e] > 0
    /\ manual' = [manual EXCEPT ![e] = @ - 1]
    /\ Push(e)
    /\ UNCHANGED <<records, notifications, breaker, flow, ticks, bounds>>

(* POST /errors/:errorId/resolve *)
ResolveError(e) ==
    /\ Running
    /\ records[e].status # "none"
    /\ records' = [records EXCEPT ![e].status = "resolved"]
    /\ UNCHANGED <<queue, notifications, breaker, flow, manual, ticks, pushes, bounds>>

-----------------------------------------------------------------------------
(* The interval: processRetryQueue, then processNotificationQueue. *)

(* One iteration of processRetryQueue, up to its save.  The error is        *)
(* retried even when something else has happened to it since it was found.  *)
(* Mutant of Active: retryCount is set, not incremented. *)
ActiveOnce(r) == [status |-> "active", nextRetryAt |-> "none", retryCount |-> 1]

Active(r) == [status |-> "active", nextRetryAt |-> "none", retryCount |-> r.retryCount + 1]

Retried(e) ==
    /\ records' = [records EXCEPT ![e] = Active(records[e])]
    /\ queue' = RemoveFirst(queue, e)

(* Mutant of Sent: the notifications of the queue are left pending. *)
SentNever(n) == n

Sent(n) == IF n = "pending" THEN "sent" ELSE n

(* The run retries the first error of todo and waits for its save; with     *)
(* nothing left to retry it sends the notifications and ends.               *)
Proceed(t, todo) ==
    IF todo = <<>>
    THEN /\ notifications' = [e \in Errors |-> Sent(notifications[e])]
         /\ ticks' = [ticks EXCEPT ![t] = Idle]
         /\ UNCHANGED <<records, queue>>
    ELSE /\ Retried(Head(todo))
         /\ ticks' = [ticks EXCEPT ![t] = [busy |-> TRUE, todo |-> Tail(todo)]]
         /\ UNCHANGED notifications

TickStarts(t) ==
    /\ Running
    /\ ~ticks[t].busy
    /\ Proceed(t, SelectSeq(queue, LAMBDA e : records[e].nextRetryAt = "past"))
    /\ UNCHANGED <<breaker, flow, manual, pushes, bounds>>

TickSaved(t) ==
    /\ Running
    /\ ticks[t].busy
    /\ Proceed(t, ticks[t].todo)
    /\ UNCHANGED <<breaker, flow, manual, pushes, bounds>>

(* The save fails: the run is left before processNotificationQueue, and the *)
(* rejection of the interval's callback ends the process.                   *)
TickFails(t) ==
    /\ alive /\ ticks[t].busy
    /\ bounds.errors < MaxRedisErrors
    /\ bounds' = [bounds EXCEPT !.errors = @ + 1]
    /\ ticks' = [ticks EXCEPT ![t] = Idle]
    /\ alive' = FALSE
    /\ UNCHANGED <<records, queue, notifications, breaker, flow, manual, pushes>>

-----------------------------------------------------------------------------
(* The environment. *)

(* The delay of a scheduled retry has passed. *)
RetryDue(e) ==
    /\ Running
    /\ records[e].nextRetryAt = "future"
    /\ records' = [records EXCEPT ![e].nextRetryAt = "past"]
    /\ UNCHANGED <<queue, notifications, breaker, flow, manual, ticks, pushes, bounds>>

(* recordError rejects: the route answers 500, but when generateMockData    *)
(* called it at the start, initializeService rejects and the process ends.  *)
RecordFails(e) ==
    /\ flow[e] \in {"recorded", "counted", "queueing"}
    /\ flow' = [flow EXCEPT ![e] = "done"]
    /\ alive' \in BOOLEAN
    /\ UNCHANGED manual

(* executeRecoveryWorkflow catches the error and logs it. *)
WorkflowFails(e) ==
    /\ flow[e] \in {"requeueing", "exhausted"}
    /\ flow' = [flow EXCEPT ![e] = "done"]
    /\ UNCHANGED <<manual, alive>>

(* The route answers 500. *)
ManualFails(e) ==
    /\ manual[e] > 0
    /\ manual' = [manual EXCEPT ![e] = @ - 1]
    /\ UNCHANGED <<flow, alive>>

(* A save outside the interval fails. *)
SaveFails(e) ==
    /\ alive
    /\ bounds.errors < MaxRedisErrors
    /\ bounds' = [bounds EXCEPT !.errors = @ + 1]
    /\ RecordFails(e) \/ WorkflowFails(e) \/ ManualFails(e)
    /\ UNCHANGED <<records, queue, notifications, breaker, ticks, pushes>>

(* The process has ended. *)
Ended == ~alive /\ UNCHANGED vars

Next ==
    \/ \E e \in Errors : \/ RecordError(e) \/ RecordSaved(e) \/ BreakerSaved(e) \/ ScheduleSaved(e)
                         \/ WorkflowSaved(e) \/ ManualRetry(e) \/ ManualSaved(e) \/ ResolveError(e)
                         \/ RetryDue(e) \/ SaveFails(e)
    \/ \E t \in Ticks : TickStarts(t) \/ TickSaved(t) \/ TickFails(t)
    \/ Ended

Spec == Init /\ [][Next]_vars

(* Fairness: Redis answers, delays pass, the interval fires. *)
Fairness ==
    /\ \A e \in Errors : /\ WF_vars(RecordSaved(e)) /\ WF_vars(BreakerSaved(e))
                         /\ WF_vars(ScheduleSaved(e)) /\ WF_vars(WorkflowSaved(e))
                         /\ WF_vars(ManualSaved(e)) /\ WF_vars(RetryDue(e))
    /\ \A t \in Ticks : WF_vars(TickStarts(t)) /\ WF_vars(TickSaved(t))

FairSpec == Spec /\ Fairness

-----------------------------------------------------------------------------
(* Properties. *)

(* The records, the queue and the counters keep their types. *)
TypeOK ==
    /\ records \in [Errors -> Record]
    /\ queue \in Seq(Errors)
    /\ flow \in [Errors -> FlowStates]
    /\ manual \in [Errors -> Nat]
    /\ alive \in BOOLEAN
    /\ bounds \in [manual : Nat, errors : Nat]

(* As long as Redis does not fail, an error that is marked retrying is in   *)
(* the retry queue or is about to be put there, whatever overlapping        *)
(* recordError, manual retries and runs of the interval do to it.           *)
RetryingIsQueued ==
    bounds.errors = 0 =>
        \A e \in Errors : records[e].status = "retrying" =>
            \/ Contains(queue, e)
            \/ flow[e] \in {"queueing", "requeueing"}
            \/ manual[e] > 0

(* No queued retry goes uncounted: what was put in the queue is still there *)
(* or was counted as a retry.  (A retry that two overlapping runs of the    *)
(* interval found is counted twice.)                                        *)
RetriesAreCounted ==
    \A e \in Errors :
        records[e].retryCount + Len(SelectSeq(queue, LAMBDA x : x = e)) >= pushes[e]

(* As long as no save fails, an error does not stay in retrying. *)
RetryHappens ==
    \A e \in Errors :
        records[e].status = "retrying" ~> records[e].status # "retrying" \/ bounds.errors > 0

(* The notification of a severe error is sent, whatever saves of routes and *)
(* workflows fail, unless the process ends: a failing save in the interval  *)
(* takes the notifications in memory with it.                               *)
NotificationsSent ==
    \A e \in Errors : notifications[e] = "pending" ~> notifications[e] = "sent" \/ ~alive

(* "Cannot retry resolved error": an error that was resolved is not retried *)
(* (counted as retried and active again).                                   *)
ResolvedNotRetried ==
    [][\A e \in Errors : records[e].status = "resolved" =>
           records'[e].retryCount = records[e].retryCount]_vars
=============================================================================
