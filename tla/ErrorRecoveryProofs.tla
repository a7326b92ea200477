------------------------ MODULE ErrorRecoveryProofs ------------------------
(***************************************************************************)
(* For any errors, retry limits and number of overlapping runs of the      *)
(* interval: an error that is marked retrying is in the retry queue or is  *)
(* about to be put there.                                                  *)
(***************************************************************************)
EXTENDS ErrorRecovery, TLAPS, WellFoundedInduction, SequenceTheorems

(* A set of naturals that is not empty has its minimum as an element. *)
LEMMA MinIsElement ==
  ASSUME NEW S \in SUBSET Nat, S # {}
  PROVE  Min(S) \in S
<1>1. PICK x \in S : \A y \in S : ~ (<<y, x>> \in OpToRel(<, Nat))
  BY NatLessThanWellFounded, WFMin, Zenon
<1>2. \A y \in Nat : y < x => <<y, x>> \in OpToRel(<, Nat)
  BY Zenon DEF OpToRel
<1>3. \A y \in S : ~ (y < x)
  BY <1>1, <1>2
<1>4. \A y \in S : x <= y
  BY <1>3
<1> QED
  BY <1>4 DEF Min

(* Removing the first e keeps the type and every other element. *)
LEMMA RemoveFirstKeeps ==
  ASSUME NEW S, NEW q \in Seq(S), NEW e
  PROVE  /\ RemoveFirst(q, e) \in Seq(S)
         /\ \A x : x # e /\ Contains(q, x) => Contains(RemoveFirst(q, e), x)
<1>1. CASE ~ \E i \in 1 .. Len(q) : q[i] = e
  BY <1>1 DEF RemoveFirst
<1>2. CASE \E i \in 1 .. Len(q) : q[i] = e
  <2> DEFINE I == {i \in 1 .. Len(q) : q[i] = e}
             k == Min(I)
             a == SubSeq(q, 1, k - 1)
             b == SubSeq(q, k + 1, Len(q))
             r == a \o b
  <2>1. k \in 1 .. Len(q) /\ q[k] = e
    <3>1. I \in SUBSET Nat /\ I # {}
      BY <1>2
    <3>2. k \in I
      BY <3>1, MinIsElement
    <3> QED
      BY <3>2
  <2>2. RemoveFirst(q, e) = r
    BY <1>2 DEF RemoveFirst, RemoveAt, SelectInSeq
  <2> HIDE DEF k
  <2>7. k \in Nat /\ Len(q) \in Nat /\ 1 <= k /\ k <= Len(q)
    BY <2>1
  <2>3. /\ a \in Seq(S) /\ Len(a) = k - 1 /\ b \in Seq(S) /\ Len(b) = Len(q) - k
        /\ \A i \in 1 .. k - 1 : a[i] = q[i]
        /\ \A i \in 1 .. Len(q) - k : b[i] = q[k + i]
    BY <2>1
  <2> HIDE DEF a, b
  <2>4. r \in Seq(S) /\ Len(r) = Len(q) - 1
    <3>1. r \in Seq(S) /\ Len(r) = Len(a) + Len(b)
      BY <2>3, ConcatProperties
    <3> QED
      BY <2>7, <2>3, <3>1
  <2>5. /\ \A i \in 1 .. k - 1 : r[i] = q[i]
        /\ \A i \in k .. Len(q) - 1 : r[i] = q[i + 1]
    <3>1. \A i \in 1 .. k - 1 : r[i] = a[i]
      BY <2>7, <2>3
    <3>2. \A i \in k .. Len(q) - 1 : r[i] = b[i - (k - 1)] /\ i - (k - 1) \in 1 .. Len(q) - k
      BY <2>7, <2>3
    <3>3. \A i \in k .. Len(q) - 1 : k + (i - (k - 1)) = i + 1
      BY <2>7
    <3> QED
      BY <2>3, <3>1, <3>2, <3>3
  <2> HIDE DEF r
  <2>6. ASSUME NEW i \in 1 .. Len(q), i # k
        PROVE  \E j \in 1 .. Len(r) : r[j] = q[i]
    <3>1. CASE i < k
      BY <2>1, <2>4, <2>5, <3>1
    <3>2. CASE i > k
      <4>1. PICK j \in Nat : j + 1 = i
        BY <2>1, <3>2
      <4>2. j \in k .. Len(q) - 1
        BY <2>7, <3>2, <4>1
      <4>3. j \in 1 .. Len(r) /\ r[j] = q[i]
        BY <2>4, <2>5, <2>7, <4>1, <4>2, SMTT(30)
      <4> QED
        BY <4>3
    <3> QED
      BY <2>1, <2>6, <3>1, <3>2
  <2> QED
    BY <2>1, <2>2, <2>4, <2>6 DEF Contains
<1> QED
  BY <1>1, <1>2

LEMMA AppendKeeps ==
  ASSUME NEW S, NEW q \in Seq(S), NEW e \in S
  PROVE  /\ Append(q, e) \in Seq(S) /\ Contains(Append(q, e), e)
         /\ \A x : Contains(q, x) => Contains(Append(q, e), x)
  BY DEF Contains

-----------------------------------------------------------------------------
(* The invariant: the types and the property itself. *)

QueueInv == TypeOK /\ RetryingIsQueued

Waiting(e) == Contains(queue, e) \/ flow[e] \in {"queueing", "requeueing"} \/ manual[e] > 0

LEMMA QueuedMeaning ==
  RetryingIsQueued <=>
    (bounds.errors = 0 => \A e \in Errors : records[e].status = "retrying" => Waiting(e))
  BY DEF RetryingIsQueued, Waiting

LEMMA ScheduledType ==
  ASSUME TypeOK, NEW e \in Errors
  PROVE  /\ Scheduled(e) \in Record
         /\ Scheduled(e).status = "retrying" => ~Exhausted(e)
  BY DEF TypeOK, Scheduled, Record

(* The workflow either leaves the records alone or schedules the error. *)
LEMMA WorkflowStep ==
  ASSUME TypeOK, NEW e \in Errors, Workflow(e)
  PROVE  /\ records' \in [Errors -> Record] /\ flow' \in [Errors -> FlowStates]
         /\ \A x \in Errors : x # e => records'[x] = records[x] /\ flow'[x] = flow[x]
         /\ records'[e] = records[e] \/ records'[e].status # "retrying" \/ flow'[e] = "requeueing"
<1>1. CASE e \in Network
  BY <1>1, ScheduledType DEF TypeOK, Workflow, FlowStates
<1>2. CASE e \notin Network
  BY <1>2 DEF TypeOK, Workflow, FlowStates
<1> QED
  BY <1>1, <1>2

(* What an action has to show: other errors wait as before, and the ones it *)
(* marks retrying wait.                                                     *)
LEMMA Keeps ==
  ASSUME QueueInv, TypeOK', bounds'.errors = 0 => bounds.errors = 0,
         bounds'.errors = 0 =>
            \A x \in Errors : records'[x].status = "retrying" =>
                \/ Waiting(x)'
                \/ records[x].status = "retrying" /\ (Waiting(x) => Waiting(x)')
  PROVE  QueueInv'
<1>1. bounds'.errors = 0 => \A x \in Errors : records'[x].status = "retrying" => Waiting(x)'
  BY QueuedMeaning DEF QueueInv
<1>2. RetryingIsQueued' <=>
        (bounds'.errors = 0 => \A e \in Errors : records'[e].status = "retrying" => Waiting(e)')
  BY QueuedMeaning DEF RetryingIsQueued, Waiting
<1> QED
  BY <1>1, <1>2 DEF QueueInv

LEMMA PushStep ==
  ASSUME TypeOK, NEW e \in Errors, Push(e)
  PROVE  /\ queue' \in Seq(Errors) /\ Contains(queue', e)
         /\ \A x : Contains(queue, x) => Contains(queue', x)
  BY AppendKeeps DEF TypeOK, Push

LEMMA FlowSteps ==
  ASSUME QueueInv, NEW e \in Errors,
         \/ RecordError(e) \/ RecordSaved(e) \/ BreakerSaved(e) \/ ScheduleSaved(e)
         \/ WorkflowSaved(e)
  PROVE  QueueInv'
<1>0. TypeOK
  BY DEF QueueInv
<1>a. alive' = alive
  BY DEF RecordError, RecordSaved, BreakerSaved, ScheduleSaved, WorkflowSaved, Running
<1>1. CASE RecordError(e)
  <2>1. TypeOK'
    BY <1>0, <1>a, <1>1 DEF TypeOK, RecordError, NewRecord, Record, FlowStates
  <2>2. \A x \in Errors : records'[x].status = "retrying" =>
           records[x].status = "retrying" /\ (Waiting(x) => Waiting(x)')
    BY <1>0, <1>1 DEF TypeOK, RecordError, NewRecord, Waiting
  <2> QED
    BY <1>1, <2>1, <2>2, Keeps DEF RecordError
<1>2. CASE RecordSaved(e)
  <2>1. TypeOK'
    BY <1>0, <1>a, <1>2 DEF TypeOK, RecordSaved, FlowStates
  <2>2. \A x \in Errors : Waiting(x) => Waiting(x)'
    BY <1>0, <1>2 DEF TypeOK, RecordSaved, Waiting
  <2> QED
    BY <1>2, <2>1, <2>2, Keeps DEF RecordSaved
<1>3. CASE BreakerSaved(e)
  <2>1. CASE e \in Retryable /\ ~Exhausted(e)
    <3>1. TypeOK' /\ flow'[e] = "queueing"
      BY <1>0, <1>a, <1>3, <2>1, ScheduledType DEF TypeOK, BreakerSaved, FlowStates
    <3>2. \A x \in Errors : x # e => records'[x] = records[x] /\ (Waiting(x) => Waiting(x)')
      BY <1>0, <1>3, <2>1 DEF TypeOK, BreakerSaved, Waiting
    <3> QED
      BY <1>3, <3>1, <3>2, Keeps DEF BreakerSaved, Waiting
  <2>2. CASE ~ (e \in Retryable /\ ~Exhausted(e))
    <3>0. Workflow(e) /\ UNCHANGED <<queue, manual, bounds>> /\ flow[e] = "counted"
      BY <1>3, <2>2 DEF BreakerSaved
    <3>1. TypeOK'
      BY <1>0, <1>a, <3>0, WorkflowStep DEF TypeOK
    <3>2. \A x \in Errors : Waiting(x) => Waiting(x)'
      BY <1>0, <3>0, WorkflowStep DEF Waiting
    <3>3. \A x \in Errors : records'[x] = records[x] \/ records'[x].status # "retrying" \/ Waiting(x)'
      BY <1>0, <3>0, WorkflowStep DEF Waiting
    <3> QED
      BY <3>0, <3>1, <3>2, <3>3, Keeps
  <2> QED
    BY <2>1, <2>2
<1>4. CASE ScheduleSaved(e)
  <2>0. Workflow(e) /\ Push(e) /\ UNCHANGED <<manual, bounds>>
    BY <1>4 DEF ScheduleSaved
  <2>1. TypeOK'
    BY <1>0, <1>a, <2>0, WorkflowStep, PushStep DEF TypeOK
  <2>2. \A x \in Errors : x # e => records'[x] = records[x] /\ (Waiting(x) => Waiting(x)')
    BY <1>0, <2>0, WorkflowStep, PushStep DEF Waiting
  <2>3. Waiting(e)'
    BY <1>0, <2>0, PushStep DEF Waiting
  <2> QED
    BY <2>0, <2>1, <2>2, <2>3, Keeps
<1>5. CASE WorkflowSaved(e)
  <2>0. /\ UNCHANGED <<records, manual, bounds>> /\ flow' = [flow EXCEPT ![e] = "done"]
        /\ \/ Push(e)
           \/ flow[e] = "exhausted" /\ queue' = queue
    BY <1>5 DEF WorkflowSaved
  <2>1. TypeOK'
    BY <1>0, <1>a, <2>0, PushStep DEF TypeOK, FlowStates
  <2>2. \A x \in Errors : Waiting(x) => Waiting(x)'
    <3>1. CASE Push(e)
      BY <1>0, <2>0, <3>1, PushStep DEF TypeOK, Waiting
    <3>2. CASE flow[e] = "exhausted" /\ queue' = queue
      BY <1>0, <2>0, <3>2 DEF TypeOK, Waiting
    <3> QED
      BY <2>0, <3>1, <3>2
  <2> QED
    BY <2>0, <2>1, <2>2, Keeps
<1> QED
  BY <1>1, <1>2, <1>3, <1>4, <1>5

LEMMA RouteSteps ==
  ASSUME QueueInv, NEW e \in Errors,
         ManualRetry(e) \/ ManualSaved(e) \/ ResolveError(e) \/ RetryDue(e) \/ SaveFails(e)
  PROVE  QueueInv'
<1>0. TypeOK
  BY DEF QueueInv
<1>1. CASE ManualRetry(e)
  <2>0. bounds.manual + 1 \in Nat /\ manual[e] + 1 \in Nat /\ manual[e] + 1 > 0
    BY <1>0 DEF TypeOK
  <2>1. TypeOK'
    BY <1>0, <1>1, <2>0, ScheduledType DEF TypeOK, ManualRetry, Running
  <2>2. \A x \in Errors : Waiting(x) => Waiting(x)'
    BY <1>0, <1>1, <2>0 DEF TypeOK, ManualRetry, Waiting
  <2>3. \A x \in Errors : x # e => records'[x] = records[x]
    BY <1>0, <1>1 DEF TypeOK, ManualRetry
  <2>4. records'[e].status = "retrying" => Waiting(e)'
    BY <1>0, <1>1, <2>0, ScheduledType DEF TypeOK, ManualRetry, Waiting
  <2>5. bounds'.errors = bounds.errors
    BY <1>0, <1>1 DEF TypeOK, ManualRetry
  <2> QED
    BY <2>1, <2>2, <2>3, <2>4, <2>5, Keeps
<1>2. CASE ManualSaved(e)
  <2>0. Push(e) /\ UNCHANGED <<records, flow, bounds>> /\ manual[e] - 1 \in Nat
    BY <1>0, <1>2 DEF TypeOK, ManualSaved
  <2>1. TypeOK'
    BY <1>0, <1>2, <2>0, PushStep DEF TypeOK, ManualSaved, Running
  <2>2. \A x \in Errors : Waiting(x) => Waiting(x)'
    BY <1>0, <1>2, <2>0, PushStep DEF TypeOK, ManualSaved, Waiting
  <2> QED
    BY <2>0, <2>1, <2>2, Keeps
<1>3. CASE ResolveError(e) \/ RetryDue(e)
  <2> DEFINE resolved == [records[e] EXCEPT !.status = "resolved"]
             due == [records[e] EXCEPT !.nextRetryAt = "past"]
  <2>a. records[e] \in Record
    BY <1>0 DEF TypeOK
  <2>b. /\ resolved \in Record /\ resolved.status = "resolved"
        /\ due \in Record /\ due.status = records[e].status
    BY <2>a DEF Record
  <2>c. records' = [records EXCEPT ![e] = resolved] \/ records' = [records EXCEPT ![e] = due]
    BY <1>3 DEF ResolveError, RetryDue
  <2> HIDE DEF resolved, due
  <2>3. UNCHANGED <<queue, flow, manual, alive, bounds>>
    BY <1>3 DEF ResolveError, RetryDue, Running
  <2>1. TypeOK'
    BY <1>0, <2>b, <2>c, <2>3 DEF TypeOK
  <2>2. \A x \in Errors : records'[x].status = "retrying" => records[x].status = "retrying"
    BY <1>0, <2>b, <2>c DEF TypeOK
  <2> QED
    BY <2>1, <2>2, <2>3, Keeps DEF Waiting
<1>4. CASE SaveFails(e)
  <2>1. bounds.errors + 1 \in Nat /\ bounds.errors + 1 # 0 /\ (manual[e] > 0 => manual[e] - 1 \in Nat)
    BY <1>0 DEF TypeOK
  <2>0. /\ UNCHANGED <<records, queue>>
        /\ bounds' = [bounds EXCEPT !.errors = @ + 1]
        /\ flow' = flow \/ flow' = [flow EXCEPT ![e] = "done"]
        /\ \/ manual' = manual
           \/ manual[e] > 0 /\ manual' = [manual EXCEPT ![e] = @ - 1]
        /\ alive' = alive \/ alive' \in BOOLEAN
    BY <1>4 DEF SaveFails, RecordFails, WorkflowFails, ManualFails
  <2>2. TypeOK'
    <3>1. flow' \in [Errors -> FlowStates]
      BY <1>0, <2>0 DEF TypeOK, FlowStates
    <3>2. manual' \in [Errors -> Nat]
      BY <1>0, <2>0, <2>1 DEF TypeOK
    <3>3. bounds' \in [manual : Nat, errors : Nat]
      BY <1>0, <2>0, <2>1 DEF TypeOK
    <3>4. alive' \in BOOLEAN
      BY <1>0, <2>0 DEF TypeOK
    <3> QED
      BY <1>0, <2>0, <3>1, <3>2, <3>3, <3>4 DEF TypeOK
  <2>3. bounds'.errors # 0
    BY <1>0, <2>0, <2>1 DEF TypeOK
  <2> QED
    BY <2>2, <2>3, Keeps
<1> QED
  BY <1>1, <1>2, <1>3, <1>4

(* A run of the interval retries errors that it found some time ago: it     *)
(* makes the first one active and takes one entry of it from the queue.     *)
LEMMA TickSteps ==
  ASSUME QueueInv, NEW t, NEW todo, Proceed(t, todo), UNCHANGED <<flow, manual, alive, bounds>>
  PROVE  QueueInv'
<1>0. TypeOK
  BY DEF QueueInv
<1>1. CASE todo = <<>>
  <2>1. UNCHANGED <<records, queue>>
    BY <1>1 DEF Proceed
  <2> QED
    BY <1>0, <2>1, Keeps DEF TypeOK, Waiting
<1>2. CASE todo # <<>>
  <2> DEFINE e == Head(todo)
  <2>1. /\ records' = [records EXCEPT ![e] = Active(records[e])]
        /\ queue' = RemoveFirst(queue, e)
    BY <1>2 DEF Proceed, Retried
  <2> HIDE DEF e
  <2>2. e \in Errors => Active(records[e]) \in Record
    <3>1. e \in Errors => records[e].retryCount + 1 \in Nat
      BY <1>0 DEF TypeOK, Record
    <3> QED
      BY <3>1 DEF Active, Record
  <2>3. queue' \in Seq(Errors) /\ \A x : x # e /\ Contains(queue, x) => Contains(queue', x)
    BY <1>0, <2>1, RemoveFirstKeeps DEF TypeOK
  <2>4. TypeOK'
    BY <1>0, <2>1, <2>2, <2>3 DEF TypeOK
  <2>5. \A x \in Errors : IF x = e THEN records'[x].status = "active" ELSE records'[x] = records[x]
    BY <1>0, <2>1 DEF TypeOK, Active
  <2>6. \A x \in Errors : x # e /\ Waiting(x) => Waiting(x)'
    BY <2>3 DEF Waiting
  <2> QED
    BY <2>4, <2>5, <2>6, Keeps
<1> QED
  BY <1>1, <1>2

(* A failing save of the interval changes nothing that the invariant is     *)
(* about but the count of Redis errors and the end of the process.          *)
LEMMA TickFailsStep ==
  ASSUME QueueInv, NEW t, TickFails(t)
  PROVE  QueueInv'
<1>1. TypeOK /\ bounds.errors + 1 \in Nat /\ bounds.errors + 1 # 0
  BY DEF QueueInv, TypeOK
<1>2. UNCHANGED <<records, queue, flow, manual>> /\ alive' \in BOOLEAN
  BY DEF TickFails
<1>3. bounds' \in [manual : Nat, errors : Nat] /\ bounds'.errors # 0
  BY <1>1 DEF TypeOK, TickFails
<1>4. TypeOK'
  BY <1>1, <1>2, <1>3 DEF TypeOK
<1> QED
  BY <1>3, <1>4, Keeps

(* Whatever the number of errors, of overlapping runs of the interval and   *)
(* of manual retries: without a Redis failure, scheduleRetry and            *)
(* processRetryQueue never lose an error that is marked retrying.           *)
THEOREM RetriesAreNotLost == Spec => [](TypeOK /\ RetryingIsQueued)
<1>1. Init => QueueInv
  <2> SUFFICES ASSUME Init PROVE QueueInv
    OBVIOUS
  <2>1. TypeOK
    BY DEF Init, TypeOK, NoRecord, Record, FlowStates
  <2>2. RetryingIsQueued
    BY DEF Init, RetryingIsQueued, NoRecord
  <2> QED
    BY <2>1, <2>2 DEF QueueInv
<1>2. QueueInv /\ [Next]_vars => QueueInv'
  <2> SUFFICES ASSUME QueueInv, [Next]_vars PROVE QueueInv'
    OBVIOUS
  <2>1. CASE \E e \in Errors : \/ RecordError(e) \/ RecordSaved(e) \/ BreakerSaved(e)
                               \/ ScheduleSaved(e) \/ WorkflowSaved(e)
    BY <2>1, FlowSteps
  <2>2. CASE \E e \in Errors : ManualRetry(e) \/ ManualSaved(e) \/ ResolveError(e) \/ RetryDue(e) \/ SaveFails(e)
    BY <2>2, RouteSteps
  <2>3. CASE \E t \in Ticks : TickStarts(t) \/ TickSaved(t)
    <3>1. PICK t \in Ticks : TickStarts(t) \/ TickSaved(t)
      BY <2>3
    <3>2. UNCHANGED <<flow, manual, alive, bounds>> /\ \E todo : Proceed(t, todo)
      BY <3>1, Zenon DEF TickStarts, TickSaved, Running
    <3> QED
      BY <3>2, TickSteps
  <2>4. CASE \E t \in Ticks : TickFails(t)
    BY <2>4, TickFailsStep
  <2>5. CASE UNCHANGED vars
    BY <2>5 DEF vars, QueueInv, TypeOK, RetryingIsQueued
  <2> QED
    BY <2>1, <2>2, <2>3, <2>4, <2>5 DEF Next, Ended
<1>3. QueueInv => TypeOK /\ RetryingIsQueued
  BY DEF QueueInv
<1> QED
  BY <1>1, <1>2, <1>3, PTL DEF Spec
=============================================================================
