--------------------------- MODULE SyncEngineProofs ---------------------------
(***************************************************************************)
(* Proofs about SyncEngine, for any jobs, executions and bounds.  IInv is  *)
(* the inductive invariant.                                                *)
(***************************************************************************)
EXTENDS SyncEngine, SequenceTheorems, TLAPS

LoopPc == {"starting", "conflict", "target", "source"}

(* A queue of commands: the service of the routes loads only when it        *)
(* starts, and before anything else; no saved list holds a job that has not *)
(* been created.                                                            *)
QueueOK(q, ph, used) ==
    /\ q \in Seq(Command)
    /\ ph = "loading" => q # <<>> /\ q[1].load /\ q[1].from = "routes"
    /\ \A i \in 1 .. Len(q) :
           q[i].load => q[i].by = Boot /\ (q[i].from = "routes" => i = 1 /\ ph = "loading")
    /\ \A i \in 1 .. Len(q) : \A j \in Jobs \ used : q[i].jobs[j] = "none"

(* Jobs that an execution names, a service holds or Redis holds were        *)
(* created.                                                                 *)
JobsKnown ==
    /\ \A x \in Execs : execs[x].pc # "new" => execs[x].job \in bounds.used
    /\ \A j \in Jobs \ bounds.used : jobs[j] = "none" /\ hookJobs[j] = "none" /\ store[j] = "none"

(* What a starting service reads is not what requests work on meanwhile. *)
LoadIsNew ==
    phase = "loading" =>
        \A j \in Jobs : store[j] # "none" =>
            jobs[j] = "none" /\ \A x \in Execs : Looping(x) => execs[x].job # j

(* The job of an execution under way is marked running, or deleted. *)
LoopingIsRunning ==
    bounds.puts = 0 /\ bounds.errors = 0 =>
        \A x \in Execs : Looping(x) => jobs[execs[x].job] \in {"running", "none"}

(* Counting has not begun before the first save is answered. *)
StartsAtZero ==
    \A x \in Execs : execs[x].pc = "starting" =>
        /\ execs[x].successful = 0 /\ execs[x].failed = 0
        /\ execs[x].skipped = 0 /\ execs[x].conflicts = 0

FirstStartIsEmpty == phase = "loading" /\ Faults = 0 => store = NoJobs

IInv ==
    /\ TypeOK
    /\ QueueOK(pending, phase, bounds.used)
    /\ JobsKnown
    /\ LoadIsNew
    /\ LoopingIsRunning
    /\ FirstStartIsEmpty
    /\ StartsAtZero
    /\ RecordsAccounted
    /\ ExclusiveExecutions
    /\ StoreCatchesUp
    /\ RunningIsExecuted

-----------------------------------------------------------------------------
(* A saved list of known jobs may join a queue. *)
LEMMA QueueAppend ==
    ASSUME NEW q, NEW ph, NEW used, QueueOK(q, ph, used), NEW c \in Command, ~c.load,
           \A j \in Jobs \ used : c.jobs[j] = "none"
    PROVE  QueueOK(Append(q, c), ph, used)
<1>1. q \in Seq(Command)
  BY DEF QueueOK
<1>2. /\ Append(q, c) \in Seq(Command) /\ Append(q, c) # <<>> /\ Len(Append(q, c)) = Len(q) + 1
      /\ \A i \in 1 .. Len(q) : Append(q, c)[i] = q[i]
      /\ Append(q, c)[Len(q) + 1] = c
  BY <1>1, AppendProperties
<1>3. Len(q) \in Nat
  BY <1>1, LenProperties
<1> DEFINE r == Append(q, c)
<1> HIDE DEF r
<1>4. ph = "loading" => r[1].load /\ r[1].from = "routes"
  <2> SUFFICES ASSUME ph = "loading" PROVE r[1].load /\ r[1].from = "routes"
    OBVIOUS
  <2>1. q # <<>> /\ q[1].load /\ q[1].from = "routes"
    BY DEF QueueOK
  <2>2. Len(q) # 0
    BY <1>1, <2>1, EmptySeq
  <2>3. 1 \in 1 .. Len(q)
    BY <1>3, <2>2
  <2>4. r[1] = q[1]
    BY <1>2, <2>3 DEF r
  <2>5. q[1] \in Command
    BY <1>1, <2>3, ElementOfSeq
  <2> QED
    BY <2>1, <2>4, <2>5 DEF Command
<1>5. \A i \in 1 .. Len(Append(q, c)) : i \in 1 .. Len(q) \/ i = Len(q) + 1
  BY <1>2, <1>3
<1>6. \A i \in 1 .. Len(r) : r[i] = c \/ (i \in 1 .. Len(q) /\ r[i] = q[i])
  BY <1>2, <1>5 DEF r
<1>7. \A i \in 1 .. Len(r) :
        r[i].load => r[i].by = Boot /\ (r[i].from = "routes" => i = 1 /\ ph = "loading")
  BY <1>6 DEF QueueOK
<1>8. ASSUME NEW i \in 1 .. Len(r), NEW j \in Jobs \ used PROVE r[i].jobs[j] = "none"
  <2>1. CASE r[i] = c
    BY <2>1
  <2>2. CASE i \in 1 .. Len(q) /\ r[i] = q[i]
    BY <2>2 DEF QueueOK
  <2> QED
    BY <1>6, <2>1, <2>2
<1> QED
  BY <1>2, <1>4, <1>7, <1>8 DEF QueueOK, r

(* A queue without its first command: if that was the load of the routes,   *)
(* their service has loaded.                                                *)
LEMMA QueueTail ==
    ASSUME NEW q, NEW ph, NEW used, QueueOK(q, ph, used), q # <<>>
    PROVE  /\ Head(q) = q[1] /\ q[1] \in Command
           /\ Tail(q) \in Seq(Command) /\ Len(Tail(q)) = Len(q) - 1 /\ Len(q) \in Nat \ {0}
           /\ \A i \in 1 .. Len(Tail(q)) : Tail(q)[i] = q[i + 1]
           /\ Head(q).load => Head(q).by = Boot
           /\ ~Head(q).load \/ Head(q).from # "routes" => QueueOK(Tail(q), ph, used) /\ ph # "loading"
           /\ Head(q).load /\ Head(q).from = "routes" => QueueOK(Tail(q), "loaded", used) /\ ph = "loading"
<1>1. q \in Seq(Command)
  BY DEF QueueOK
<1>2. /\ Tail(q) \in Seq(Command) /\ Len(Tail(q)) = Len(q) - 1
      /\ \A i \in 1 .. Len(Tail(q)) : Tail(q)[i] = q[i + 1]
  BY <1>1, HeadTailProperties
<1>3. Len(q) \in Nat \ {0}
  BY <1>1, EmptySeq, LenProperties
<1>4. Head(q) = q[1] /\ q[1] \in Command
  BY <1>1, <1>3, ElementOfSeq
<1>5. \A i \in 1 .. Len(Tail(q)) : i + 1 \in 1 .. Len(q) /\ i + 1 # 1
  BY <1>2, <1>3
<1> DEFINE r == Tail(q)
<1> HIDE DEF r
<1>6. \A i \in 1 .. Len(r) : i + 1 \in 1 .. Len(q) /\ i + 1 # 1 /\ r[i] = q[i + 1]
  BY <1>2, <1>5 DEF r
<1>7. \A i \in 1 .. Len(r) : r[i].load => r[i].by = Boot /\ r[i].from # "routes"
  <2> SUFFICES ASSUME NEW i \in 1 .. Len(r), r[i].load PROVE r[i].by = Boot /\ r[i].from # "routes"
    OBVIOUS
  <2>1. i + 1 \in 1 .. Len(q) /\ i + 1 # 1 /\ r[i] = q[i + 1]
    BY <1>6
  <2> QED
    BY <2>1 DEF QueueOK
<1>8. \A i \in 1 .. Len(r) : \A j \in Jobs \ used : r[i].jobs[j] = "none"
  BY <1>6 DEF QueueOK
<1>9. /\ ~q[1].load \/ q[1].from # "routes" => ph # "loading"
      /\ q[1].load => q[1].by = Boot
      /\ q[1].load /\ q[1].from = "routes" => ph = "loading"
  BY <1>3 DEF QueueOK
<1>10. \A p : p # "loading" => QueueOK(r, p, used)
  BY <1>2, <1>7, <1>8 DEF QueueOK, r
<1> QED
  BY <1>2, <1>3, <1>4, <1>9, <1>10 DEF r

-----------------------------------------------------------------------------
(* The state of one execution after a step of its loop. *)
RanTo(x, f) ==
    /\ execs' = [execs EXCEPT ![x] = f]
    /\ f \in Exec /\ f.job = execs[x].job /\ f.pc \notin {"new", "starting"} /\ Accounted(f)
    /\ f.pc \in LoopPc => Looping(x)

(* What it does to its job: nothing, or it ends and marks it. *)
MarksJob(x, f) ==
    \/ /\ jobs' = jobs
       /\ Looping(x) /\ f.pc \notin LoopPc => jobs[f.job] = "none" \/ bounds'.errors # 0
    \/ /\ jobs[f.job] # "none" /\ f.pc \notin LoopPc
       /\ jobs' = [jobs EXCEPT ![f.job] = "idle"]
       /\ Looping(x) \/ bounds'.errors # 0

(* What it does to the queue q. *)
Queues(x, q) ==
    \/ pending' = q /\ jobs' = jobs
    \/ Persist(q, jobs', x)

Ran(x, q) == \E f \in Exec : RanTo(x, f) /\ MarksJob(x, f) /\ Queues(x, q)

(* A forgotten execution is an execution with nothing to account for. *)
LEMMA ForgottenOK ==
    ASSUME NEW e \in Exec
    PROVE  /\ Forgotten(e) \in Exec /\ Forgotten(e).job = e.job
           /\ Forgotten(e).pc = "done" /\ Accounted(Forgotten(e))
<1> DEFINE h == Forgotten(e)
<1>1. e.job \in Jobs \cup {None}
  BY DEF Exec
<1>2. NewExec \in Exec
  BY DEF NewExec, Exec
<1>3. h \in Exec
  BY <1>1, <1>2, Zenon DEF Forgotten, Exec
<1>4. /\ h.pc = "done" /\ h.job = e.job /\ h.total = 0 /\ h.successful = 0 /\ h.failed = 0
      /\ h.skipped = 0 /\ h.conflicts = 0 /\ h.todo = 0
  BY DEF Forgotten, NewExec
<1> HIDE DEF h
<1>5. Accounted(h)
  BY <1>4 DEF Accounted, Counted
<1> QED
  BY <1>3, <1>4, <1>5 DEF h

(* Finish is such a step. *)
LEMMA FinishRuns ==
    ASSUME TypeOK, NEW x \in Execs, NEW q, NEW e \in Exec, e.job = execs[x].job,
           e.total = Counted(e), Looping(x) \/ bounds'.errors # 0,
           NEW outcome \in {"completed", "failed"}, Finish(x, e, q, outcome)
    PROVE  Ran(x, q)
<1>1. CASE jobs[e.job] = "none"
  <2> DEFINE f == Forgotten(execs[x])
  <2>1. f \in Exec /\ f.job = e.job /\ f.pc = "done" /\ Accounted(f)
    BY ForgottenOK DEF TypeOK
  <2>2. execs' = [execs EXCEPT ![x] = f] /\ pending' = q /\ jobs' = jobs
    BY <1>1 DEF Finish, Ended
  <2> HIDE DEF f
  <2>3. RanTo(x, f)
    BY <2>1, <2>2 DEF RanTo, LoopPc
  <2>4. MarksJob(x, f)
    BY <1>1, <2>1, <2>2 DEF MarksJob
  <2> QED
    BY <2>1, <2>2, <2>3, <2>4 DEF Ran, Queues
<1>2. CASE jobs[e.job] # "none"
  <2> DEFINE f == [e EXCEPT !.pc = IF outcome = "completed" THEN "completing" ELSE "failing",
                            !.status = outcome]
  <2>1. /\ f \in Exec /\ f.job = e.job /\ f.pc \in {"completing", "failing"}
        /\ f.total = e.total /\ Counted(f) = Counted(e)
    BY Zenon DEF Exec, Counted
  <2>2. execs' = [execs EXCEPT ![x] = f] /\ Persist(q, jobs', x) /\ jobs' = [jobs EXCEPT ![e.job] = "idle"]
    BY <1>2 DEF Finish
  <2>3. f.total \in Nat
    BY <2>1 DEF Exec
  <2> HIDE DEF f
  <2>4. Accounted(f)
    BY <2>1, <2>3 DEF Accounted
  <2>5. RanTo(x, f)
    BY <2>1, <2>2, <2>4 DEF RanTo, LoopPc
  <2>6. MarksJob(x, f)
    BY <1>2, <2>1, <2>2, Zenon DEF MarksJob, LoopPc
  <2> QED
    BY <2>1, <2>2, <2>5, <2>6 DEF Ran, Queues
<1> QED
  BY <1>1, <1>2

(* So is Advance: records that are skipped, failed or taken stay accounted. *)
LEMMA AdvanceRuns ==
    ASSUME TypeOK, NEW x \in Execs, NEW q, NEW e \in Exec, e.job = execs[x].job, e.total = Counted(e),
           Looping(x), Advance(x, e, q)
    PROVE  Ran(x, q)
<1>1. PICK skip \in 0 .. e.todo, fail \in 0 .. e.todo :
        /\ skip + fail <= e.todo
        /\ LET f == Passed(e, skip, fail)
           IN IF f.todo = 0 THEN Finish(x, f, q, "completed")
              ELSE /\ UNCHANGED jobs
                   /\ \/ /\ execs' = [execs EXCEPT ![x] = Taken(f, "conflict")]
                         /\ Persist(q, jobs, x)
                      \/ /\ execs' = [execs EXCEPT ![x] = Taken(f, "target")]
                         /\ pending' = q
  BY DEF Advance
<1> DEFINE f == Passed(e, skip, fail)
<1>2. /\ e.todo \in Nat /\ e.skipped \in Nat /\ e.failed \in Nat /\ e.successful \in Nat
      /\ e.conflicts \in Nat /\ e.total \in Nat
  BY DEF Exec
<1>3. e.skipped + skip \in Nat /\ e.failed + fail \in Nat /\ e.todo - (skip + fail) \in Nat
  BY <1>1, <1>2
<1>4. /\ f \in Exec /\ f.job = e.job /\ f.total = e.total
      /\ f.skipped = e.skipped + skip /\ f.failed = e.failed + fail
      /\ f.todo = e.todo - (skip + fail)
      /\ f.successful = e.successful /\ f.conflicts = e.conflicts
  BY <1>3, Zenon DEF Passed, Exec
<1>5. f.total = Counted(f)
  BY <1>1, <1>2, <1>4 DEF Counted
<1> HIDE DEF f
<1>6. CASE f.todo = 0
  BY <1>1, <1>4, <1>5, <1>6, FinishRuns DEF f
<1>7. ASSUME f.todo # 0, NEW pc \in {"conflict", "target"},
             execs' = [execs EXCEPT ![x] = Taken(f, pc)], jobs' = jobs,
             Queues(x, q)
      PROVE  Ran(x, q)
  <2> DEFINE g == Taken(f, pc)
  <2>1. f.todo - 1 \in Nat
    BY <1>3, <1>4, <1>7
  <2>2. /\ g \in Exec /\ g.job = f.job /\ g.total = f.total /\ g.pc = pc /\ g.todo = f.todo - 1
        /\ g.skipped = f.skipped /\ g.failed = f.failed
        /\ g.successful = f.successful /\ g.conflicts = f.conflicts
    BY <1>4, <2>1, Zenon DEF Taken, Exec
  <2> HIDE DEF g
  <2>3. /\ f.todo \in Nat /\ f.skipped \in Nat /\ f.failed \in Nat /\ f.successful \in Nat
        /\ f.conflicts \in Nat /\ f.total \in Nat
    BY <1>4 DEF Exec
  <2>4. g.total = Counted(g) + 1
    BY <1>5, <2>2, <2>3 DEF Counted
  <2>5. RanTo(x, g)
    BY <1>4, <1>7, <2>2, <2>4 DEF RanTo, Accounted, g
  <2>6. MarksJob(x, g)
    BY <1>7, <2>2 DEF MarksJob, LoopPc
  <2> QED
    BY <1>7, <2>2, <2>5, <2>6 DEF Ran
<1>8. CASE f.todo # 0
  <2>1. jobs' = jobs
    BY <1>1, <1>8 DEF f
  <2>2. CASE execs' = [execs EXCEPT ![x] = Taken(f, "conflict")] /\ Persist(q, jobs, x)
    BY <1>7, <1>8, <2>1, <2>2 DEF Queues
  <2>3. CASE execs' = [execs EXCEPT ![x] = Taken(f, "target")] /\ pending' = q
    BY <1>7, <1>8, <2>1, <2>3 DEF Queues
  <2> QED
    BY <1>1, <1>8, <2>2, <2>3 DEF f
<1> QED
  BY <1>6, <1>8

(* persistData issues a list that is up to date. *)
LEMMA PersistStores ==
    ASSUME NEW q, NEW ph, NEW used, QueueOK(q, ph, used), NEW by \in Execs \cup {None, Boot},
           jobs' \in [Jobs -> JobStatus], \A j \in Jobs \ used : jobs'[j] = "none",
           Persist(q, jobs', by)
    PROVE  StoreCatchesUp' /\ QueueOK(pending', ph, used)
<1> DEFINE c == [load |-> FALSE, jobs |-> jobs', by |-> by, from |-> "routes"]
<1>1. c \in Command /\ ~c.load /\ c.jobs = jobs' /\ c.from = "routes"
  BY DEF Command
<1>2. pending' = Append(q, c)
  BY DEF Persist
<1> HIDE DEF c
<1>3. QueueOK(pending', ph, used)
  BY <1>1, <1>2, QueueAppend
<1>4. q \in Seq(Command)
  BY DEF QueueOK
<1>5. pending' # <<>> /\ Len(pending') = Len(q) + 1 /\ pending'[Len(q) + 1] = c
  BY <1>1, <1>2, <1>4, AppendProperties
<1> QED
  BY <1>1, <1>3, <1>5 DEF StoreCatchesUp

(* The same for the service of the webhooks. *)
LEMMA HookPersistStores ==
    ASSUME NEW ph, NEW used, QueueOK(pending, ph, used), NEW by \in Execs \cup {None, Boot},
           hookJobs' \in [Jobs -> JobStatus], \A j \in Jobs \ used : hookJobs'[j] = "none",
           HookPersist(hookJobs', by)
    PROVE  StoreCatchesUp' /\ QueueOK(pending', ph, used)
<1> DEFINE c == [load |-> FALSE, jobs |-> hookJobs', by |-> by, from |-> "webhooks"]
<1>1. c \in Command /\ ~c.load /\ c.jobs = hookJobs' /\ c.from # "routes"
  BY DEF Command
<1>2. pending' = Append(pending, c)
  BY DEF HookPersist
<1> HIDE DEF c
<1>3. QueueOK(pending', ph, used)
  BY <1>1, <1>2, QueueAppend
<1>4. pending \in Seq(Command)
  BY DEF QueueOK
<1>5. pending' # <<>> /\ Len(pending') = Len(pending) + 1 /\ pending'[Len(pending) + 1] = c
  BY <1>1, <1>2, <1>4, AppendProperties
<1> QED
  BY <1>1, <1>3, <1>5 DEF StoreCatchesUp

(* A step of an execution's loop preserves the invariant. *)
LEMMA RanKeeps ==
    ASSUME IInv, NEW x \in Execs, execs[x].pc # "new", NEW q, Ran(x, q),
           QueueOK(q, phase, bounds.used), q = pending \/ bounds'.errors # 0,
           store' = store, phase' = phase, hookJobs' = hookJobs, hookPhase' = hookPhase,
           bounds' = bounds \/ bounds' = [bounds EXCEPT !.errors = @ + 1]
    PROVE  IInv'
<1>1. PICK f \in Exec : RanTo(x, f) /\ MarksJob(x, f) /\ Queues(x, q)
  BY DEF Ran
<1>2. TypeOK /\ JobsKnown
  BY DEF IInv
<1>3. /\ bounds' \in [used : SUBSET Jobs, puts : Nat, crashes : Nat, errors : Nat]
      /\ bounds'.used = bounds.used /\ bounds'.puts = bounds.puts
      /\ bounds'.errors = 0 => bounds' = bounds
  <2>1. bounds.errors \in Nat /\ bounds.errors + 1 \in Nat /\ bounds.errors + 1 # 0
    BY <1>2 DEF TypeOK
  <2> QED
    BY <1>2, <2>1 DEF TypeOK
<1>4. Faults' = 0 => bounds' = bounds /\ Faults = 0
  BY <1>3 DEF Faults
<1>5. /\ execs' \in [Execs -> Exec] /\ execs'[x] = f
      /\ \A y \in Execs : y # x => execs'[y] = execs[y]
  BY <1>1, <1>2 DEF RanTo, TypeOK
<1>6. /\ f.job = execs[x].job /\ f.pc \notin {"new", "starting"} /\ Accounted(f)
      /\ f.pc \in LoopPc => Looping(x)
      /\ f.job \in bounds.used /\ f.job \in Jobs
  BY <1>1, <1>2 DEF RanTo, JobsKnown, TypeOK
<1>7. \A y \in Execs : Looping(y)' => Looping(y) /\ execs'[y].job = execs[y].job
  BY <1>5, <1>6 DEF Looping, LoopPc
<1>8. /\ jobs' \in [Jobs -> JobStatus]
      /\ \A j \in Jobs : j # f.job => jobs'[j] = jobs[j]
      /\ \A j \in Jobs : jobs'[j] = "none" <=> jobs[j] = "none"
      /\ jobs' = jobs \/ jobs'[f.job] # "running"
  BY <1>1, <1>2, <1>6 DEF MarksJob, TypeOK, JobStatus
<1>9. \A j \in Jobs \ bounds.used : jobs'[j] = "none"
  BY <1>2, <1>8 DEF JobsKnown
<1>10. QueueOK(pending, phase, bounds.used)' /\ StoreCatchesUp'
  <2>1. CASE pending' = q /\ jobs' = jobs
    <3>1. bounds'.errors = 0 => pending' = pending /\ bounds'.errors = bounds.errors
      BY <1>3, <2>1
    <3> QED
      BY <1>3, <2>1, <3>1 DEF StoreCatchesUp, IInv
  <2>2. CASE Persist(q, jobs', x)
    BY <1>3, <1>8, <1>9, <2>2, PersistStores
  <2> QED
    BY <1>1, <2>1, <2>2 DEF Queues
<1>11. TypeOK'
  BY <1>2, <1>3, <1>5, <1>8, <1>10 DEF TypeOK, QueueOK
<1>12. JobsKnown'
  BY <1>2, <1>3, <1>5, <1>6, <1>9 DEF JobsKnown
<1>13. LoadIsNew'
  <2> SUFFICES ASSUME phase = "loading", NEW j \in Jobs, store[j] # "none"
               PROVE  jobs'[j] = "none" /\ \A y \in Execs : Looping(y)' => execs'[y].job # j
    BY DEF LoadIsNew
  <2>1. jobs[j] = "none" /\ \A y \in Execs : Looping(y) => execs[y].job # j
    BY DEF IInv, LoadIsNew
  <2> QED
    BY <1>7, <1>8, <2>1
<1>14. RecordsAccounted'
  <2> SUFFICES ASSUME NEW y \in Execs PROVE Accounted(execs'[y])
    BY DEF RecordsAccounted
  <2> QED
    BY <1>5, <1>6 DEF IInv, RecordsAccounted
<1>15. ExclusiveExecutions'
  BY <1>3, <1>7 DEF IInv, ExclusiveExecutions
<1>16. LoopingIsRunning'
  <2> SUFFICES ASSUME bounds'.puts = 0, bounds'.errors = 0, NEW y \in Execs, Looping(y)'
               PROVE  jobs'[execs'[y].job] \in {"running", "none"}
    BY DEF LoopingIsRunning
  <2>1. Looping(y) /\ execs'[y].job = execs[y].job /\ bounds.puts = 0 /\ bounds.errors = 0
    BY <1>3, <1>7
  <2>2. jobs[execs[y].job] \in {"running", "none"}
    BY <2>1 DEF IInv, LoopingIsRunning
  <2>3. CASE jobs' = jobs
    BY <2>1, <2>2, <2>3
  <2>4. CASE jobs' # jobs
    <3>1. f.pc \notin LoopPc /\ Looping(x)
      BY <1>1, <2>4 DEF MarksJob
    <3>2. y # x
      BY <1>5, <3>1 DEF Looping, LoopPc
    <3>3. execs[y].job # f.job
      BY <1>6, <2>1, <3>1, <3>2 DEF IInv, ExclusiveExecutions
    <3>4. execs[y].job \in Jobs
      BY <1>2, <2>1 DEF JobsKnown, TypeOK, Looping
    <3> QED
      BY <1>8, <2>1, <2>2, <3>3, <3>4
  <2> QED
    BY <2>3, <2>4
<1>17. FirstStartIsEmpty'
  BY <1>4 DEF IInv, FirstStartIsEmpty
<1>18. RunningIsExecuted'
  <2> SUFFICES ASSUME Faults' = 0, NEW j \in Jobs, jobs'[j] = "running"
               PROVE  \E y \in Execs : Looping(y)' /\ execs'[y].job = j
    BY DEF RunningIsExecuted
  <2>1. Faults = 0 /\ bounds' = bounds /\ bounds'.errors = 0
    BY <1>2, <1>3, <1>4 DEF Faults, TypeOK
  <2>2. jobs[j] = "running"
    BY <1>8
  <2>3. PICK y \in Execs : Looping(y) /\ execs[y].job = j
    BY <2>1, <2>2 DEF IInv, RunningIsExecuted
  <2>4. CASE y # x
    BY <1>5, <2>3, <2>4 DEF Looping
  <2>5. CASE y = x
    <3>1. f.pc \in LoopPc
      <4> SUFFICES ASSUME f.pc \notin LoopPc PROVE FALSE
        OBVIOUS
      <4>1. jobs'[f.job] # "running"
        BY <1>1, <1>2, <1>6, <2>1, <2>3, <2>5 DEF MarksJob, TypeOK
      <4> QED
        BY <1>6, <2>3, <2>5, <4>1
    <3> QED
      BY <1>5, <1>6, <2>3, <2>5, <3>1 DEF Looping, LoopPc
  <2> QED
    BY <2>4, <2>5
<1>19. StartsAtZero'
  BY <1>5, <1>6 DEF IInv, StartsAtZero
<1> QED
  BY <1>10, <1>11, <1>12, <1>13, <1>14, <1>15, <1>16, <1>17, <1>18, <1>19 DEF IInv

-----------------------------------------------------------------------------
(* The queue of a process that starts. *)
LEMMA FirstQueueOK ==
    ASSUME NEW used PROVE QueueOK(FirstCommands, "loading", used)
<1>1. NoJobs \in [Jobs -> JobStatus] /\ \A j \in Jobs : NoJobs[j] = "none"
  BY DEF NoJobs, JobStatus
<1>2. \A s \in {"routes", "webhooks"} : /\ Load(s) \in Command /\ Load(s).load /\ Load(s).by = Boot
                                        /\ Load(s).jobs = NoJobs /\ Load(s).from = s
  BY <1>1 DEF Load, Command
<1> DEFINE r == Load("routes")
           w == Load("webhooks")
           q == <<r, w>>
<1> HIDE DEF r, w
<1>3. /\ r \in Command /\ r.load /\ r.by = Boot /\ r.jobs = NoJobs /\ r.from = "routes"
      /\ w \in Command /\ w.load /\ w.by = Boot /\ w.jobs = NoJobs /\ w.from # "routes"
  BY <1>2 DEF r, w
<1>4. q \in Seq(Command) /\ Len(q) = 2 /\ q[1] = r /\ q[2] = w /\ q # <<>>
  BY <1>3
<1>5. \A i \in 1 .. Len(q) : (i = 1 /\ q[i] = r) \/ (i = 2 /\ q[i] = w)
  BY <1>4
<1>6. FirstCommands = q
  BY DEF FirstCommands, r, w
<1> HIDE DEF q
<1>7. \A i \in 1 .. Len(q) : /\ q[i].load => q[i].by = Boot /\ (q[i].from = "routes" => i = 1)
                             /\ \A j \in Jobs : q[i].jobs[j] = "none"
  BY <1>1, <1>3, <1>5
<1>8. q[1].load /\ q[1].from = "routes"
  BY <1>3, <1>4
<1> QED
  BY <1>4, <1>6, <1>7, <1>8 DEF QueueOK

(* Init satisfies the invariant. *)
LEMMA InitIInv == Init => IInv
<1> SUFFICES ASSUME Init PROVE IInv
  OBVIOUS
<1>1. NoJobs \in [Jobs -> JobStatus] /\ \A j \in Jobs : NoJobs[j] = "none"
  BY DEF NoJobs, JobStatus
<1>2. NewExec \in Exec /\ Accounted(NewExec) /\ NewExec.pc = "new"
  BY DEF NewExec, Exec, Accounted, Counted
<1>4. \A x \in Execs : execs[x] = NewExec
  BY DEF Init
<1>5. QueueOK(pending, phase, bounds.used)
  BY FirstQueueOK DEF Init
<1>6. TypeOK
  BY <1>1, <1>2, <1>5 DEF Init, TypeOK, QueueOK, Phase
<1>7. \A x \in Execs : ~Looping(x)
  BY <1>2, <1>4 DEF Looping
<1>8. JobsKnown /\ LoadIsNew /\ FirstStartIsEmpty /\ StartsAtZero
  BY <1>1, <1>2, <1>4 DEF Init, JobsKnown, LoadIsNew, FirstStartIsEmpty, StartsAtZero
<1>9. RecordsAccounted
  BY <1>2, <1>4 DEF RecordsAccounted
<1>10. ExclusiveExecutions /\ LoopingIsRunning
  BY <1>7 DEF ExclusiveExecutions, LoopingIsRunning
<1>11. StoreCatchesUp /\ RunningIsExecuted
  BY <1>1 DEF Init, StoreCatchesUp, RunningIsExecuted
<1> QED
  BY <1>5, <1>6, <1>8, <1>9, <1>10, <1>11 DEF IInv

(* The steps of an execution preserve it. *)
LEMMA ExecutionStep ==
    ASSUME IInv, NEW x \in Execs,
           StartSaved(x) \/ ConflictSaved(x) \/ TargetSynced(x) \/ SourceSynced(x) \/ StatusSaved(x)
    PROVE  IInv'
<1>1. TypeOK /\ execs[x] \in Exec /\ Accounted(execs[x]) /\ QueueOK(pending, phase, bounds.used)
  BY DEF IInv, TypeOK, RecordsAccounted
<1> DEFINE e == execs[x]
<1>2. /\ e.total \in Nat /\ e.todo \in Nat /\ e.skipped \in Nat /\ e.failed \in Nat
      /\ e.successful \in Nat /\ e.conflicts \in Nat
      /\ e.successful + 1 \in Nat /\ e.conflicts + 1 \in Nat
  BY <1>1 DEF Exec
<1>3. ASSUME Looping(x), Ran(x, pending), UNCHANGED <<store, phase, hookVars, bounds>>
      PROVE  IInv'
  BY <1>1, <1>3, RanKeeps DEF Looping, hookVars
<1>4. CASE StartSaved(x)
  <2>1. PICK n \in 0 .. MaxRecords : Advance(x, [e EXCEPT !.total = n, !.todo = n], pending)
    BY <1>4, Zenon DEF StartSaved
  <2> DEFINE g == [e EXCEPT !.total = n, !.todo = n]
  <2>2. n \in Nat
    BY SyncAssumption
  <2>3. /\ g \in Exec /\ g.job = e.job /\ g.total = n /\ g.todo = n /\ g.skipped = e.skipped
        /\ g.failed = e.failed /\ g.successful = e.successful /\ g.conflicts = e.conflicts
    <3> DEFINE h == [e EXCEPT !.total = n]
    <3>1. /\ h \in Exec /\ h.job = e.job /\ h.total = n /\ h.skipped = e.skipped
          /\ h.failed = e.failed /\ h.successful = e.successful /\ h.conflicts = e.conflicts
      BY <1>1, <2>2 DEF Exec
    <3>2. g = [h EXCEPT !.todo = n]
      OBVIOUS
    <3> HIDE DEF g, h
    <3> QED
      BY <2>2, <3>1, <3>2 DEF Exec
  <2>4. e.pc = "starting" /\ Looping(x)
    BY <1>4, Zenon DEF StartSaved, Looping
  <2>5. e.successful = 0 /\ e.failed = 0 /\ e.skipped = 0 /\ e.conflicts = 0
    BY <2>4 DEF IInv, StartsAtZero
  <2> HIDE DEF g
  <2>6. g.total = Counted(g)
    BY <2>2, <2>3, <2>5 DEF Counted
  <2>7. Ran(x, pending)
    BY <1>1, <2>1, <2>3, <2>4, <2>6, AdvanceRuns, Zenon DEF g
  <2> QED
    BY <1>3, <1>4, <2>4, <2>7, Zenon DEF StartSaved
<1>5. CASE ConflictSaved(x)
  <2> DEFINE g == [e EXCEPT !.conflicts = @ + 1]
  <2>1. /\ g \in Exec /\ g.job = e.job /\ g.total = e.total /\ g.todo = e.todo /\ g.skipped = e.skipped
        /\ g.failed = e.failed /\ g.successful = e.successful /\ g.conflicts = e.conflicts + 1
    BY <1>1, <1>2 DEF Exec
  <2>2. Advance(x, g, pending) /\ e.pc = "conflict" /\ Looping(x)
    BY <1>5 DEF ConflictSaved, Looping
  <2> HIDE DEF g
  <2>3. g.total = Counted(g)
    BY <1>1, <1>2, <2>1, <2>2 DEF Counted, Accounted
  <2>4. Ran(x, pending)
    BY <1>1, <2>1, <2>2, <2>3, AdvanceRuns
  <2> QED
    BY <1>3, <1>5, <2>2, <2>4 DEF ConflictSaved
<1>6. CASE TargetSynced(x)
  <2> DEFINE g == [e EXCEPT !.successful = @ + 1]
  <2>1. /\ g \in Exec /\ g.job = e.job /\ g.total = e.total /\ g.todo = e.todo /\ g.skipped = e.skipped
        /\ g.failed = e.failed /\ g.successful = e.successful + 1 /\ g.conflicts = e.conflicts
    BY <1>1, <1>2 DEF Exec
  <2>2. /\ e.pc = "target" /\ Looping(x) /\ UNCHANGED <<store, phase, hookVars, bounds>>
        /\ IF g.bidirectional
           THEN execs' = [execs EXCEPT ![x] = [g EXCEPT !.pc = "source"]] /\ UNCHANGED <<jobs, pending>>
           ELSE Advance(x, g, pending)
    BY <1>6 DEF TargetSynced, Looping
  <2> HIDE DEF g
  <2>3. g.total = Counted(g)
    BY <1>1, <1>2, <2>1, <2>2 DEF Counted, Accounted
  <2>4. CASE ~g.bidirectional
    BY <1>1, <1>3, <2>1, <2>2, <2>3, <2>4, AdvanceRuns
  <2>5. CASE g.bidirectional
    <3> DEFINE h == [g EXCEPT !.pc = "source"]
    <3>1. /\ h \in Exec /\ h.job = g.job /\ h.total = g.total /\ h.pc = "source"
          /\ Counted(h) = Counted(g)
      BY <2>1 DEF Exec, Counted
    <3>2. execs' = [execs EXCEPT ![x] = h] /\ jobs' = jobs /\ pending' = pending
      BY <2>2, <2>5
    <3> HIDE DEF h
    <3>3. Accounted(h)
      BY <1>2, <2>1, <2>3, <3>1 DEF Accounted
    <3>4. RanTo(x, h) /\ MarksJob(x, h) /\ Queues(x, pending)
      BY <2>1, <2>2, <3>1, <3>2, <3>3 DEF RanTo, MarksJob, Queues, LoopPc
    <3> QED
      BY <1>3, <2>2, <3>1, <3>4 DEF Ran
  <2> QED
    BY <2>4, <2>5
<1>7. CASE SourceSynced(x)
  <2>1. Advance(x, e, pending) /\ e.pc = "source" /\ Looping(x)
    BY <1>7 DEF SourceSynced, Looping
  <2>2. e.total = Counted(e)
    BY <1>1, <1>2, <2>1 DEF Accounted, Counted
  <2>3. Ran(x, pending)
    BY <1>1, <2>1, <2>2, AdvanceRuns
  <2> QED
    BY <1>3, <1>7, <2>1, <2>3 DEF SourceSynced
<1>8. CASE StatusSaved(x)
  <2> DEFINE h == Forgotten(e)
  <2>1. h \in Exec /\ h.job = e.job /\ h.pc = "done" /\ Accounted(h)
    BY <1>1, ForgottenOK
  <2>2. /\ execs' = [execs EXCEPT ![x] = h] /\ e.pc \in {"completing", "failing"}
        /\ UNCHANGED <<jobs, store, pending, phase, hookJobs, hookPhase, bounds>>
    BY <1>8 DEF StatusSaved, Ended, hookVars
  <2> HIDE DEF h
  <2>3. ~Looping(x) /\ h.pc \notin LoopPc
    BY <2>1, <2>2 DEF LoopPc, Looping
  <2>4. RanTo(x, h) /\ MarksJob(x, h) /\ Queues(x, pending)
    BY <2>1, <2>2, <2>3 DEF RanTo, MarksJob, Queues
  <2>5. Ran(x, pending)
    BY <2>1, <2>4 DEF Ran
  <2> QED
    BY <1>1, <2>2, <2>5, RanKeeps
<1> QED
  BY <1>4, <1>5, <1>6, <1>7, <1>8

(* A failing save of an execution preserves it. *)
LEMMA SaveFailure ==
    ASSUME IInv, NEW x \in Execs, SaveFails(x)
    PROVE  IInv'
<1> DEFINE q == IF pending # <<>> /\ Head(pending).by = x THEN Tail(pending) ELSE pending
           e == execs[x]
<1>1. /\ TypeOK /\ e \in Exec /\ Accounted(e) /\ QueueOK(pending, phase, bounds.used)
      /\ bounds.errors \in Nat
  BY DEF IInv, TypeOK, RecordsAccounted
<1>2. /\ bounds' = [bounds EXCEPT !.errors = @ + 1] /\ store' = store /\ phase' = phase
      /\ hookJobs' = hookJobs /\ hookPhase' = hookPhase /\ bounds'.errors # 0
  BY <1>1 DEF SaveFails, TypeOK, hookVars
<1>3. QueueOK(q, phase, bounds.used)
  <2>1. CASE pending # <<>> /\ Head(pending).by = x
    <3>1. Head(pending) = pending[1] /\ 1 \in 1 .. Len(pending)
      BY <1>1, <2>1, QueueTail
    <3>2. ~Head(pending).load
      BY <1>1, <2>1, <3>1, SyncAssumption DEF QueueOK
    <3> QED
      BY <1>1, <2>1, <3>2, QueueTail
  <2> QED
    BY <1>1, <2>1
<1> HIDE DEF q
<1>4. ASSUME NEW f \in Exec, execs' = [execs EXCEPT ![x] = f], f.job = e.job,
             f.pc \in {"stuck", "done"}, Accounted(f), pending' = q, jobs' = jobs
      PROVE  Ran(x, q)
  BY <1>2, <1>4, Zenon DEF Ran, RanTo, MarksJob, Queues, LoopPc
<1>5. ASSUME e.pc = "starting", execs' = [execs EXCEPT ![x] = [e EXCEPT !.pc = "stuck"]],
             pending' = q, jobs' = jobs
      PROVE  Ran(x, q)
  <2> DEFINE f == [e EXCEPT !.pc = "stuck"]
  <2>1. f \in Exec /\ f.job = e.job /\ f.pc = "stuck" /\ f.total = e.total /\ Counted(f) = Counted(e)
    BY <1>1 DEF Exec, Counted
  <2> HIDE DEF f
  <2>2. Accounted(f)
    BY <1>1, <1>5, <2>1 DEF Accounted
  <2>3. execs' = [execs EXCEPT ![x] = f]
    BY <1>5 DEF f
  <2> QED
    BY <1>4, <1>5, <2>1, <2>2, <2>3, Zenon
<1>6. ASSUME e.pc = "conflict", Advance(x, [e EXCEPT !.failed = @ + 1], q)
      PROVE  Ran(x, q)
  <2> DEFINE g == [e EXCEPT !.failed = @ + 1]
  <2>1. /\ e.total \in Nat /\ e.todo \in Nat /\ e.skipped \in Nat /\ e.failed \in Nat
        /\ e.successful \in Nat /\ e.conflicts \in Nat /\ e.failed + 1 \in Nat
    BY <1>1 DEF Exec
  <2>2. /\ g \in Exec /\ g.job = e.job /\ g.total = e.total /\ g.todo = e.todo /\ g.skipped = e.skipped
        /\ g.failed = e.failed + 1 /\ g.successful = e.successful /\ g.conflicts = e.conflicts
    BY <1>1, <2>1 DEF Exec
  <2>3. Advance(x, g, q) /\ Looping(x)
    BY <1>6 DEF Looping
  <2> HIDE DEF g
  <2>4. g.total = Counted(g)
    BY <1>1, <1>6, <2>1, <2>2 DEF Counted, Accounted
  <2> QED
    BY <1>1, <2>2, <2>3, <2>4, AdvanceRuns
<1>7. ASSUME e.pc = "completing", Finish(x, e, q, "failed")
      PROVE  Ran(x, q)
  <2>1. /\ e.total \in Nat /\ e.todo \in Nat /\ e.skipped \in Nat /\ e.failed \in Nat
        /\ e.successful \in Nat /\ e.conflicts \in Nat
    BY <1>1 DEF Exec
  <2>2. e.total = Counted(e)
    BY <1>1, <1>7, <2>1 DEF Accounted, Counted
  <2> QED
    BY <1>1, <1>2, <1>7, <2>2, FinishRuns
<1>8. ASSUME Ended(x), pending' = q, jobs' = jobs
      PROVE  Ran(x, q)
  <2> DEFINE h == Forgotten(e)
  <2>1. h \in Exec /\ h.job = e.job /\ h.pc = "done" /\ Accounted(h)
    BY <1>1, ForgottenOK
  <2>2. execs' = [execs EXCEPT ![x] = h]
    BY <1>8 DEF Ended
  <2> HIDE DEF h
  <2> QED
    BY <1>4, <1>8, <2>1, <2>2, Zenon
<1>9. Ran(x, q) /\ e.pc # "new"
  BY <1>5, <1>6, <1>7, <1>8 DEF SaveFails, q
<1> QED
  BY <1>2, <1>3, <1>9, RanKeeps

-----------------------------------------------------------------------------
(* Steps that leave every execution where it is, or cancel one. *)
SameLoops ==
    /\ execs' \in [Execs -> Exec]
    /\ \A y \in Execs : /\ execs'[y].pc = execs[y].pc /\ execs'[y].job = execs[y].job
                        /\ execs'[y].total = execs[y].total /\ Counted(execs'[y]) = Counted(execs[y])
                        /\ execs'[y].successful = execs[y].successful
                        /\ execs'[y].failed = execs[y].failed
                        /\ execs'[y].skipped = execs[y].skipped
                        /\ execs'[y].conflicts = execs[y].conflicts

(* What follows from it. *)
LEMMA SameLoopsKeep ==
    ASSUME IInv, SameLoops
    PROVE  /\ RecordsAccounted' /\ StartsAtZero'
           /\ \A y \in Execs : Looping(y)' <=> Looping(y)
           /\ bounds.used \subseteq bounds'.used =>
                  \A y \in Execs : execs'[y].pc # "new" => execs'[y].job \in bounds'.used
<1>1. RecordsAccounted'
  BY DEF IInv, SameLoops, RecordsAccounted, Accounted
<1>2. StartsAtZero'
  BY DEF IInv, SameLoops, StartsAtZero
<1>3. \A y \in Execs : Looping(y)' <=> Looping(y)
  BY DEF SameLoops, Looping
<1>4. bounds.used \subseteq bounds'.used =>
          \A y \in Execs : execs'[y].pc # "new" => execs'[y].job \in bounds'.used
  BY DEF IInv, SameLoops, JobsKnown
<1> QED
  BY <1>1, <1>2, <1>3, <1>4

(* An execution that is cancelled goes on. *)
LEMMA CancelledLoops ==
    ASSUME TypeOK, execs' = execs \/ \E x \in Execs : execs' = [execs EXCEPT ![x] = Cancelled(execs[x])]
    PROVE  SameLoops
<1>1. CASE execs' = execs
  BY <1>1 DEF SameLoops, TypeOK
<1>2. ASSUME NEW x \in Execs, execs' = [execs EXCEPT ![x] = Cancelled(execs[x])]
      PROVE  SameLoops
  <2> DEFINE e == execs[x]
             g == Cancelled(e)
             h == [e EXCEPT !.status = "cancelled"]
  <2>1. e \in Exec /\ execs \in [Execs -> Exec]
    BY DEF TypeOK
  <2>2. /\ h \in Exec /\ h.pc = e.pc /\ h.job = e.job /\ h.total = e.total /\ h.todo = e.todo
        /\ h.successful = e.successful /\ h.failed = e.failed /\ h.skipped = e.skipped
        /\ h.conflicts = e.conflicts
    BY <2>1 DEF Exec
  <2>3. /\ g \in Exec /\ g.pc = e.pc /\ g.job = e.job /\ g.total = e.total
        /\ g.successful = e.successful /\ g.failed = e.failed /\ g.skipped = e.skipped
        /\ g.conflicts = e.conflicts /\ Counted(g) = Counted(e)
    <3>1. g = [h EXCEPT !.active = FALSE]
      BY Zenon DEF Cancelled
    <3> HIDE DEF g, h, e
    <3> QED
      BY <2>2, <3>1, Zenon DEF Exec, Counted
  <2>4. execs' = [execs EXCEPT ![x] = g]
    BY <1>2
  <2> HIDE DEF g
  <2>5. execs' \in [Execs -> Exec] /\ execs'[x] = g /\ \A y \in Execs : y # x => execs'[y] = execs[y]
    BY <2>1, <2>3, <2>4
  <2> QED
    BY <2>3, <2>5 DEF SameLoops
<1> QED
  BY <1>1, <1>2

(* The requests that create, update and delete a job, and the mock jobs,    *)
(* preserve the invariant: each sets the status of one job and saves the    *)
(* list.                                                                    *)
LEMMA RequestStep ==
    ASSUME IInv, NEW j \in Jobs,
           CreateJob(j) \/ MockJob(j) \/ DeleteSyncJob(j) \/ \E s \in {"idle", "running"} : PutJob(j, s)
    PROVE  IInv'
<1>1. TypeOK /\ JobsKnown /\ QueueOK(pending, phase, bounds.used)
  BY DEF IInv
<1>2. /\ bounds.used \in SUBSET Jobs /\ bounds.puts \in Nat /\ bounds.crashes \in Nat /\ bounds.errors \in Nat
      /\ bounds.puts + 1 \in Nat /\ bounds.puts + 1 # 0
  BY <1>1 DEF TypeOK
<1> DEFINE New == /\ CreateJob(j) \/ MockJob(j)
                  /\ j \notin bounds.used /\ bounds' = [bounds EXCEPT !.used = @ \cup {j}]
                  /\ execs' = execs
<1>0. CreateJob(j) \/ MockJob(j) => New
  BY DEF CreateJob, MockJob, NewId
<1>3. PICK s \in JobStatus, by \in {None, Boot} :
        /\ jobs' = [jobs EXCEPT ![j] = s] /\ Persist(pending, jobs', by)
        /\ store' = store /\ phase' = phase /\ hookJobs' = hookJobs /\ hookPhase' = hookPhase
        /\ \/ New /\ s = "idle"
           \/ DeleteSyncJob(j) /\ s = "none"
           \/ PutJob(j, s) /\ s # "none"
  <2>1. CASE CreateJob(j)
    BY <1>0, <2>1, Zenon DEF CreateJob, JobStatus, hookVars
  <2>4. CASE MockJob(j)
    BY <1>0, <2>4, Zenon DEF MockJob, JobStatus, hookVars
  <2>2. CASE DeleteSyncJob(j)
    BY <2>2, Zenon DEF DeleteSyncJob, JobStatus, hookVars
  <2>3. CASE \E s \in {"idle", "running"} : PutJob(j, s)
    BY <2>3, Zenon DEF PutJob, JobStatus, hookVars
  <2> QED
    BY <2>1, <2>2, <2>3, <2>4
<1>4. /\ bounds' \in [used : SUBSET Jobs, puts : Nat, crashes : Nat, errors : Nat]
      /\ bounds.used \subseteq bounds'.used /\ bounds'.used \subseteq bounds.used \cup {j}
      /\ bounds'.errors = bounds.errors /\ bounds'.crashes = bounds.crashes
      /\ bounds'.puts = 0 => bounds'.puts = bounds.puts
      /\ s = "idle" => j \in bounds'.used
  <2>1. CASE New
    BY <1>1, <1>2, <2>1, Zenon DEF TypeOK
  <2>2. CASE DeleteSyncJob(j) /\ s = "none"
    BY <1>1, <1>2, <2>2 DEF DeleteSyncJob, TypeOK
  <2>3. CASE PutJob(j, s)
    <3>1. j \in bounds.used
      BY <1>1, <2>3 DEF PutJob, JobsKnown
    <3> QED
      BY <1>1, <1>2, <2>3, <3>1 DEF PutJob, TypeOK
  <2> QED
    BY <1>3, <2>1, <2>2, <2>3
<1>5. SameLoops
  <2>1. execs' = execs \/ \E x \in Execs : execs' = [execs EXCEPT ![x] = Cancelled(execs[x])]
    BY <1>3 DEF DeleteSyncJob, PutJob
  <2> QED
    BY <1>1, <2>1, CancelledLoops
<1>6. /\ RecordsAccounted' /\ StartsAtZero'
      /\ \A y \in Execs : Looping(y)' <=> Looping(y)
      /\ \A y \in Execs : execs'[y].pc # "new" => execs'[y].job \in bounds'.used
  BY <1>4, <1>5, SameLoopsKeep
<1>7. /\ jobs' \in [Jobs -> JobStatus] /\ jobs'[j] = s
      /\ \A k \in Jobs : k # j => jobs'[k] = jobs[k]
  BY <1>1, <1>3 DEF TypeOK
<1>8. s = "none" \/ j \in bounds'.used
  <2>1. CASE New
    BY <1>2, <2>1, <1>1 DEF TypeOK
  <2>2. CASE PutJob(j, s)
    BY <1>1, <1>4, <2>2 DEF PutJob, JobsKnown
  <2> QED
    BY <1>3, <2>1, <2>2
<1>9. \A k \in Jobs \ bounds'.used : jobs'[k] = "none" /\ hookJobs'[k] = "none" /\ store'[k] = "none"
  BY <1>1, <1>3, <1>4, <1>7, <1>8 DEF JobsKnown
<1>10. QueueOK(pending, phase, bounds'.used)
  BY <1>1, <1>4 DEF QueueOK
<1>11. StoreCatchesUp' /\ QueueOK(pending, phase, bounds.used)'
  BY <1>3, <1>7, <1>9, <1>10, PersistStores, Zenon
<1>12. TypeOK'
  BY <1>1, <1>3, <1>4, <1>5, <1>7, <1>11 DEF TypeOK, QueueOK, SameLoops
<1>13. JobsKnown'
  BY <1>6, <1>9 DEF JobsKnown
<1>14. s # "none" => jobs[j] # "none" \/ (j \notin bounds.used)
  BY <1>3 DEF PutJob
<1>15. LoadIsNew'
  <2> SUFFICES ASSUME phase = "loading", NEW k \in Jobs, store[k] # "none"
               PROVE  jobs'[k] = "none" /\ \A y \in Execs : Looping(y)' => execs'[y].job # k
    BY <1>3 DEF LoadIsNew
  <2>1. jobs[k] = "none" /\ \A y \in Execs : Looping(y) => execs[y].job # k
    BY DEF IInv, LoadIsNew
  <2>2. k \in bounds.used
    BY <1>1 DEF JobsKnown
  <2>3. k = j => s = "none"
    BY <1>14, <2>1, <2>2
  <2> QED
    BY <1>5, <1>6, <1>7, <2>1, <2>3 DEF SameLoops
<1>16. ExclusiveExecutions'
  BY <1>4, <1>5, <1>6 DEF IInv, ExclusiveExecutions, SameLoops
<1>17. LoopingIsRunning'
  <2> SUFFICES ASSUME bounds'.puts = 0, bounds'.errors = 0, NEW y \in Execs, Looping(y)'
               PROVE  jobs'[execs'[y].job] \in {"running", "none"}
    BY DEF LoopingIsRunning
  <2>1. Looping(y) /\ execs'[y].job = execs[y].job /\ bounds.puts = 0 /\ bounds.errors = 0
    BY <1>4, <1>5, <1>6 DEF SameLoops
  <2>2. jobs[execs[y].job] \in {"running", "none"} /\ execs[y].job \in bounds.used
    BY <1>1, <2>1 DEF IInv, LoopingIsRunning, JobsKnown, Looping
  <2>3. ~PutJob(j, s)
    BY <1>2, <1>1 DEF PutJob, TypeOK
  <2>4. execs[y].job = j => s = "none"
    BY <1>3, <2>2, <2>3
  <2>5. execs[y].job \in Jobs
    BY <1>2, <2>2
  <2> QED
    BY <1>7, <2>1, <2>2, <2>4, <2>5
<1>18. Faults' = 0 => Faults = 0 /\ ~PutJob(j, s)
  BY <1>1, <1>2, <1>4 DEF Faults, PutJob, TypeOK
<1>19. FirstStartIsEmpty'
  BY <1>3, <1>18 DEF IInv, FirstStartIsEmpty
<1>20. RunningIsExecuted'
  <2> SUFFICES ASSUME Faults' = 0, NEW k \in Jobs, jobs'[k] = "running"
               PROVE  \E y \in Execs : Looping(y)' /\ execs'[y].job = k
    BY DEF RunningIsExecuted
  <2>1. Faults = 0 /\ k # j /\ jobs[k] = "running"
    BY <1>3, <1>7, <1>18
  <2> QED
    BY <1>5, <1>6, <2>1 DEF IInv, RunningIsExecuted, SameLoops
<1> QED
  BY <1>6, <1>11, <1>12, <1>13, <1>15, <1>16, <1>17, <1>19, <1>20 DEF IInv

(* Cancelling an execution preserves it. *)
LEMMA CancelStep ==
    ASSUME IInv, NEW x \in Execs, CancelExecution(x)
    PROVE  IInv'
<1>1. execs' = [execs EXCEPT ![x] = Cancelled(execs[x])] /\ UNCHANGED <<jobs, store, pending, phase, hookJobs, hookPhase, bounds>>
  BY DEF CancelExecution, hookVars
<1>2. SameLoops
  BY <1>1, CancelledLoops, Zenon DEF IInv
<1>3. /\ RecordsAccounted' /\ StartsAtZero'
      /\ \A y \in Execs : Looping(y)' <=> Looping(y)
      /\ \A y \in Execs : execs'[y].pc # "new" => execs'[y].job \in bounds'.used
  BY <1>1, <1>2, SameLoopsKeep
<1>4. TypeOK' /\ JobsKnown' /\ QueueOK(pending, phase, bounds.used)' /\ StoreCatchesUp'
  BY <1>1, <1>2, <1>3 DEF IInv, TypeOK, JobsKnown, StoreCatchesUp, SameLoops
<1>5. LoadIsNew' /\ LoopingIsRunning' /\ ExclusiveExecutions'
  BY <1>1, <1>2, <1>3 DEF IInv, LoadIsNew, LoopingIsRunning, ExclusiveExecutions, SameLoops
<1>6. Faults' = Faults
  BY <1>1 DEF Faults
<1>7. FirstStartIsEmpty' /\ RunningIsExecuted'
  BY <1>1, <1>2, <1>3, <1>6 DEF IInv, FirstStartIsEmpty, RunningIsExecuted, SameLoops
<1> QED
  BY <1>3, <1>4, <1>5, <1>7 DEF IInv

(* An execution that starts has counted nothing. *)
LEMMA StartedOK ==
    ASSUME NEW j \in Jobs, NEW m \in Modes
    PROVE  LET f == Started(j, m)
           IN /\ f \in Exec /\ f.pc = "starting" /\ f.job = j /\ Accounted(f)
              /\ f.successful = 0 /\ f.failed = 0 /\ f.skipped = 0 /\ f.conflicts = 0
<1> DEFINE f == Started(j, m)
<1>1. m.incremental \in BOOLEAN /\ m.bidirectional \in BOOLEAN
  BY SyncAssumption
<1>2. NewExec \in Exec
  BY DEF NewExec, Exec
<1>3. f \in Exec
  BY <1>1, <1>2, Zenon DEF Exec, Started
<1>4. /\ f.pc = "starting" /\ f.job = j /\ f.total = 0 /\ f.successful = 0 /\ f.failed = 0
      /\ f.skipped = 0 /\ f.conflicts = 0 /\ f.todo = 0
  BY DEF NewExec, Started
<1> HIDE DEF f
<1>5. Accounted(f)
  BY <1>4 DEF Accounted, Counted
<1> QED
  BY <1>3, <1>4, <1>5 DEF f

(* Starting an execution preserves it: its job was not running, so no other *)
(* execution of the job is under way.                                       *)
LEMMA ExecuteStep ==
    ASSUME IInv, NEW x \in Execs, NEW j \in Jobs, ExecuteSyncJob(x, j)
    PROVE  IInv'
<1>1. TypeOK /\ JobsKnown /\ QueueOK(pending, phase, bounds.used)
  BY DEF IInv
<1>2. PICK m \in Modes : execs' = [execs EXCEPT ![x] = Started(j, m)]
  BY Zenon DEF ExecuteSyncJob
<1> DEFINE f == Started(j, m)
<1>3. /\ f \in Exec /\ f.pc = "starting" /\ f.job = j /\ Accounted(f)
      /\ f.successful = 0 /\ f.failed = 0 /\ f.skipped = 0 /\ f.conflicts = 0
  BY StartedOK
<1>4. /\ execs[x].pc = "new" /\ jobs[j] \notin {"none", "running"}
      /\ jobs' = [jobs EXCEPT ![j] = "running"] /\ Persist(pending, jobs', x)
      /\ UNCHANGED <<store, phase, hookJobs, hookPhase, bounds>> /\ execs' = [execs EXCEPT ![x] = f]
  BY <1>2, Zenon DEF ExecuteSyncJob, MayExecute, hookVars
<1> HIDE DEF f
<1>5. /\ execs' \in [Execs -> Exec] /\ execs'[x] = f
      /\ \A y \in Execs : y # x => execs'[y] = execs[y]
  BY <1>1, <1>3, <1>4 DEF TypeOK
<1>6. /\ jobs' \in [Jobs -> JobStatus] /\ jobs'[j] = "running" /\ j \in bounds.used
       /\ \A k \in Jobs : k # j => jobs'[k] = jobs[k]
  BY <1>1, <1>4 DEF TypeOK, JobStatus, JobsKnown
<1>7. \A k \in Jobs \ bounds.used : jobs'[k] = "none"
  BY <1>1, <1>6 DEF JobsKnown
<1>8. StoreCatchesUp' /\ QueueOK(pending, phase, bounds.used)'
  BY <1>1, <1>4, <1>6, <1>7, PersistStores, Zenon
<1>9. TypeOK'
  BY <1>1, <1>4, <1>5, <1>6, <1>8 DEF TypeOK, QueueOK
<1>10. JobsKnown'
  BY <1>1, <1>3, <1>4, <1>5, <1>6, <1>7 DEF JobsKnown
<1>11. RecordsAccounted' /\ StartsAtZero'
  <2>1. RecordsAccounted'
    <3> SUFFICES ASSUME NEW y \in Execs PROVE Accounted(execs'[y])
      BY DEF RecordsAccounted
    <3> QED
      BY <1>3, <1>5 DEF IInv, RecordsAccounted
  <2>2. StartsAtZero'
    BY <1>3, <1>5 DEF IInv, StartsAtZero
  <2> QED
    BY <2>1, <2>2
<1>12. /\ \A y \in Execs : y # x => (Looping(y)' <=> Looping(y)) /\ execs'[y].job = execs[y].job
       /\ Looping(x)' /\ execs'[x].job = j
  BY <1>3, <1>5 DEF Looping
<1>13. LoadIsNew'
  <2> SUFFICES ASSUME phase = "loading", NEW k \in Jobs, store[k] # "none"
               PROVE  jobs'[k] = "none" /\ \A y \in Execs : Looping(y)' => execs'[y].job # k
    BY <1>4 DEF LoadIsNew
  <2>1. jobs[k] = "none" /\ \A y \in Execs : Looping(y) => execs[y].job # k
    BY DEF IInv, LoadIsNew
  <2>2. k # j
    BY <1>4, <2>1
  <2> QED
    BY <1>6, <1>12, <2>1, <2>2
<1>14. ASSUME bounds.puts = 0, bounds.errors = 0, NEW y \in Execs, Looping(y), y # x
       PROVE  execs[y].job # j /\ execs[y].job \in Jobs /\ jobs[execs[y].job] \in {"running", "none"}
  <2>1. jobs[execs[y].job] \in {"running", "none"}
    BY <1>14 DEF IInv, LoopingIsRunning
  <2>2. execs[y].job \in Jobs
    BY <1>1, <1>14 DEF JobsKnown, TypeOK, Looping
  <2> QED
    BY <1>4, <2>1, <2>2
<1>15. ExclusiveExecutions'
  <2> SUFFICES ASSUME bounds.puts = 0, bounds.errors = 0, NEW y \in Execs, NEW z \in Execs,
                      Looping(y)', Looping(z)', execs'[y].job = execs'[z].job
               PROVE  y = z
    BY <1>4 DEF ExclusiveExecutions
  <2>1. CASE y # x /\ z # x
    BY <1>12, <2>1 DEF IInv, ExclusiveExecutions
  <2>2. CASE y = x \/ z = x
    BY <1>12, <1>14, <2>2
  <2> QED
    BY <2>1, <2>2
<1>16. LoopingIsRunning'
  <2> SUFFICES ASSUME bounds.puts = 0, bounds.errors = 0, NEW y \in Execs, Looping(y)'
               PROVE  jobs'[execs'[y].job] \in {"running", "none"}
    BY <1>4 DEF LoopingIsRunning
  <2> QED
    BY <1>6, <1>12, <1>14
<1>17. Faults' = Faults
  BY <1>4 DEF Faults
<1>18. FirstStartIsEmpty'
  BY <1>4, <1>17 DEF IInv, FirstStartIsEmpty
<1>19. RunningIsExecuted'
  <2> SUFFICES ASSUME Faults = 0, NEW k \in Jobs, jobs'[k] = "running"
               PROVE  \E y \in Execs : Looping(y)' /\ execs'[y].job = k
    BY <1>17 DEF RunningIsExecuted
  <2>1. CASE k = j
    BY <1>12, <2>1
  <2>2. CASE k # j
    <3>1. PICK y \in Execs : Looping(y) /\ execs[y].job = k
      BY <1>6, <2>2 DEF IInv, RunningIsExecuted
    <3>2. y # x
      BY <1>4, <3>1 DEF Looping
    <3> QED
      BY <1>12, <3>1, <3>2
  <2> QED
    BY <2>1, <2>2
<1> QED
  BY <1>8, <1>9, <1>10, <1>11, <1>13, <1>15, <1>16, <1>18, <1>19 DEF IInv

(* The steps of Redis and of the routes' service at its start, and saves of *)
(* jobs that have not changed, preserve it.                                 *)
LEMMA RedisStep ==
    ASSUME IInv, RequestFails \/ JobsStored \/ JobsLoaded \/ MockData \/ CreateMapping
    PROVE  IInv'
<1>1. TypeOK /\ JobsKnown /\ QueueOK(pending, phase, bounds.used)
  BY DEF IInv
<1>2. /\ execs' = execs /\ (\A y \in Execs : Looping(y)' <=> Looping(y))
      /\ RecordsAccounted' /\ StartsAtZero'
  BY DEF IInv, RequestFails, JobsStored, JobsLoaded, MockData, CreateMapping, Looping, RecordsAccounted, StartsAtZero
<1>3. CASE RequestFails
  <2>1. QueueOK(Tail(pending), phase, bounds.used)
    BY <1>1, <1>3, QueueTail DEF RequestFails
  <2>2. /\ bounds' = [bounds EXCEPT !.errors = @ + 1] /\ pending' = Tail(pending)
        /\ UNCHANGED <<jobs, execs, store, phase, hookJobs, hookPhase>>
    BY <1>3 DEF RequestFails, hookVars
  <2>3. bounds.errors + 1 \in Nat /\ bounds.errors + 1 # 0
    BY <1>1 DEF TypeOK
  <2>4. /\ bounds' \in [used : SUBSET Jobs, puts : Nat, crashes : Nat, errors : Nat]
        /\ bounds'.used = bounds.used /\ bounds'.errors # 0
    BY <1>1, <2>2, <2>3 DEF TypeOK
  <2>5. Faults' # 0
    BY <2>4 DEF Faults
  <2>6. QueueOK(pending, phase, bounds.used)'
    BY <2>1, <2>2, <2>4
  <2>7. TypeOK' /\ JobsKnown' /\ LoadIsNew'
    <3>1. TypeOK'
      BY <1>1, <2>2, <2>4, <2>6 DEF TypeOK, QueueOK
    <3>2. JobsKnown'
      BY <1>1, <2>2, <2>4 DEF JobsKnown
    <3>3. LoadIsNew'
      BY <1>2, <2>2 DEF IInv, LoadIsNew
    <3> QED BY <3>1, <3>2, <3>3
  <2>8. ExclusiveExecutions' /\ LoopingIsRunning' /\ StoreCatchesUp' /\ RunningIsExecuted' /\ FirstStartIsEmpty'
    BY <2>4, <2>5 DEF ExclusiveExecutions, LoopingIsRunning, StoreCatchesUp, RunningIsExecuted, FirstStartIsEmpty
  <2> QED
    BY <1>2, <2>6, <2>7, <2>8 DEF IInv
<1>4. CASE JobsStored
  <2>1. /\ pending # <<>> /\ ~Head(pending).load /\ store' = Head(pending).jobs
        /\ pending' = Tail(pending) /\ UNCHANGED <<jobs, execs, phase, hookJobs, hookPhase, bounds>>
    BY <1>4 DEF JobsStored, hookVars
  <2>2. /\ Head(pending) = pending[1] /\ pending[1] \in Command
        /\ Len(Tail(pending)) = Len(pending) - 1 /\ Len(pending) \in Nat \ {0}
        /\ Tail(pending) \in Seq(Command)
        /\ \A i \in 1 .. Len(Tail(pending)) : Tail(pending)[i] = pending[i + 1]
        /\ QueueOK(Tail(pending), phase, bounds.used) /\ phase # "loading"
    BY <1>1, <2>1, QueueTail
  <2>3. store' \in [Jobs -> JobStatus]
    BY <2>1, <2>2 DEF Command
  <2>4. \A j \in Jobs \ bounds.used : store'[j] = "none"
    <3>1. 1 \in 1 .. Len(pending)
      BY <2>2
    <3> QED
      BY <1>1, <2>1, <2>2, <3>1 DEF QueueOK
  <2>5. TypeOK' /\ JobsKnown' /\ LoadIsNew' /\ QueueOK(pending, phase, bounds.used)' /\ FirstStartIsEmpty'
    BY <1>1, <2>1, <2>2, <2>3, <2>4 DEF TypeOK, JobsKnown, LoadIsNew, QueueOK, FirstStartIsEmpty
  <2>6. Faults' = Faults
    BY <2>1 DEF Faults
  <2>7. ExclusiveExecutions' /\ LoopingIsRunning' /\ RunningIsExecuted'
    BY <1>2, <2>1, <2>6, Zenon DEF IInv, ExclusiveExecutions, LoopingIsRunning, RunningIsExecuted
  <2>8. StoreCatchesUp'
    <3> SUFFICES ASSUME phase = "up", hookPhase = "up", bounds.errors = 0
                 PROVE  IF pending' = <<>> THEN store' \in {jobs, hookJobs}
                        ELSE pending'[Len(pending')].jobs
                                 = IF pending'[Len(pending')].from = "routes" THEN jobs ELSE hookJobs
      BY <2>1 DEF StoreCatchesUp
    <3>1. /\ pending[Len(pending)].jobs
                  = IF pending[Len(pending)].from = "routes" THEN jobs ELSE hookJobs
          /\ pending[Len(pending)].jobs \in {jobs, hookJobs}
      BY <2>1 DEF IInv, StoreCatchesUp
    <3>2. CASE pending' = <<>>
      <4>1. Tail(pending) = <<>>
        BY <2>1, <3>2
      <4>2. Len(Tail(pending)) = 0
        BY <4>1, Zenon
      <4> DEFINE n == Len(Tail(pending))
                 m == Len(pending)
      <4>3. n = m - 1 /\ m \in Nat /\ n = 0
        BY <2>2, <4>2, Zenon
      <4> HIDE DEF n, m
      <4>4. m = 1
        BY <4>3
      <4>5. Len(pending) = 1
        BY <4>4, Zenon DEF m
      <4> QED
        BY <2>1, <2>2, <3>1, <3>2, <4>5
    <3>3. CASE pending' # <<>>
      <4>1. Len(pending') \in Nat \ {0} /\ Len(pending') + 1 = Len(pending)
        BY <2>1, <2>2, <3>3, EmptySeq
      <4>2. Len(pending') \in 1 .. Len(Tail(pending))
        BY <2>1, <4>1
      <4>3. pending'[Len(pending')] = pending[Len(pending') + 1]
        BY <2>1, <2>2, <4>2
      <4> QED
        BY <3>1, <3>3, <4>1, <4>3
    <3> QED
      BY <3>2, <3>3
  <2> QED
    BY <1>2, <2>5, <2>7, <2>8 DEF IInv
<1>5. CASE JobsLoaded
  <2>1. /\ pending # <<>> /\ Head(pending).load /\ Head(pending).from = "routes"
        /\ pending' = Tail(pending) /\ phase' = "loaded"
        /\ jobs' = [j \in Jobs |-> IF store[j] # "none" THEN store[j] ELSE jobs[j]]
        /\ UNCHANGED <<execs, store, hookJobs, hookPhase, bounds>>
    BY <1>5 DEF JobsLoaded, Loaded, hookVars
  <2>2. QueueOK(Tail(pending), "loaded", bounds.used) /\ phase = "loading"
    BY <1>1, <2>1, QueueTail, Zenon
  <2>3. jobs' \in [Jobs -> JobStatus] /\ \A j \in Jobs : store[j] = "none" => jobs'[j] = jobs[j]
    BY <1>1, <2>1 DEF TypeOK
  <2>4. QueueOK(pending, phase, bounds.used)' /\ LoadIsNew' /\ FirstStartIsEmpty' /\ StoreCatchesUp'
    BY <2>1, <2>2 DEF LoadIsNew, FirstStartIsEmpty, StoreCatchesUp
  <2>5. TypeOK' /\ JobsKnown'
    BY <1>1, <2>1, <2>2, <2>3 DEF TypeOK, JobsKnown, QueueOK, Phase
  <2>6. ASSUME NEW y \in Execs, Looping(y)
        PROVE  jobs'[execs[y].job] = jobs[execs[y].job]
    <3>1. execs[y].job \in Jobs
      BY <1>1, <2>6 DEF JobsKnown, TypeOK, Looping
    <3>2. store[execs[y].job] = "none"
      BY <2>2, <2>6, <3>1 DEF IInv, LoadIsNew
    <3> QED
      BY <2>3, <3>1, <3>2
  <2>7. ExclusiveExecutions' /\ LoopingIsRunning'
    BY <1>2, <2>1, <2>6 DEF IInv, ExclusiveExecutions, LoopingIsRunning
  <2>8. Faults' = Faults
    BY <2>1 DEF Faults
  <2>9. Faults = 0 => \A j \in Jobs : jobs'[j] = jobs[j]
    BY <2>2, <2>3 DEF IInv, FirstStartIsEmpty, NoJobs
  <2>10. RunningIsExecuted'
    BY <1>2, <2>8, <2>9 DEF IInv, RunningIsExecuted
  <2> QED
    BY <1>2, <2>4, <2>5, <2>7, <2>10 DEF IInv
<1>6. CASE MockData \/ CreateMapping
  <2>1. PICK by \in {None, Boot} :
          /\ (phase = "loaded" /\ phase' = "up") \/ phase' = phase
          /\ Persist(pending, jobs', by)
          /\ UNCHANGED <<jobs, execs, store, hookJobs, hookPhase, bounds>>
    BY <1>6, Zenon DEF MockData, CreateMapping, hookVars
  <2>2. QueueOK(pending, phase', bounds.used)
    BY <1>1, <2>1 DEF QueueOK
  <2>3. StoreCatchesUp' /\ QueueOK(pending, phase, bounds.used)'
    BY <1>1, <2>1, <2>2, PersistStores DEF TypeOK, JobsKnown
  <2>5. Faults' = Faults
    BY <2>1 DEF Faults
  <2>4. TypeOK' /\ JobsKnown' /\ LoadIsNew' /\ FirstStartIsEmpty'
    <3>1. TypeOK' /\ JobsKnown'
      BY <1>1, <2>1, <2>3 DEF TypeOK, JobsKnown, QueueOK, Phase
    <3>2. phase' = "loading" => phase = "loading"
      BY <2>1
    <3>3. LoadIsNew' /\ FirstStartIsEmpty'
      BY <1>2, <2>1, <2>5, <3>2 DEF IInv, LoadIsNew, FirstStartIsEmpty
    <3> QED
      BY <3>1, <3>3
  <2>6. ExclusiveExecutions' /\ LoopingIsRunning' /\ RunningIsExecuted'
    BY <1>2, <2>1, <2>5 DEF IInv, ExclusiveExecutions, LoopingIsRunning, RunningIsExecuted
  <2> QED
    BY <1>2, <2>3, <2>4, <2>6 DEF IInv
<1> QED
  BY <1>3, <1>4, <1>5, <1>6

(* The steps of the service of the webhooks preserve it: they leave alone   *)
(* what the routes' service works on, and save what they change.            *)
LEMMA HookStep ==
    ASSUME IInv, \/ HookLoaded \/ HookMockData
                 \/ \E j \in Jobs : HookMockJob(j) \/ WebhookJob(j)
    PROVE  IInv'
<1>1. TypeOK /\ JobsKnown /\ QueueOK(pending, phase, bounds.used)
  BY DEF IInv
<1>2. UNCHANGED <<jobs, execs, store, phase>>
  BY DEF HookLoaded, HookMockData, HookMockJob, WebhookJob
<1>3. ASSUME hookJobs' \in [Jobs -> JobStatus], hookPhase' \in Phase,
             bounds' \in [used : SUBSET Jobs, puts : Nat, crashes : Nat, errors : Nat],
             bounds'.puts = bounds.puts, bounds'.crashes = bounds.crashes, bounds'.errors = bounds.errors,
             bounds.used \subseteq bounds'.used,
             \A k \in Jobs \ bounds'.used : hookJobs'[k] = "none",
             QueueOK(pending, phase, bounds.used)', StoreCatchesUp'
      PROVE  IInv'
  <2>1. Faults' = Faults /\ \A y \in Execs : Looping(y)' <=> Looping(y)
    BY <1>2, <1>3 DEF Faults, Looping
  <2>2. TypeOK'
    BY <1>1, <1>2, <1>3 DEF TypeOK, QueueOK
  <2>3. JobsKnown' /\ StartsAtZero' /\ RecordsAccounted'
    BY <1>2, <1>3 DEF IInv, JobsKnown, StartsAtZero, RecordsAccounted
  <2>4. LoadIsNew' /\ LoopingIsRunning' /\ ExclusiveExecutions'
    BY <1>2, <1>3, <2>1 DEF IInv, LoadIsNew, LoopingIsRunning, ExclusiveExecutions
  <2>5. FirstStartIsEmpty' /\ RunningIsExecuted'
    BY <1>2, <2>1 DEF IInv, FirstStartIsEmpty, RunningIsExecuted
  <2> QED
    BY <1>3, <2>2, <2>3, <2>4, <2>5 DEF IInv
<1>4. CASE HookLoaded
  <2>1. /\ pending # <<>> /\ Head(pending).load /\ Head(pending).from = "webhooks"
        /\ hookJobs' = [j \in Jobs |-> IF store[j] # "none" THEN store[j] ELSE hookJobs[j]]
        /\ pending' = Tail(pending) /\ hookPhase' = "loaded" /\ bounds' = bounds
    BY <1>4 DEF HookLoaded, Loaded
  <2>2. QueueOK(Tail(pending), phase, bounds.used)
    BY <1>1, <2>1, QueueTail
  <2>3. QueueOK(pending, phase, bounds.used)' /\ StoreCatchesUp' /\ hookPhase' \in Phase
    BY <1>2, <2>1, <2>2 DEF StoreCatchesUp, Phase
  <2>4. hookJobs' \in [Jobs -> JobStatus] /\ \A k \in Jobs \ bounds'.used : hookJobs'[k] = "none"
    BY <1>1, <2>1 DEF TypeOK, JobsKnown
  <2>5. bounds' \in [used : SUBSET Jobs, puts : Nat, crashes : Nat, errors : Nat]
    BY <1>1, <2>1 DEF TypeOK
  <2> QED
    BY <1>3, <2>1, <2>3, <2>4, <2>5
<1>5. CASE HookMockData
  <2>1. HookPersist(hookJobs', Boot) /\ hookJobs' = hookJobs /\ hookPhase' = "up" /\ bounds' = bounds
    BY <1>5 DEF HookMockData
  <2>2. /\ hookJobs' \in [Jobs -> JobStatus] /\ hookPhase' \in Phase
        /\ \A k \in Jobs \ bounds'.used : hookJobs'[k] = "none"
        /\ bounds' \in [used : SUBSET Jobs, puts : Nat, crashes : Nat, errors : Nat]
    BY <1>1, <2>1 DEF TypeOK, JobsKnown, Phase
  <2>3. QueueOK(pending, phase, bounds.used)' /\ StoreCatchesUp'
    BY <1>1, <1>2, <2>1, <2>2, HookPersistStores
  <2> QED
    BY <1>3, <2>1, <2>2, <2>3
<1>6. ASSUME NEW j \in Jobs, HookMockJob(j) \/ WebhookJob(j)
      PROVE  IInv'
  <2>1. PICK by \in {None, Boot} :
          /\ HookPersist(hookJobs', by) /\ hookJobs' = [hookJobs EXCEPT ![j] = "idle"]
          /\ hookPhase' = hookPhase /\ bounds' = [bounds EXCEPT !.used = @ \cup {j}]
    BY <1>6, Zenon DEF HookMockJob, WebhookJob, NewId
  <2>2. /\ bounds' \in [used : SUBSET Jobs, puts : Nat, crashes : Nat, errors : Nat]
        /\ bounds'.puts = bounds.puts /\ bounds'.crashes = bounds.crashes
        /\ bounds'.errors = bounds.errors /\ bounds'.used = bounds.used \cup {j}
    BY <1>1, <2>1, Zenon DEF TypeOK
  <2>3. /\ hookJobs' \in [Jobs -> JobStatus] /\ hookPhase' \in Phase
        /\ \A k \in Jobs \ bounds'.used : hookJobs'[k] = "none"
    BY <1>1, <2>1, <2>2 DEF TypeOK, JobsKnown, JobStatus
  <2>4. QueueOK(pending, phase, bounds'.used)
    BY <1>1, <2>2 DEF QueueOK
  <2>5. QueueOK(pending, phase, bounds.used)' /\ StoreCatchesUp'
    BY <1>2, <2>1, <2>3, <2>4, HookPersistStores
  <2> QED
    BY <1>3, <2>2, <2>3, <2>5
<1> QED
  BY <1>4, <1>5, <1>6

(* A restart preserves it: no execution is left, and nothing is in memory. *)
LEMMA RestartStep ==
    ASSUME IInv, Restart
    PROVE  IInv'
<1>1. TypeOK /\ JobsKnown
  BY DEF IInv
<1>2. /\ bounds' = [bounds EXCEPT !.crashes = @ + 1] /\ jobs' = NoJobs /\ hookJobs' = NoJobs
      /\ pending' = FirstCommands /\ phase' = "loading" /\ hookPhase' = "loading" /\ store' = store
      /\ execs' = [x \in Execs |-> IF execs[x].pc = "new" THEN NewExec ELSE Forgotten(execs[x])]
  BY DEF Restart
<1>3. bounds.crashes + 1 \in Nat /\ bounds.crashes + 1 # 0
  BY <1>1 DEF TypeOK
<1>4. /\ bounds' \in [used : SUBSET Jobs, puts : Nat, crashes : Nat, errors : Nat]
      /\ bounds'.used = bounds.used /\ bounds'.crashes # 0
  BY <1>1, <1>2, <1>3 DEF TypeOK
<1>5. Faults' # 0
  BY <1>4 DEF Faults
<1>6. NewExec \in Exec /\ Accounted(NewExec) /\ NewExec.pc = "new"
  BY DEF NewExec, Exec, Accounted, Counted
<1>7. ASSUME NEW x \in Execs
      PROVE  /\ execs'[x] \in Exec /\ Accounted(execs'[x]) /\ execs'[x].pc \in {"new", "done"}
             /\ execs'[x].pc = "done" => execs[x].pc # "new" /\ execs'[x].job = execs[x].job
  <2>1. execs[x] \in Exec
    BY <1>1 DEF TypeOK
  <2>2. CASE execs[x].pc = "new"
    BY <1>2, <1>6, <2>2
  <2>3. CASE execs[x].pc # "new"
    <3>1. execs'[x] = Forgotten(execs[x])
      BY <1>2, <2>3
    <3> QED
      BY <2>1, <2>3, <3>1, ForgottenOK
  <2> QED
    BY <2>2, <2>3
<1>8. execs' \in [Execs -> Exec]
  BY <1>2, <1>7
<1>9. NoJobs \in [Jobs -> JobStatus] /\ \A j \in Jobs : NoJobs[j] = "none"
  BY DEF NoJobs, JobStatus
<1>11. QueueOK(pending, phase, bounds.used)'
  BY <1>2, FirstQueueOK
<1>12. TypeOK'
  BY <1>1, <1>2, <1>4, <1>8, <1>9, <1>11, Zenon DEF TypeOK, QueueOK, Phase
<1>13. \A x \in Execs : ~Looping(x)'
  BY <1>7 DEF Looping
<1>14. JobsKnown' /\ LoadIsNew'
  BY <1>1, <1>2, <1>4, <1>7, <1>9, <1>13 DEF JobsKnown, LoadIsNew
<1>15. RecordsAccounted' /\ StartsAtZero'
  BY <1>7 DEF RecordsAccounted, StartsAtZero
<1>16. ExclusiveExecutions' /\ LoopingIsRunning'
  BY <1>13 DEF ExclusiveExecutions, LoopingIsRunning
<1>17. FirstStartIsEmpty' /\ RunningIsExecuted' /\ StoreCatchesUp'
  BY <1>2, <1>5 DEF FirstStartIsEmpty, RunningIsExecuted, StoreCatchesUp
<1> QED
  BY <1>11, <1>12, <1>14, <1>15, <1>16, <1>17 DEF IInv

(* The invariant holds in every reachable state. *)
LEMMA Inductive == Spec => []IInv
<1>1. IInv /\ [Next]_vars => IInv'
  <2> SUFFICES ASSUME IInv, [Next]_vars PROVE IInv'
    OBVIOUS
  <2>1. CASE UNCHANGED vars
    <3>1. /\ jobs' = jobs /\ execs' = execs /\ store' = store /\ pending' = pending
          /\ phase' = phase /\ hookJobs' = hookJobs /\ hookPhase' = hookPhase /\ bounds' = bounds
      BY <2>1 DEF vars
    <3>2. Faults' = Faults /\ \A x \in Execs : Looping(x)' <=> Looping(x)
      BY <3>1 DEF Faults, Looping
    <3>3. TypeOK' /\ JobsKnown' /\ StartsAtZero' /\ RecordsAccounted'
      BY <3>1 DEF IInv, TypeOK, JobsKnown, StartsAtZero, RecordsAccounted
    <3>4. QueueOK(pending, phase, bounds.used)' /\ StoreCatchesUp'
      BY <3>1 DEF IInv, StoreCatchesUp
    <3>5. LoadIsNew' /\ LoopingIsRunning' /\ ExclusiveExecutions'
      BY <3>1, <3>2 DEF IInv, LoadIsNew, LoopingIsRunning, ExclusiveExecutions
    <3>6. FirstStartIsEmpty' /\ RunningIsExecuted'
      BY <3>1, <3>2 DEF IInv, FirstStartIsEmpty, RunningIsExecuted
    <3> QED
      BY <3>3, <3>4, <3>5, <3>6 DEF IInv
  <2>2. CASE Next
    BY <2>2, RequestStep, ExecuteStep, CancelStep, ExecutionStep, SaveFailure, RedisStep, HookStep, RestartStep DEF Next
  <2> QED
    BY <2>1, <2>2
<1> QED
  BY <1>1, InitIInv, PTL DEF Spec

(* Every variable keeps its type. *)
THEOREM TypeCorrect == Spec => []TypeOK
<1>1. IInv => TypeOK
  BY DEF IInv
<1> QED
  BY <1>1, Inductive, PTL

(* However requests, executions, saves and restarts interleave,             *)
(* executeSyncJob does not let a second execution of a job start before the *)
(* loop of the first has ended, unless a request overwrote the job's status *)
(* or a save failed.                                                        *)
THEOREM OneExecutionAtATime == Spec => []ExclusiveExecutions
<1>1. IInv => ExclusiveExecutions
  BY DEF IInv
<1> QED
  BY <1>1, Inductive, PTL

(* performSync loses and double-counts no record, on every path through its *)
(* loop, failed saves of conflicts included.                                *)
THEOREM StatisticsAddUp == Spec => []RecordsAccounted
<1>1. IInv => RecordsAccounted
  BY DEF IInv
<1> QED
  BY <1>1, Inductive, PTL

(* The saves of overlapping requests, executions and webhooks cannot leave  *)
(* an older or a mixed list behind: what persistData stores last is the     *)
(* present list of one of the two services.                                 *)
THEOREM SavesCatchUp == Spec => []StoreCatchesUp
<1>1. IInv => StoreCatchesUp
  BY DEF IInv
<1> QED
  BY <1>1, Inductive, PTL

(* Without a fault, a job marked running has an execution under way.        *)
THEOREM RunningJobsRun == Spec => []RunningIsExecuted
<1>1. IInv => RunningIsExecuted
  BY DEF IInv
<1> QED
  BY <1>1, Inductive, PTL
=============================================================================
