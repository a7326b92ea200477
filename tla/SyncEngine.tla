------------------------------ MODULE SyncEngine ------------------------------
(***************************************************************************)
(* Sync jobs and their executions                                          *)
(* (apps/api/src/services/sync-engine-service.ts and the routes of         *)
(* apps/api/src/routes/sync-engine.ts): creation, updates and deletion of  *)
(* jobs, executions that run through their records, cancellation, the list *)
(* of jobs kept in Redis, and restarts.  The process has two such          *)
(* services: the one of the routes, and one that                           *)
(* webhook-processing-service.ts makes for the jobs of its webhooks.  Each *)
(* has its own jobs and saves them all to the same key.                    *)
(*                                                                         *)
(* An action is what the code does between two awaits that really wait:    *)
(* for Redis, or for the other system.  Redis executes the commands of the *)
(* connection in the order they were issued.                               *)
(***************************************************************************)
EXTENDS Naturals, Sequences, FiniteSets

CONSTANTS
    Jobs,            \* ids of jobs
    Execs,           \* ids of executions
    Modes,           \* [incremental, bidirectional] of an execution
    None,            \* a command that a request awaits
    Boot,            \* a command that initializeService() awaits
    MaxRecords,      \* bound: records of an execution, of all its entity types
    MaxPending,      \* bound: saves that Redis has not executed when a request or mock data comes
    MaxFaults        \* bound: requests that overwrite a status, restarts, commands that fail

ASSUME SyncAssumption ==
    /\ None \notin Execs /\ Boot \notin Execs \cup {None}
    /\ Modes \subseteq [incremental : BOOLEAN, bidirectional : BOOLEAN]
    /\ MaxRecords \in Nat /\ MaxPending \in Nat /\ MaxFaults \in Nat

VARIABLES
    jobs,      \* status of each job in this.syncJobs of the routes; "none" is not there
    execs,     \* the executions
    store,     \* sync:jobs in Redis
    pending,   \* commands on sync:jobs that Redis has not executed
    phase,     \* how far initializeService() is
    hookJobs,  \* this.syncJobs of the service of the webhooks, which executes nothing
    hookPhase, \* how far its initializeService() is
    bounds     \* ids of jobs used so far, and how often each bounded event happened

hookVars == <<hookJobs, hookPhase>>
vars == <<jobs, execs, store, pending, phase, hookJobs, hookPhase, bounds>>

(* The code tells "running" from the others: "idle" is also "completed",    *)
(* "failed" and "paused".                                                   *)
JobStatus == {"none", "idle", "running"}
NoJobs == [j \in Jobs |-> "none"]
Phase == {"loading", "loaded", "up"}

(* pc is what an execution awaits: the save of the job ("starting"), of a   *)
(* conflict, a record that is synced to the target or back to the source,   *)
(* the save of its outcome.  A "stuck" one was given up by an exception     *)
(* and left in the map, a "done" one has ended or was lost by a restart.    *)
Exec == [pc : {"new", "starting", "conflict", "target", "source", "completing", "failing", "done",
               "stuck"},
         job : Jobs \cup {None}, status : {"running", "completed", "failed", "cancelled"},
         active : BOOLEAN, incremental : BOOLEAN, bidirectional : BOOLEAN,
         total : Nat, todo : Nat, successful : Nat, failed : Nat, skipped : Nat, conflicts : Nat]

NewExec == [pc |-> "new", job |-> None, status |-> "running", active |-> FALSE,
            incremental |-> FALSE, bidirectional |-> FALSE, total |-> 0, todo |-> 0,
            successful |-> 0, failed |-> 0, skipped |-> 0, conflicts |-> 0]

Looping(x) == execs[x].pc \in {"starting", "conflict", "target", "source"}

Faults == bounds.puts + bounds.crashes + bounds.errors

(* A command reads the list (load) or writes it, for one of the services;   *)
(* by is who awaits it.                                                     *)
Command == [load : BOOLEAN, jobs : [Jobs -> JobStatus], by : Execs \cup {None, Boot},
            from : {"routes", "webhooks"}]

Load(service) == [load |-> TRUE, jobs |-> NoJobs, by |-> Boot, from |-> service]

(* Both services are made when the process starts, that of the routes first. *)
FirstCommands == <<Load("routes"), Load("webhooks")>>

Init ==
    /\ jobs = NoJobs /\ hookJobs = NoJobs
    /\ execs = [x \in Execs |-> NewExec]
    /\ store = NoJobs
    /\ pending = FirstCommands
    /\ phase = "loading" /\ hookPhase = "loading"
    /\ bounds = [used |-> {}, puts |-> 0, crashes |-> 0, errors |-> 0]

-----------------------------------------------------------------------------
(* persistData: the list of jobs is read when the command is issued.  The   *)
(* two commands that follow it write the mappings and the conflicts.  (The  *)
(* list expires after an hour without a save; here it does not.)            *)
Persist(q, js, x) ==
    pending' = Append(q, [load |-> FALSE, jobs |-> js, by |-> x, from |-> "routes"])

HookPersist(js, x) ==
    pending' = Append(pending, [load |-> FALSE, jobs |-> js, by |-> x, from |-> "webhooks"])

Room == Cardinality({i \in 1 .. Len(pending) : ~pending[i].load}) < MaxPending

(* The command that an execution awaits has been executed. *)
Answered(x) == \A i \in 1 .. Len(pending) : pending[i].by # x

(* The execution is returned to the client and forgotten. *)
Forgotten(e) == [NewExec EXCEPT !.pc = "done", !.job = e.job]

Ended(x) == execs' = [execs EXCEPT ![x] = Forgotten(execs[x])]

(* The end of executeSyncJob with the given outcome: the job may have been  *)
(* deleted, and then updateSyncJob does nothing.                            *)
Finish(x, e, q, outcome) ==
    IF jobs[e.job] = "none"
    THEN /\ Ended(x)
         /\ pending' = q
         /\ UNCHANGED jobs
    ELSE /\ execs' = [execs EXCEPT ![x] = [e EXCEPT !.pc = IF outcome = "completed" THEN "completing" ELSE "failing",
                                                    !.status = outcome]]
         /\ jobs' = [jobs EXCEPT ![e.job] = "idle"]
         /\ Persist(q, jobs', x)

Passed(e, skip, fail) ==
    [e EXCEPT !.skipped = @ + skip, !.failed = @ + fail, !.todo = @ - (skip + fail)]

(* The next record is in conflict or synced to the target. *)
Taken(e, pc) == [e EXCEPT !.pc = pc, !.todo = @ - 1]

(* The loop of performSync up to its next await.  Without waiting it skips  *)
(* unchanged records of an incremental run and counts records that lack a   *)
(* required field as failed.                                                *)
Advance(x, e, q) ==
    \E skip, fail \in 0 .. e.todo :
        /\ skip + fail <= e.todo
        /\ skip > 0 => e.incremental
        /\ LET f == Passed(e, skip, fail)
           IN IF f.todo = 0 THEN Finish(x, f, q, "completed")
              ELSE /\ UNCHANGED jobs
                   /\ \/ /\ execs' = [execs EXCEPT ![x] = Taken(f, "conflict")]
                         /\ Persist(q, jobs, x)
                      \/ /\ execs' = [execs EXCEPT ![x] = Taken(f, "target")]
                         /\ pending' = q

-----------------------------------------------------------------------------
(* The routes. *)

(* The id of a new job. *)
NewId(j) ==
    /\ j \notin bounds.used
    /\ bounds' = [bounds EXCEPT !.used = @ \cup {j}]

CreateJob(j) ==
    /\ NewId(j)
    /\ Room
    /\ jobs' = [jobs EXCEPT ![j] = "idle"]
    /\ Persist(pending, jobs', None)
    /\ UNCHANGED <<execs, store, phase, hookVars>>

(* POST /mappings changes no job, and saves them all. *)
CreateMapping ==
    /\ Room
    /\ Persist(pending, jobs, None)
    /\ UNCHANGED <<jobs, execs, store, phase, hookVars, bounds>>

(* PUT /jobs/:id passes the body to updateSyncJob, a status included.  A    *)
(* request that leaves the status alone changes nothing here.               *)
PutJob(j, s) ==
    /\ jobs[j] # "none"
    /\ Faults < MaxFaults
    /\ Room
    /\ bounds' = [bounds EXCEPT !.puts = @ + 1]
    /\ jobs' = [jobs EXCEPT ![j] = s]
    /\ Persist(pending, jobs', None)
    /\ UNCHANGED <<execs, store, phase, hookVars>>

Cancelled(e) == [e EXCEPT !.status = "cancelled", !.active = FALSE]

Cancellable(x) == execs[x].active /\ execs[x].status = "running"

(* Mutant of CancelExecution: it also ends the loop, and leaves the job. *)
CancelExecutionEnds(x) ==
    /\ Cancellable(x)
    /\ execs' = [execs EXCEPT ![x] = [Cancelled(execs[x]) EXCEPT !.pc = "done"]]
    /\ UNCHANGED <<jobs, store, pending, phase, hookVars, bounds>>

CancelExecution(x) ==
    /\ Cancellable(x)
    /\ execs' = [execs EXCEPT ![x] = Cancelled(execs[x])]
    /\ UNCHANGED <<jobs, store, pending, phase, hookVars, bounds>>

(* Mutant of DeleteSyncJob: the list of jobs is not saved. *)
DeleteSyncJobUnsaved(j) ==
    LET ofJob == {x \in Execs : Cancellable(x) /\ execs[x].job = j}
    IN /\ jobs[j] # "none"
       /\ Room
       /\ \/ ofJob = {} /\ UNCHANGED execs
          \/ \E x \in ofJob : execs' = [execs EXCEPT ![x] = Cancelled(execs[x])]
       /\ jobs' = [jobs EXCEPT ![j] = "none"]
       /\ UNCHANGED <<store, pending, phase, hookVars, bounds>>

(* One active execution of the job is cancelled, if there is one. *)
DeleteSyncJob(j) ==
    LET ofJob == {x \in Execs : Cancellable(x) /\ execs[x].job = j}
    IN /\ jobs[j] # "none"
       /\ Room
       /\ \/ ofJob = {} /\ UNCHANGED execs
          \/ \E x \in ofJob : execs' = [execs EXCEPT ![x] = Cancelled(execs[x])]
       /\ jobs' = [jobs EXCEPT ![j] = "none"]
       /\ Persist(pending, jobs', None)
       /\ UNCHANGED <<store, phase, hookVars, bounds>>

(* Mutant of MayExecute: a running job is executed again. *)
MayExecuteAgain(j) == jobs[j] # "none"

MayExecute(j) == jobs[j] \notin {"none", "running"}

Started(j, m) ==
    [NewExec EXCEPT !.pc = "starting", !.job = j, !.active = TRUE,
                    !.incremental = m.incremental, !.bidirectional = m.bidirectional]

ExecuteSyncJob(x, j) ==
    /\ execs[x].pc = "new"
    /\ MayExecute(j)
    /\ Room
    /\ \E m \in Modes : execs' = [execs EXCEPT ![x] = Started(j, m)]
    /\ jobs' = [jobs EXCEPT ![j] = "running"]
    /\ Persist(pending, jobs', x)
    /\ UNCHANGED <<store, phase, hookVars, bounds>>

-----------------------------------------------------------------------------
(* An execution goes on after an await.  Fetching does not wait; total and  *)
(* todo cover all entity types, which the code fetches one after the other. *)

StartSaved(x) ==
    /\ execs[x].pc = "starting" /\ Answered(x)
    /\ \E n \in 0 .. MaxRecords : Advance(x, [execs[x] EXCEPT !.total = n, !.todo = n], pending)
    /\ UNCHANGED <<store, phase, hookVars, bounds>>

(* Mutant of ConflictSaved: the record in conflict is synced as well. *)
ConflictSavedSynced(x) ==
    /\ execs[x].pc = "conflict" /\ Answered(x)
    /\ Advance(x, [execs[x] EXCEPT !.conflicts = @ + 1, !.successful = @ + 1], pending)
    /\ UNCHANGED <<store, phase, hookVars, bounds>>

ConflictSaved(x) ==
    /\ execs[x].pc = "conflict" /\ Answered(x)
    /\ Advance(x, [execs[x] EXCEPT !.conflicts = @ + 1], pending)
    /\ UNCHANGED <<store, phase, hookVars, bounds>>

TargetSynced(x) ==
    LET e == [execs[x] EXCEPT !.successful = @ + 1]
    IN /\ execs[x].pc = "target"
       /\ IF e.bidirectional
          THEN execs' = [execs EXCEPT ![x] = [e EXCEPT !.pc = "source"]] /\ UNCHANGED <<jobs, pending>>
          ELSE Advance(x, e, pending)
       /\ UNCHANGED <<store, phase, hookVars, bounds>>

SourceSynced(x) ==
    /\ execs[x].pc = "source"
    /\ Advance(x, execs[x], pending)
    /\ UNCHANGED <<store, phase, hookVars, bounds>>

StatusSaved(x) ==
    /\ execs[x].pc \in {"completing", "failing"} /\ Answered(x)
    /\ Ended(x)
    /\ UNCHANGED <<jobs, store, pending, phase, hookVars, bounds>>

-----------------------------------------------------------------------------
(* Redis, and restarts. *)

(* One of the commands that an execution awaits fails.  The first save of   *)
(* executeSyncJob is outside its try block; a conflict that is not saved    *)
(* fails its record; a completed execution whose outcome is not saved fails.*)
SaveFails(x) ==
    LET q == IF pending # <<>> /\ Head(pending).by = x THEN Tail(pending) ELSE pending
        e == execs[x]
    IN /\ Faults < MaxFaults
       /\ \A i \in 1 .. Len(pending) : pending[i].by = x => i = 1
       /\ bounds' = [bounds EXCEPT !.errors = @ + 1]
       /\ \/ /\ e.pc = "starting"
             /\ execs' = [execs EXCEPT ![x] = [e EXCEPT !.pc = "stuck"]]
             /\ pending' = q
             /\ UNCHANGED jobs
          \/ e.pc = "conflict" /\ Advance(x, [e EXCEPT !.failed = @ + 1], q)
          \/ e.pc = "completing" /\ Finish(x, e, q, "failed")
          \/ e.pc = "failing" /\ Ended(x) /\ pending' = q /\ UNCHANGED jobs
       /\ UNCHANGED <<store, phase, hookVars>>

(* The save of a request fails, and the request with it. *)
RequestFails ==
    /\ Faults < MaxFaults
    /\ pending # <<>> /\ ~Head(pending).load /\ Head(pending).by = None
    /\ bounds' = [bounds EXCEPT !.errors = @ + 1]
    /\ pending' = Tail(pending)
    /\ UNCHANGED <<jobs, execs, store, phase, hookVars>>

JobsStored ==
    /\ pending # <<>> /\ ~Head(pending).load
    /\ store' = Head(pending).jobs
    /\ pending' = Tail(pending)
    /\ UNCHANGED <<jobs, execs, phase, hookVars, bounds>>

(* The process ends, also because a command fails that initializeService()  *)
(* awaits, and a new one starts.                                            *)
Restart ==
    /\ Faults < MaxFaults
    /\ bounds' = [bounds EXCEPT !.crashes = @ + 1]
    /\ jobs' = NoJobs /\ hookJobs' = NoJobs
    /\ execs' = [x \in Execs |-> IF execs[x].pc = "new" THEN NewExec ELSE Forgotten(execs[x])]
    /\ pending' = FirstCommands
    /\ phase' = "loading" /\ hookPhase' = "loading"
    /\ UNCHANGED store

-----------------------------------------------------------------------------
(* initializeService of each service, and the jobs of webhooks. *)

(* loadConfiguration: what is stored is added to what requests have created *)
(* meanwhile.                                                               *)
Loaded(js) == [j \in Jobs |-> IF store[j] # "none" THEN store[j] ELSE js[j]]

JobsLoaded ==
    /\ pending # <<>> /\ Head(pending).load /\ Head(pending).from = "routes"
    /\ jobs' = Loaded(jobs)
    /\ pending' = Tail(pending)
    /\ phase' = "loaded"
    /\ UNCHANGED <<execs, store, hookVars, bounds>>

HookLoaded ==
    /\ pending # <<>> /\ Head(pending).load /\ Head(pending).from = "webhooks"
    /\ hookJobs' = Loaded(hookJobs)
    /\ pending' = Tail(pending)
    /\ hookPhase' = "loaded"
    /\ UNCHANGED <<jobs, execs, store, phase, bounds>>

(* generateMockData creates three jobs and saves them after each, waiting   *)
(* for the save; here as many as there are ids.                             *)
Booted(service) ==
    \A i \in 1 .. Len(pending) : pending[i].by = Boot => pending[i].from # service

MockJob(j) ==
    /\ phase = "loaded" /\ Booted("routes") /\ Room
    /\ NewId(j)
    /\ jobs' = [jobs EXCEPT ![j] = "idle"]
    /\ Persist(pending, jobs', Boot)
    /\ UNCHANGED <<execs, store, phase, hookVars>>

HookMockJob(j) ==
    /\ hookPhase = "loaded" /\ Booted("webhooks") /\ Room
    /\ NewId(j)
    /\ hookJobs' = [hookJobs EXCEPT ![j] = "idle"]
    /\ HookPersist(hookJobs', Boot)
    /\ UNCHANGED <<jobs, execs, store, phase, hookPhase>>

(* Then it creates mappings and conflicts, and saves the jobs, unchanged by *)
(* it, after each mapping and at the end: here once (between its saves,     *)
(* CreateMapping has the same effect).                                      *)
MockData ==
    /\ phase = "loaded" /\ Booted("routes") /\ Room
    /\ Persist(pending, jobs, Boot)
    /\ phase' = "up"
    /\ UNCHANGED <<jobs, execs, store, hookVars, bounds>>

HookMockData ==
    /\ hookPhase = "loaded" /\ Booted("webhooks") /\ Room
    /\ HookPersist(hookJobs, Boot)
    /\ hookPhase' = "up"
    /\ UNCHANGED <<jobs, execs, store, phase, hookJobs, bounds>>

(* A webhook has been received: its processor creates a job for it. *)
WebhookJob(j) ==
    /\ NewId(j)
    /\ Room
    /\ hookJobs' = [hookJobs EXCEPT ![j] = "idle"]
    /\ HookPersist(hookJobs', None)
    /\ UNCHANGED <<jobs, execs, store, phase, hookPhase>>

Next ==
    \/ \E j \in Jobs : \/ CreateJob(j) \/ DeleteSyncJob(j) \/ WebhookJob(j) \/ MockJob(j) \/ HookMockJob(j)
                       \/ \E s \in {"idle", "running"} : PutJob(j, s)
                       \/ \E x \in Execs : ExecuteSyncJob(x, j)
    \/ \E x \in Execs : \/ CancelExecution(x) \/ StartSaved(x) \/ ConflictSaved(x) \/ TargetSynced(x)
                        \/ SourceSynced(x) \/ StatusSaved(x) \/ SaveFails(x)
    \/ CreateMapping \/ RequestFails \/ JobsStored \/ Restart
    \/ JobsLoaded \/ MockData \/ HookLoaded \/ HookMockData

Spec == Init /\ [][Next]_vars

-----------------------------------------------------------------------------
(* Properties. *)

(* Every variable keeps its type. *)
TypeOK ==
    /\ jobs \in [Jobs -> JobStatus]
    /\ execs \in [Execs -> Exec]
    /\ store \in [Jobs -> JobStatus]
    /\ pending \in Seq(Command)
    /\ phase \in Phase
    /\ hookJobs \in [Jobs -> JobStatus]
    /\ hookPhase \in Phase
    /\ bounds \in [used : SUBSET Jobs, puts : Nat, crashes : Nat, errors : Nat]

(* executeSyncJob refuses a running job: a job is executed once at a time,  *)
(* across deletions, cancellations and restarts, unless a request overwrote *)
(* its status or a save failed.                                             *)
ExclusiveExecutions ==
    bounds.puts = 0 /\ bounds.errors = 0 =>
        \A x, y \in Execs : Looping(x) /\ Looping(y) /\ execs[x].job = execs[y].job => x = y

Counted(e) == e.successful + e.failed + e.skipped + e.conflicts + e.todo

Accounted(e) == e.total = Counted(e) + (IF e.pc \in {"conflict", "target"} THEN 1 ELSE 0)

(* performSync counts every record that it has fetched once: as successful, *)
(* failed, skipped or in conflict.                                          *)
RecordsAccounted ==
    \A x \in Execs : Accounted(execs[x])

(* Once both services have started, the last list of jobs that was stored   *)
(* or is on its way is the present one of the service that saved it, whole, *)
(* as long as no command fails.  The other service's jobs need not be in it.*)
StoreCatchesUp ==
    phase = "up" /\ hookPhase = "up" /\ bounds.errors = 0 =>
        IF pending = <<>> THEN store \in {jobs, hookJobs}
        ELSE LET last == pending[Len(pending)]
             IN last.jobs = IF last.from = "routes" THEN jobs ELSE hookJobs

(* Without a fault, a job that is marked running has an execution that will *)
(* mark it completed: deleting jobs and cancelling executions does not      *)
(* leave a job that is running for ever and refused by executeSyncJob.      *)
RunningIsExecuted ==
    Faults = 0 => \A j \in Jobs : jobs[j] = "running" =>
                      \E x \in Execs : Looping(x) /\ execs[x].job = j
=============================================================================
