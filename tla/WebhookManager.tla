--------------------------- MODULE WebhookManager ---------------------------
(***************************************************************************)
(* Outgoing webhooks (apps/api/src/services/webhook-manager.ts): the       *)
(* registered endpoints, kept in memory and in the Redis hash 'webhooks',  *)
(* and the deliveries, which live in memory only.                          *)
(*                                                                         *)
(* Node runs one task at a time and yields at an await on the network, so  *)
(* an action is the code between two such awaits.  The client sends its    *)
(* Redis commands over one connection: they are executed in the order they *)
(* were issued, with the value serialised when they were issued.           *)
(***************************************************************************)
EXTENDS Naturals, SequencesExt

CONSTANTS
    MaxWebhooks,     \* bound: endpoints ever registered, numbered in that order
    MaxSends,        \* bound: calls of sendWebhook
    MaxRetries,      \* webhook.maxRetries
    DisableAfter,    \* failures after which an endpoint is disabled (10)
    QueueLimit,      \* deliveries the retry processor keeps (1000)
    MaxCrashes,      \* bound: restarts of the process
    MaxRedisErrors,  \* bound: Redis commands that fail
    MaxPending       \* bound: commands waiting when an endpoint is updated

ASSUME ConstantsAssumption ==
    /\ MaxWebhooks \in Nat /\ MaxSends \in Nat
    /\ MaxRetries \in Nat \ {0} /\ DisableAfter \in Nat \ {0} /\ QueueLimit \in Nat
    /\ MaxCrashes \in Nat /\ MaxRedisErrors \in Nat /\ MaxPending \in Nat

VARIABLES
    live,      \* keys of the map this.webhooks
    obj,       \* the endpoint objects; a running attempt keeps a deleted one
    delivery,  \* the delivery objects, one per sendWebhook call and endpoint
    queue,     \* this.deliveryQueue, oldest first
    sends,     \* what each sendWebhook call still has to deliver to
    interval,  \* whether the retry processor runs
    redis,     \* the hash 'webhooks'
    commands,  \* Redis commands issued and not yet answered
    deleted,   \* endpoints whose deleteWebhook call has returned
    counts     \* registrations, sends, crashes and Redis errors so far

vars == <<live, obj, delivery, queue, sends, interval, redis, commands, deleted, counts>>
endpointVars == <<live, obj, deleted>>
deliveryVars == <<delivery, queue, sends>>

Webhooks == 1 .. MaxWebhooks
Sends == 1 .. MaxSends
Deliveries == Sends \X Webhooks
Absent == [active |-> FALSE, failureCount |-> 0, stored |-> FALSE]

Endpoint == [active : BOOLEAN, failureCount : Nat, stored : BOOLEAN]
(* A delivery: its backoff timers and requests under way are counted. *)
Delivery == [status : {"none", "pending", "success", "retrying", "failed", "lost"},
             attempts : Nat, timers : Nat, requests : Nat]
NoDelivery == [status |-> "none", attempts |-> 0, timers |-> 0, requests |-> 0]

(* A command on the hash: "set" and "del" carry the value they leave, send  *)
(* is the sendWebhook call that awaits it (0: none), again asks for the     *)
(* second save of an endpoint that was disabled.                            *)
Command == [op : {"load", "api", "save"}, webhook : 0 .. MaxWebhooks, value : Endpoint,
            again : BOOLEAN, send : 0 .. MaxSends]
Load == [op |-> "load", webhook |-> 0, value |-> Absent, again |-> FALSE, send |-> 0]
ApiCommand(w, value) ==
    [op |-> "api", webhook |-> w, value |-> value, again |-> FALSE, send |-> 0]
Save(w, value, again, s) ==
    [op |-> "save", webhook |-> w, value |-> value, again |-> again, send |-> s]

Init ==
    /\ live = {}
    /\ obj = [w \in Webhooks |-> Absent]
    /\ delivery = [d \in Deliveries |-> NoDelivery]
    /\ queue = <<>>
    /\ sends = [s \in Sends |-> {}]
    /\ interval = TRUE
    /\ redis = [w \in Webhooks |-> Absent]
    /\ commands = <<Load>>
    /\ deleted = {}
    /\ counts = [webhooks |-> 0, sends |-> 0, crashes |-> 0, errors |-> 0]

-----------------------------------------------------------------------------
(* Calls of the API. *)

RegisterWebhook ==
    /\ counts.webhooks < MaxWebhooks
    /\ LET w == counts.webhooks + 1
           new == [active |-> TRUE, failureCount |-> 0, stored |-> TRUE]
       IN /\ live' = live \cup {w}
          /\ obj' = [obj EXCEPT ![w] = new]
          /\ commands' = Append(commands, ApiCommand(w, new))
          /\ counts' = [counts EXCEPT !.webhooks = w]
    /\ UNCHANGED <<deliveryVars, interval, redis, deleted>>

(* An update of the switch.  url and events do not matter here; that the    *)
(* updates may also hold maxRetries or failureCount is left out (nothing in *)
(* the repository calls updateWebhook).                                     *)
UpdateWebhook(w, active) ==
    /\ w \in live
    /\ Len(commands) < MaxPending
    /\ obj' = [obj EXCEPT ![w].active = active]
    /\ commands' = Append(commands, ApiCommand(w, obj'[w]))
    /\ UNCHANGED <<live, deleted, deliveryVars, interval, redis, counts>>

DeleteWebhook(w) ==
    /\ w \in live
    /\ live' = live \ {w}
    /\ commands' = Append(commands, ApiCommand(w, Absent))
    /\ UNCHANGED <<obj, deleted, deliveryVars, interval, redis, counts>>

Shutdown ==
    /\ interval
    /\ interval' = FALSE
    /\ UNCHANGED <<endpointVars, deliveryVars, redis, commands, counts>>

-----------------------------------------------------------------------------
(* attemptDelivery. *)

Deliverable(w) == w \in live /\ obj[w].active

(* The part before the request: a missing or inactive endpoint ends it. *)
Attempted(d, rec) ==
    IF Deliverable(d[2])
    THEN [rec EXCEPT !.attempts = @ + 1, !.status = "pending", !.requests = @ + 1]
    ELSE [rec EXCEPT !.status = "failed"]

(* sendWebhook s goes on with the endpoints of todo, in registration order: *)
(* those that cannot be delivered to fail at once, the first of the others  *)
(* is attempted and awaited.                                                *)
Continue(s, todo) ==
    LET ready == {w \in todo : Deliverable(w)}
        next == IF ready = {} THEN {} ELSE {Min(ready)}
        handled == {w \in todo : \A n \in next : w <= n}
    IN /\ delivery' = [d \in Deliveries |->
                          IF d[1] = s /\ d[2] \in handled
                          THEN Attempted(d, NoDelivery) ELSE delivery[d]]
       /\ queue' = queue \o [i \in 1 .. Cardinality(handled) |-> <<s, SetToSortSeq(handled, <)[i]>>]
       /\ sends' = [sends EXCEPT ![s] = todo \ handled]

SendWebhook ==
    /\ counts.sends < MaxSends
    /\ LET s == counts.sends + 1
       IN /\ counts' = [counts EXCEPT !.sends = s]
          /\ Continue(s, {w \in Webhooks : Deliverable(w)})
    /\ UNCHANGED <<endpointVars, interval, redis, commands>>

(* Mutant of Awaiting: nothing goes on with the loop. *)
AwaitingNobody(d) == 0

(* The sendWebhook call that awaits the request of d: it awaits the first   *)
(* attempt, and no other starts before that one has ended.                  *)
Awaiting(d) == IF delivery[d].attempts = 1 THEN d[1] ELSE 0

(* A request of the delivery has been answered. *)
Ended(rec) == [rec EXCEPT !.requests = @ - 1]

(* Mutant of FetchSucceeds: the endpoint is not saved after a success. *)
FetchSucceedsUnsaved(d) ==
    /\ delivery[d].requests > 0
    /\ delivery' = [delivery EXCEPT ![d] = [Ended(@) EXCEPT !.status = "success"]]
    /\ obj' = [obj EXCEPT ![d[2]].failureCount = 0]
    /\ UNCHANGED <<live, deleted, queue, sends, interval, redis, counts, commands>>

(* Mutant of FetchSucceeds: a success takes one failure off the count       *)
(* instead of clearing it.                                                  *)
FetchSucceedsForgives(d) ==
    /\ delivery[d].requests > 0
    /\ delivery' = [delivery EXCEPT ![d] = [Ended(@) EXCEPT !.status = "success"]]
    /\ obj' = [obj EXCEPT ![d[2]].failureCount = @ - 1]
    /\ commands' = Append(commands, Save(d[2], obj'[d[2]], FALSE, Awaiting(d)))
    /\ UNCHANGED <<live, deleted, queue, sends, interval, redis, counts>>

FetchSucceeds(d) ==
    /\ delivery[d].requests > 0
    /\ delivery' = [delivery EXCEPT ![d] = [Ended(@) EXCEPT !.status = "success"]]
    /\ obj' = [obj EXCEPT ![d[2]].failureCount = 0]
    /\ commands' = Append(commands, Save(d[2], obj'[d[2]], FALSE, Awaiting(d)))
    /\ UNCHANGED <<live, deleted, queue, sends, interval, redis, counts>>

(* Mutant of WillRetry: the attempt number is compared, off by one. *)
WillRetryOnceMore(d) == delivery[d].attempts <= MaxRetries

WillRetry(d) == delivery[d].attempts < MaxRetries

(* Mutant of Retrying: the backoff timer is not started. *)
RetryingUntimed(rec) == [rec EXCEPT !.status = "retrying"]

(* The delivery waits for its backoff timer. *)
Retrying(rec) == [rec EXCEPT !.status = "retrying", !.timers = @ + 1]

(* The request failed, timed out after 30 s, or was answered with an error. *)
FetchFails(d) ==
    /\ delivery[d].requests > 0
    /\ LET w == d[2]
           failed == [obj[w] EXCEPT !.failureCount = @ + 1]
           disable == ~WillRetry(d) /\ failed.failureCount >= DisableAfter
           ended == Ended(delivery[d])
       IN /\ delivery' = [delivery EXCEPT ![d] =
                             IF WillRetry(d) THEN Retrying(ended) ELSE [ended EXCEPT !.status = "failed"]]
          /\ obj' = [obj EXCEPT ![w] = IF disable THEN [failed EXCEPT !.active = FALSE] ELSE failed]
          /\ commands' = Append(commands, Save(w, obj'[w], disable, Awaiting(d)))
    /\ UNCHANGED <<live, deleted, queue, sends, interval, redis, counts>>

-----------------------------------------------------------------------------
(* Timers. *)

TimerFired(rec) == [rec EXCEPT !.timers = @ - 1]

RetryTimer(d) ==
    /\ delivery[d].timers > 0
    /\ delivery' = [delivery EXCEPT ![d] = Attempted(d, TimerFired(@))]
    /\ UNCHANGED <<endpointVars, queue, sends, interval, redis, commands, counts>>

(* The newest deliveries; creation times are taken to be distinct. *)
Trim(q) == IF Len(q) > QueueLimit THEN SubSeq(q, Len(q) - QueueLimit + 1, Len(q)) ELSE q

(* The retry processor attempts every delivery of the queue that is         *)
(* retrying, whatever timers it has, and trims the queue.                   *)
RetryProcessor ==
    LET due == {d \in Range(queue) : delivery[d].status = "retrying" /\ WillRetry(d)}
    IN /\ interval
       /\ due # {} \/ Len(queue) > QueueLimit
       /\ delivery' = [d \in Deliveries |->
                          IF d \in due THEN Attempted(d, delivery[d]) ELSE delivery[d]]
       /\ queue' = Trim(queue)
       /\ UNCHANGED <<endpointVars, sends, interval, redis, commands, counts>>

-----------------------------------------------------------------------------
(* Redis and the process. *)

(* The answer to the oldest command, and what awaits it. *)
RedisAnswers ==
    /\ commands # <<>>
    /\ LET c == Head(commands)
       IN /\ redis' = IF c.op = "load" THEN redis ELSE [redis EXCEPT ![c.webhook] = c.value]
          /\ IF c.op = "load"
             THEN /\ live' = live \cup {w \in Webhooks : redis[w].stored}
                  /\ obj' = [w \in Webhooks |-> IF redis[w].stored THEN redis[w] ELSE obj[w]]
             ELSE UNCHANGED <<live, obj>>
          /\ deleted' = IF c.op = "api" /\ c.value = Absent THEN deleted \cup {c.webhook} ELSE deleted
          /\ commands' = IF c.again
                         THEN Append(Tail(commands), Save(c.webhook, obj[c.webhook], FALSE, c.send))
                         ELSE Tail(commands)
          /\ IF c.send # 0 /\ ~c.again
             THEN Continue(c.send, sends[c.send])
             ELSE UNCHANGED deliveryVars
    /\ UNCHANGED <<interval, counts>>

(* A command fails.  loadWebhooks() catches it and the callers of the API   *)
(* are told; a failed save of attemptDelivery is an unhandled rejection,    *)
(* which ends the process (Crash).                                          *)
RedisFails ==
    /\ commands # <<>>
    /\ Head(commands).op # "save"
    /\ counts.errors < MaxRedisErrors
    /\ counts' = [counts EXCEPT !.errors = @ + 1]
    /\ commands' = Tail(commands)
    /\ UNCHANGED <<endpointVars, deliveryVars, interval, redis>>

(* The process dies and starts again: unanswered commands and everything in *)
(* memory are lost.  (A command that Redis executed but did not answer in   *)
(* time leaves the hash as if it had been answered just before.)            *)
Crash ==
    /\ counts.crashes < MaxCrashes
    /\ counts' = [counts EXCEPT !.crashes = @ + 1]
    /\ live' = {}
    /\ obj' = [w \in Webhooks |-> Absent]
    /\ delivery' = [d \in Deliveries |->
                       IF delivery[d].status = "none" THEN NoDelivery
                       ELSE [NoDelivery EXCEPT !.status = "lost"]]
    /\ queue' = <<>>
    /\ sends' = [s \in Sends |-> {}]
    /\ interval' = TRUE
    /\ commands' = <<Load>>
    /\ UNCHANGED <<redis, deleted>>

-----------------------------------------------------------------------------
Next ==
    \/ RegisterWebhook
    \/ \E w \in Webhooks : DeleteWebhook(w) \/ \E active \in BOOLEAN : UpdateWebhook(w, active)
    \/ Shutdown
    \/ SendWebhook
    \/ \E d \in Deliveries : FetchSucceeds(d) \/ FetchFails(d) \/ RetryTimer(d)
    \/ RetryProcessor
    \/ RedisAnswers
    \/ RedisFails
    \/ Crash

Spec == Init /\ [][Next]_vars

(* Fairness: requests end (AbortSignal.timeout), timers fire, Redis answers *)
(* or fails.  Nothing is assumed of the retry processor.                    *)
Fairness ==
    /\ WF_vars(RedisAnswers)
    /\ \A d \in Deliveries : WF_vars(RetryTimer(d)) /\ WF_vars(FetchSucceeds(d) \/ FetchFails(d))

FairSpec == Spec /\ Fairness

-----------------------------------------------------------------------------
(* Properties. *)

(* Every field keeps its type. *)
TypeOK ==
    /\ live \in SUBSET Webhooks
    /\ obj \in [Webhooks -> Endpoint]
    /\ delivery \in [Deliveries -> Delivery]
    /\ queue \in Seq(Deliveries)
    /\ sends \in [Sends -> SUBSET Webhooks]
    /\ interval \in BOOLEAN
    /\ redis \in [Webhooks -> Endpoint]
    /\ commands \in Seq(Command)
    /\ deleted \in SUBSET Webhooks
    /\ counts \in [webhooks : 0 .. MaxWebhooks, sends : 0 .. MaxSends,
                   crashes : 0 .. MaxCrashes, errors : 0 .. MaxRedisErrors]

(* The backoff timers and the retry processor drive the same delivery, so   *)
(* it may be attempted more than maxRetries times, but never 2 * maxRetries *)
(* times: a timer is only started by a failure before the last retry.       *)
AttemptsBounded == \A d \in Deliveries : delivery[d].attempts < 2 * MaxRetries

(* A delivery that is waiting for a retry has a timer that will make it,    *)
(* also after shutdown() or after it was trimmed from the queue.            *)
RetryingHasTimer ==
    \A d \in Deliveries : delivery[d].status = "retrying" => delivery[d].timers > 0

(* The commands of cs that write the entry of endpoint w, and whether that  *)
(* entry, now stored, has the value once they are executed.                 *)
Writes(cs, w) == {i \in DOMAIN cs : cs[i].op # "load" /\ cs[i].webhook = w}
CaughtUp(cs, w, stored, value) ==
    IF Writes(cs, w) = {} THEN stored = value
    ELSE \E i \in Writes(cs, w) : cs[i].value = value /\ \A j \in Writes(cs, w) : j <= i

(* As long as Redis executes the commands, the last one issued for a        *)
(* registered endpoint carries its present state: whatever attempts and     *)
(* calls overlap, the stored endpoint catches up with the one in memory.    *)
StoreFollowsMemory ==
    counts.errors = 0 => \A w \in live : CaughtUp(commands, w, redis[w], obj[w])

(* Every delivery comes to rest. *)
DeliveriesSettle ==
    \A d \in Deliveries :
        delivery[d].status \in {"pending", "retrying"} ~>
            delivery[d].status \in {"success", "failed", "lost"}

(* sendWebhook gets to every endpoint it selected, whatever happens to the  *)
(* endpoints before it.                                                     *)
SendsFinish == \A s \in Sends : []<>(sends[s] = {})

(* "Delete webhook endpoint": an endpoint that was deleted does not come    *)
(* back.                                                                    *)
DeletedStaysDeleted == deleted \cap live = {}
=============================================================================
