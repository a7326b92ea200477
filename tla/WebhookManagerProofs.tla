------------------------ MODULE WebhookManagerProofs ------------------------
(***************************************************************************)
(* Proofs about WebhookManager, for any number of endpoints, sends, retries*)
(* and restarts.                                                           *)
(***************************************************************************)
EXTENDS WebhookManager, TLAPS

-----------------------------------------------------------------------------
(* Retries. *)

(* The fields the retry argument reads. *)
DeliveriesTyped == delivery \in [Deliveries -> Delivery]

(* Before the last retry every timer and every request belongs to a         *)
(* different attempt; from then on the timers that are left are the only    *)
(* source of attempts.                                                      *)
RetryBudget(r) ==
    /\ r.attempts < MaxRetries => r.timers + r.requests <= r.attempts
    /\ r.attempts >= MaxRetries => r.attempts + r.timers < 2 * MaxRetries
    /\ r.status = "retrying" => r.timers > 0

RetryInv == DeliveriesTyped /\ \A d \in Deliveries : RetryBudget(delivery[d])

(* The start of an attempt keeps the budget when the delivery may retry or  *)
(* when the attempt uses up a timer.                                        *)
LEMMA AttemptedLemma ==
  ASSUME NEW d \in Deliveries, NEW r \in Delivery, RetryBudget(r), r.attempts < MaxRetries
  PROVE  Attempted(d, r) \in Delivery /\ RetryBudget(Attempted(d, r))
<1>1. CASE Deliverable(d[2])
  <2> DEFINE a == [r EXCEPT !.attempts = @ + 1, !.status = "pending", !.requests = @ + 1]
  <2>0. r.attempts + 1 \in Nat /\ r.requests + 1 \in Nat /\ r.timers \in Nat
    BY DEF Delivery
  <2>1. a \in Delivery /\ a.attempts = r.attempts + 1 /\ a.requests = r.requests + 1
        /\ a.timers = r.timers /\ a.status = "pending"
    BY <2>0 DEF Delivery
  <2>2. Attempted(d, r) = a
    BY <1>1 DEF Attempted
  <2> HIDE DEF a
  <2> QED
    BY <2>1, <2>2, ConstantsAssumption DEF RetryBudget, Delivery
<1>2. CASE ~Deliverable(d[2])
  <2> DEFINE a == [r EXCEPT !.status = "failed"]
  <2>1. a \in Delivery /\ a.attempts = r.attempts /\ a.requests = r.requests
        /\ a.timers = r.timers /\ a.status = "failed"
    BY DEF Delivery
  <2>2. Attempted(d, r) = a
    BY <1>2 DEF Attempted
  <2> HIDE DEF a
  <2> QED
    BY <2>1, <2>2 DEF RetryBudget, Delivery
<1> QED
  BY <1>1, <1>2

LEMMA TimerLemma ==
  ASSUME NEW d \in Deliveries, NEW r \in Delivery, RetryBudget(r), r.timers > 0
  PROVE  LET a == Attempted(d, [r EXCEPT !.timers = @ - 1])
         IN a \in Delivery /\ RetryBudget(a)
<1> DEFINE t == [r EXCEPT !.timers = @ - 1]
           b == [t EXCEPT !.attempts = @ + 1, !.status = "pending", !.requests = @ + 1]
           c == [t EXCEPT !.status = "failed"]
<1>0. r.attempts + 1 \in Nat /\ r.requests + 1 \in Nat /\ r.timers - 1 \in Nat
  BY DEF Delivery
<1>1. t \in Delivery /\ t.attempts = r.attempts /\ t.requests = r.requests
      /\ t.timers = r.timers - 1
  BY <1>0 DEF Delivery
<1>2. Attempted(d, t) = IF Deliverable(d[2]) THEN b ELSE c
  BY DEF Attempted
<1> HIDE DEF t
<1>3. b \in Delivery /\ b.attempts = r.attempts + 1 /\ b.requests = r.requests + 1
      /\ b.timers = r.timers - 1 /\ b.status = "pending"
  BY <1>0, <1>1 DEF Delivery
<1>4. c \in Delivery /\ c.attempts = r.attempts /\ c.requests = r.requests
      /\ c.timers = r.timers - 1 /\ c.status = "failed"
  BY <1>1 DEF Delivery
<1> HIDE DEF b, c
<1>5. RetryBudget(b)
  BY <1>3, ConstantsAssumption DEF RetryBudget, Delivery
<1>6. RetryBudget(c)
  BY <1>4, ConstantsAssumption DEF RetryBudget, Delivery
<1> QED
  BY <1>2, <1>3, <1>4, <1>5, <1>6 DEF t

(* A request ends. *)
LEMMA EndedLemma ==
  ASSUME NEW r \in Delivery, RetryBudget(r), r.requests > 0
  PROVE  LET e == [r EXCEPT !.requests = @ - 1]
         IN /\ e \in Delivery
            /\ e.attempts = r.attempts /\ e.timers = r.timers /\ e.requests = r.requests - 1
            /\ RetryBudget([e EXCEPT !.status = "success"])
            /\ RetryBudget([e EXCEPT !.status = "failed"])
            /\ r.attempts < MaxRetries => RetryBudget(Retrying(e))
            /\ [e EXCEPT !.status = "success"] \in Delivery
            /\ [e EXCEPT !.status = "failed"] \in Delivery
            /\ Retrying(e) \in Delivery
<1> DEFINE e == [r EXCEPT !.requests = @ - 1]
<1>0. r.requests - 1 \in Nat /\ r.timers + 1 \in Nat
  BY DEF Delivery
<1>1. e \in Delivery /\ e.attempts = r.attempts /\ e.timers = r.timers /\ e.requests = r.requests - 1
  BY <1>0 DEF Delivery
<1> HIDE DEF e
<1> DEFINE s == [e EXCEPT !.status = "success"]
           f == [e EXCEPT !.status = "failed"]
           g == Retrying(e)
<1>2. s \in Delivery /\ s.attempts = r.attempts /\ s.timers = r.timers
      /\ s.requests = r.requests - 1 /\ s.status = "success"
  BY <1>1 DEF Delivery
<1>3. f \in Delivery /\ f.attempts = r.attempts /\ f.timers = r.timers
      /\ f.requests = r.requests - 1 /\ f.status = "failed"
  BY <1>1 DEF Delivery
<1>4. g \in Delivery /\ g.attempts = r.attempts /\ g.timers = r.timers + 1
      /\ g.requests = r.requests - 1 /\ g.status = "retrying"
  BY <1>0, <1>1 DEF Delivery, Retrying
<1> HIDE DEF s, f, g
<1>5. RetryBudget(s) /\ RetryBudget(f)
  BY <1>2, <1>3, ConstantsAssumption DEF RetryBudget, Delivery
<1>6. r.attempts < MaxRetries => RetryBudget(g)
  BY <1>4, ConstantsAssumption DEF RetryBudget, Delivery
<1> QED
  BY <1>1, <1>2, <1>3, <1>4, <1>5, <1>6 DEF e, s, f, g

LEMMA NoDeliveryLemma ==
  /\ NoDelivery \in Delivery /\ RetryBudget(NoDelivery)
  /\ NoDelivery.attempts = 0
  /\ [NoDelivery EXCEPT !.status = "lost"] \in Delivery
  /\ RetryBudget([NoDelivery EXCEPT !.status = "lost"])
  BY ConstantsAssumption DEF NoDelivery, Delivery, RetryBudget

LEMMA ContinueKeepsBudget ==
  ASSUME RetryInv, NEW s, NEW todo, Continue(s, todo)
  PROVE  RetryInv'
<1> DEFINE handled == {w \in todo : \A n \in IF {v \in todo : Deliverable(v)} = {} THEN {}
                                             ELSE {Min({v \in todo : Deliverable(v)})} : w <= n}
<1>1. delivery' = [d \in Deliveries |-> IF d[1] = s /\ d[2] \in handled
                                        THEN Attempted(d, NoDelivery) ELSE delivery[d]]
  BY DEF Continue
<1> HIDE DEF handled
<1>2. \A d \in Deliveries : Attempted(d, NoDelivery) \in Delivery
                            /\ RetryBudget(Attempted(d, NoDelivery))
  BY AttemptedLemma, NoDeliveryLemma, ConstantsAssumption
<1> QED
  BY <1>1, <1>2 DEF RetryInv, DeliveriesTyped

LEMMA RetryStep ==
  ASSUME RetryInv, [Next]_vars
  PROVE  RetryInv'
<1>0. ASSUME UNCHANGED delivery PROVE RetryInv'
  BY <1>0 DEF RetryInv, DeliveriesTyped
<1>1. CASE SendWebhook
  BY <1>1, ContinueKeepsBudget DEF SendWebhook
<1>2. ASSUME NEW d \in Deliveries, FetchSucceeds(d) PROVE RetryInv'
  <2> DEFINE r == delivery[d]
             e == [r EXCEPT !.requests = @ - 1]
             s == [e EXCEPT !.status = "success"]
  <2>1. r \in Delivery /\ RetryBudget(r) /\ r.requests > 0
    BY <1>2 DEF FetchSucceeds, RetryInv, DeliveriesTyped
  <2>2. s \in Delivery /\ RetryBudget(s)
    BY <2>1, EndedLemma
  <2>3. delivery' = [delivery EXCEPT ![d] = s]
    BY <1>2 DEF FetchSucceeds, Ended
  <2> HIDE DEF r, e, s
  <2> QED
    BY <2>2, <2>3 DEF RetryInv, DeliveriesTyped
<1>3. ASSUME NEW d \in Deliveries, FetchFails(d) PROVE RetryInv'
  <2> DEFINE r == delivery[d]
             e == [r EXCEPT !.requests = @ - 1]
             f == IF WillRetry(d) THEN Retrying(e) ELSE [e EXCEPT !.status = "failed"]
  <2>1. r \in Delivery /\ RetryBudget(r) /\ r.requests > 0
    BY <1>3 DEF FetchFails, RetryInv, DeliveriesTyped
  <2>2. WillRetry(d) => r.attempts < MaxRetries
    BY DEF WillRetry
  <2>3. f \in Delivery /\ RetryBudget(f)
    BY <2>1, <2>2, EndedLemma
  <2>4. delivery' = [delivery EXCEPT ![d] = f]
    BY <1>3 DEF FetchFails, Ended
  <2> HIDE DEF r, e, f
  <2> QED
    BY <2>3, <2>4 DEF RetryInv, DeliveriesTyped
<1>4. ASSUME NEW d \in Deliveries, RetryTimer(d) PROVE RetryInv'
  <2> DEFINE r == delivery[d]
             a == Attempted(d, [r EXCEPT !.timers = @ - 1])
  <2>1. r \in Delivery /\ RetryBudget(r) /\ r.timers > 0
    BY <1>4 DEF RetryTimer, RetryInv, DeliveriesTyped
  <2>2. a \in Delivery /\ RetryBudget(a)
    BY <2>1, TimerLemma
  <2>3. delivery' = [delivery EXCEPT ![d] = a]
    BY <1>4 DEF RetryTimer, TimerFired
  <2> HIDE DEF r, a
  <2> QED
    BY <2>2, <2>3 DEF RetryInv, DeliveriesTyped
<1>5. CASE RetryProcessor
  <2>1. PICK due : /\ \A d \in due : delivery[d].attempts < MaxRetries
                   /\ delivery' = [d \in Deliveries |->
                         IF d \in due THEN Attempted(d, delivery[d]) ELSE delivery[d]]
    BY <1>5 DEF RetryProcessor, WillRetry
  <2>2. \A d \in Deliveries : d \in due => /\ Attempted(d, delivery[d]) \in Delivery
                                           /\ RetryBudget(Attempted(d, delivery[d]))
    BY <2>1, AttemptedLemma DEF RetryInv, DeliveriesTyped
  <2> QED
    BY <2>1, <2>2 DEF RetryInv, DeliveriesTyped
<1>6. CASE RedisAnswers
  <2>1. UNCHANGED delivery \/ \E s, todo : Continue(s, todo)
    BY <1>6 DEF RedisAnswers, deliveryVars
  <2> QED
    BY <1>0, <2>1, ContinueKeepsBudget
<1>7. CASE Crash
  BY <1>7, NoDeliveryLemma DEF Crash, RetryInv, DeliveriesTyped
<1>8. CASE \/ RegisterWebhook \/ Shutdown \/ RedisFails
           \/ \E w \in Webhooks : DeleteWebhook(w) \/ \E active \in BOOLEAN : UpdateWebhook(w, active)
           \/ UNCHANGED vars
  BY <1>0, <1>8 DEF RegisterWebhook, Shutdown, RedisFails, DeleteWebhook, UpdateWebhook,
                    deliveryVars, vars
<1> QED
  BY <1>1, <1>2, <1>3, <1>4, <1>5, <1>6, <1>7, <1>8 DEF Next

LEMMA RetryInvariant ==
  Spec => []RetryInv
<1>1. Init => RetryInv
  BY NoDeliveryLemma DEF Init, RetryInv, DeliveriesTyped
<1> QED
  BY <1>1, RetryStep, PTL DEF Spec

(* attemptDelivery runs at most 2 * maxRetries - 1 times for a delivery,    *)
(* although a timer and the retry processor may both drive it.              *)
THEOREM AttemptBound ==
  Spec => []AttemptsBounded
<1>1. RetryInv => AttemptsBounded
  <2> SUFFICES ASSUME RetryInv, NEW d \in Deliveries
               PROVE  delivery[d].attempts < 2 * MaxRetries
    BY DEF AttemptsBounded
  <2>1. /\ delivery[d].attempts \in Nat /\ delivery[d].timers \in Nat
        /\ RetryBudget(delivery[d])
    BY DEF RetryInv, DeliveriesTyped, Delivery
  <2> QED
    BY <2>1, ConstantsAssumption DEF RetryBudget
<1> QED
  BY <1>1, RetryInvariant, PTL

(* A delivery whose status is retrying always has a timer pending. *)
THEOREM RetryIsTimed ==
  Spec => []RetryingHasTimer
<1>1. RetryInv => RetryingHasTimer
  BY DEF RetryInv, RetryBudget, RetryingHasTimer
<1> QED
  BY <1>1, RetryInvariant, PTL

-----------------------------------------------------------------------------
(* The stored endpoints: what appending and executing a command does to the *)
(* writes that are pending for an endpoint.                                 *)

LEMMA AppendWrites ==
  ASSUME NEW cs \in Seq(Command), NEW c \in Command, NEW w
  PROVE  /\ Append(cs, c) \in Seq(Command)
         /\ Len(Append(cs, c)) = Len(cs) + 1
         /\ \A i \in 1 .. Len(cs) : Append(cs, c)[i] = cs[i]
         /\ Append(cs, c)[Len(cs) + 1] = c
         /\ c.op # "load" /\ c.webhook = w =>
                Writes(Append(cs, c), w) = Writes(cs, w) \cup {Len(cs) + 1}
         /\ ~ (c.op # "load" /\ c.webhook = w) => Writes(Append(cs, c), w) = Writes(cs, w)
  BY DEF Writes

LEMMA AppendOwn ==
  ASSUME NEW cs \in Seq(Command), NEW c \in Command, c.op # "load", NEW stored
  PROVE  CaughtUp(Append(cs, c), c.webhook, stored, c.value)
<1> DEFINE w == c.webhook
           n == Len(cs) + 1
<1>1. /\ Writes(Append(cs, c), w) = Writes(cs, w) \cup {n}
      /\ Append(cs, c)[n] = c
  BY AppendWrites
<1>2. \A j \in Writes(cs, w) : j <= n
  BY DEF Writes
<1>3. n <= n
  OBVIOUS
<1> QED
  BY <1>1, <1>2, <1>3 DEF CaughtUp

LEMMA AppendOther ==
  ASSUME NEW cs \in Seq(Command), NEW c \in Command, NEW w, c.webhook # w \/ c.op = "load",
         NEW stored, NEW value, CaughtUp(cs, w, stored, value)
  PROVE  CaughtUp(Append(cs, c), w, stored, value)
<1>1. /\ Writes(Append(cs, c), w) = Writes(cs, w)
      /\ \A i \in 1 .. Len(cs) : Append(cs, c)[i] = cs[i]
  BY AppendWrites
<1>2. \A i \in Writes(cs, w) : i \in 1 .. Len(cs)
  BY DEF Writes
<1> QED
  BY <1>1, <1>2 DEF CaughtUp

LEMMA TailWrites ==
  ASSUME NEW cs \in Seq(Command), cs # <<>>, NEW w
  PROVE  /\ Tail(cs) \in Seq(Command)
         /\ Len(Tail(cs)) = Len(cs) - 1
         /\ \A i \in 1 .. Len(cs) - 1 : Tail(cs)[i] = cs[i + 1]
         /\ \A i \in Writes(Tail(cs), w) : i + 1 \in Writes(cs, w)
         /\ \A i \in Writes(cs, w) : i # 1 => i - 1 \in Writes(Tail(cs), w)
         /\ 1 \in Writes(cs, w) <=> Head(cs).op # "load" /\ Head(cs).webhook = w
         /\ Writes(cs, w) \subseteq Nat /\ Writes(Tail(cs), w) \subseteq Nat
<1>1. /\ Tail(cs) \in Seq(Command)
      /\ Len(Tail(cs)) = Len(cs) - 1 /\ Len(cs) \in Nat \ {0}
      /\ \A i \in 1 .. Len(cs) - 1 : Tail(cs)[i] = cs[i + 1]
      /\ Head(cs) = cs[1]
  OBVIOUS
<1>2. DOMAIN cs = 1 .. Len(cs) /\ DOMAIN Tail(cs) = 1 .. Len(cs) - 1
  BY <1>1
<1> QED
  BY <1>1, <1>2 DEF Writes

LEMMA TailCaughtUp ==
  ASSUME NEW cs \in Seq(Command), cs # <<>>, NEW w, NEW stored, NEW value,
         CaughtUp(cs, w, stored, value)
  PROVE  CaughtUp(Tail(cs), w, IF Head(cs).op # "load" /\ Head(cs).webhook = w
                               THEN Head(cs).value ELSE stored, value)
<1>1. /\ \A i \in Writes(Tail(cs), w) : i + 1 \in Writes(cs, w) /\ Tail(cs)[i] = cs[i + 1]
      /\ \A i \in Writes(cs, w) : i # 1 => i - 1 \in Writes(Tail(cs), w)
      /\ 1 \in Writes(cs, w) <=> Head(cs).op # "load" /\ Head(cs).webhook = w
      /\ Writes(cs, w) \subseteq Nat \ {0} /\ Writes(Tail(cs), w) \subseteq Nat \ {0}
  <2>1. \A i \in Writes(Tail(cs), w) : i \in 1 .. Len(cs) - 1
    BY TailWrites DEF Writes
  <2>2. \A i \in Writes(cs, w) : i \in 1 .. Len(cs)
    BY DEF Writes
  <2> QED
    BY <2>1, <2>2, TailWrites
<1>2. CASE Writes(cs, w) = {}
  BY <1>1, <1>2 DEF CaughtUp
<1>3. CASE Writes(cs, w) # {}
  <2>1. PICK i \in Writes(cs, w) : cs[i].value = value /\ \A j \in Writes(cs, w) : j <= i
    BY <1>3 DEF CaughtUp
  <2>2. CASE i = 1
    <3>1. Writes(Tail(cs), w) = {}
      BY <1>1, <2>1, <2>2
    <3>2. Head(cs) = cs[1]
      OBVIOUS
    <3> QED
      BY <1>1, <2>1, <2>2, <3>1, <3>2 DEF CaughtUp
  <2>3. CASE i # 1
    <3>1. PICK k \in Writes(Tail(cs), w) : k + 1 = i /\ k \in Nat
      BY <1>1, <2>3
    <3>2. Tail(cs)[k] = cs[i]
      BY <1>1, <3>1
    <3>3. \A j \in Writes(Tail(cs), w) : j <= k
      BY <1>1, <2>1, <3>1
    <3> QED
      BY <2>1, <3>1, <3>2, <3>3 DEF CaughtUp
  <2> QED
    BY <2>2, <2>3
<1> QED
  BY <1>2, <1>3

-----------------------------------------------------------------------------
(* The inductive invariant of the store. *)

StoreTyped ==
    /\ live \in SUBSET Webhooks
    /\ obj \in [Webhooks -> Endpoint]
    /\ redis \in [Webhooks -> Endpoint]
    /\ commands \in Seq(Command)
    /\ counts \in [webhooks : 0 .. MaxWebhooks, sends : 0 .. MaxSends,
                   crashes : 0 .. MaxCrashes, errors : 0 .. MaxRedisErrors]

(* hgetall is only ever the first command of a process, the others name the *)
(* endpoint they write.                                                     *)
LoadFirst ==
    \A i \in 1 .. Len(commands) :
        IF commands[i].op = "load" THEN i = 1 /\ commands[i] = Load
        ELSE commands[i].webhook \in Webhooks

(* Nothing in memory concerns endpoint w. *)
Quiet(w) ==
    /\ w \notin live
    /\ Writes(commands, w) = {}
    /\ \A d \in Deliveries : d[2] = w => delivery[d].requests = 0

(* Ids that were not given out are unknown everywhere. *)
Fresh == \A w \in Webhooks : w > counts.webhooks => ~redis[w].stored /\ Quiet(w)

(* Until hgetall is answered, nothing in memory concerns the endpoints it   *)
(* will load, so it cannot overwrite anything newer.                        *)
Loading ==
    commands # <<>> /\ commands[1].op = "load" =>
        \A w \in Webhooks : redis[w].stored => Quiet(w)

StoreInv == RetryInv /\ StoreTyped /\ LoadFirst /\ Fresh /\ Loading /\ StoreFollowsMemory

(* Requests are only made for endpoints that are registered. *)
LEMMA RequestsNeedEndpoint ==
  ASSUME RetryInv, NEW d \in Deliveries, NEW r \in Delivery, r.requests = 0, ~Deliverable(d[2])
  PROVE  Attempted(d, r).requests = 0
  BY DEF Attempted, Delivery

LEMMA ContinueRequests ==
  ASSUME RetryInv, NEW s, NEW todo, Continue(s, todo)
  PROVE  \A d \in Deliveries : delivery[d].requests = 0 /\ ~Deliverable(d[2]) => delivery'[d].requests = 0
<1>1. \A d \in Deliveries : delivery'[d] = delivery[d] \/ delivery'[d] = Attempted(d, NoDelivery)
  BY DEF Continue
<1>2. NoDelivery \in Delivery /\ NoDelivery.requests = 0
  BY DEF NoDelivery, Delivery
<1> QED
  BY <1>1, <1>2, RequestsNeedEndpoint

(* A step that issues no command and changes no endpoint. *)
LEMMA DeliveryStep ==
  ASSUME StoreInv, RetryInv', UNCHANGED <<live, obj, redis, commands>>,
         counts' \in [webhooks : 0 .. MaxWebhooks, sends : 0 .. MaxSends,
                      crashes : 0 .. MaxCrashes, errors : 0 .. MaxRedisErrors],
         counts'.webhooks = counts.webhooks, counts'.errors = counts.errors,
         \A d \in Deliveries :
            delivery[d].requests = 0 /\ ~Deliverable(d[2]) => delivery'[d].requests = 0
  PROVE  StoreInv'
<1>1. StoreTyped' /\ LoadFirst'
  BY DEF StoreInv, StoreTyped, LoadFirst
<1>2. \A w \in Webhooks : Quiet(w) => Quiet(w)'
  BY DEF Quiet, Deliverable, Writes
<1>3. Fresh' /\ Loading'
  BY <1>2 DEF StoreInv, Fresh, Loading
<1>4. StoreFollowsMemory'
  BY DEF StoreInv, StoreFollowsMemory, CaughtUp, Writes
<1> QED
  BY <1>1, <1>3, <1>4 DEF StoreInv

(* A step that issues command c for an endpoint that memory already knows   *)
(* or that is new.                                                          *)
LEMMA CommandStep ==
  ASSUME StoreInv, RetryInv', NEW c \in Command, c.op # "load", c.webhook \in Webhooks,
         commands' = Append(commands, c), redis' = redis,
         live' \in SUBSET (live \cup {c.webhook}),
         obj' \in [Webhooks -> Endpoint],
         \A w \in Webhooks : w # c.webhook => obj'[w] = obj[w],
         c.webhook \in live' => c.value = obj'[c.webhook],
         counts' \in [webhooks : 0 .. MaxWebhooks, sends : 0 .. MaxSends,
                      crashes : 0 .. MaxCrashes, errors : 0 .. MaxRedisErrors],
         counts'.webhooks >= counts.webhooks, counts'.errors = counts.errors,
         c.webhook <= counts'.webhooks,
         ~Quiet(c.webhook) \/ ~redis[c.webhook].stored,
         \A d \in Deliveries : delivery[d].requests = 0 => delivery'[d].requests = 0
  PROVE  StoreInv'
<1> DEFINE x == c.webhook
<1>0. commands \in Seq(Command) /\ live \subseteq Webhooks
  BY DEF StoreInv, StoreTyped
<1>1. StoreTyped'
  BY <1>0, AppendWrites DEF StoreInv, StoreTyped
<1>2. LoadFirst'
  BY <1>0, AppendWrites DEF StoreInv, LoadFirst
<1>3. \A w \in Webhooks : w # x /\ Quiet(w) => Quiet(w)'
  BY <1>0, AppendWrites DEF Quiet
<1>4. Fresh'
  <2>1. counts.webhooks \in Nat /\ counts'.webhooks \in Nat /\ \A w \in Webhooks : w \in Nat
    BY DEF StoreInv, StoreTyped, Webhooks
  <2>2. \A w \in Webhooks : w > counts'.webhooks => w > counts.webhooks /\ w # x
    BY <2>1
  <2> QED
    BY <1>3, <2>2 DEF StoreInv, Fresh
<1>5. Loading'
  <2> SUFFICES ASSUME commands' # <<>>, commands'[1].op = "load", NEW w \in Webhooks,
                      redis[w].stored
               PROVE  Quiet(w)'
    BY DEF Loading
  <2>1. commands # <<>> /\ commands[1].op = "load"
    BY <1>0, AppendWrites
  <2> QED
    BY <1>3, <2>1 DEF StoreInv, Loading
<1>6. StoreFollowsMemory'
  <2> SUFFICES ASSUME counts.errors = 0, NEW w \in live'
               PROVE  CaughtUp(commands', w, redis'[w], obj'[w])
    BY DEF StoreFollowsMemory
  <2>1. CASE w = x
    BY <1>0, <2>1, AppendOwn
  <2>2. CASE w # x
    <3>1. w \in live /\ w \in Webhooks
      BY <1>0, <2>2
    <3>2. CaughtUp(commands, w, redis[w], obj[w])
      BY <3>1 DEF StoreInv, StoreFollowsMemory
    <3>3. obj'[w] = obj[w]
      BY <2>2, <3>1
    <3> QED
      BY <1>0, <2>2, <3>2, <3>3, AppendOther
  <2> QED
    BY <2>1, <2>2
<1> QED
  BY <1>1, <1>2, <1>4, <1>5, <1>6 DEF StoreInv

(* An endpoint that is registered, or has a request under way, has an id    *)
(* that was given out.                                                      *)
LEMMA KnownEndpoint ==
  ASSUME StoreInv, NEW w \in Webhooks, ~Quiet(w)
  PROVE  w <= counts.webhooks
<1>1. counts.webhooks \in Nat /\ w \in Nat
  BY DEF StoreInv, StoreTyped, Webhooks
<1> QED
  BY <1>1 DEF StoreInv, Fresh

LEMMA CommandTypes ==
  /\ Absent \in Endpoint /\ Load \in Command
  /\ \A w \in Webhooks, v \in Endpoint :
        /\ ApiCommand(w, v) \in Command /\ ApiCommand(w, v).op = "api"
        /\ ApiCommand(w, v).webhook = w /\ ApiCommand(w, v).value = v
  /\ \A w \in Webhooks, v \in Endpoint, again \in BOOLEAN, n \in 0 .. MaxSends :
        /\ Save(w, v, again, n) \in Command /\ Save(w, v, again, n).op = "save"
        /\ Save(w, v, again, n).webhook = w /\ Save(w, v, again, n).value = v
<1>1. 0 \in 0 .. MaxSends /\ 0 \in 0 .. MaxWebhooks
  BY ConstantsAssumption
<1>2. Absent \in Endpoint
  BY DEF Absent, Endpoint
<1>3. \A w \in Webhooks : w \in 0 .. MaxWebhooks
  BY ConstantsAssumption DEF Webhooks
<1> QED
  BY <1>1, <1>2, <1>3 DEF Load, ApiCommand, Save, Command

LEMMA ApiSteps ==
  ASSUME StoreInv, RetryInv',
         \/ RegisterWebhook
         \/ \E w \in Webhooks : DeleteWebhook(w) \/ \E active \in BOOLEAN : UpdateWebhook(w, active)
  PROVE  StoreInv'
<1>0. StoreTyped
  BY DEF StoreInv
<1>1. CASE RegisterWebhook
  <2> DEFINE w == counts.webhooks + 1
             new == [active |-> TRUE, failureCount |-> 0, stored |-> TRUE]
             c == ApiCommand(w, new)
  <2>1. counts.webhooks \in Nat /\ w \in Webhooks /\ w \in 0 .. MaxWebhooks
    BY <1>0, <1>1, ConstantsAssumption DEF RegisterWebhook, StoreTyped, Webhooks
  <2>2. new \in Endpoint
    BY DEF Endpoint
  <2>3. /\ live' = live \cup {w} /\ obj' = [obj EXCEPT ![w] = new]
        /\ commands' = Append(commands, c) /\ counts' = [counts EXCEPT !.webhooks = w]
        /\ redis' = redis /\ delivery' = delivery
    BY <1>1 DEF RegisterWebhook, deliveryVars
  <2>4. ~redis[w].stored
    BY <2>1 DEF StoreInv, Fresh
  <2> HIDE DEF new, w
  <2>5. c \in Command /\ c.op = "api" /\ c.webhook = w /\ c.value = new
    BY <2>1, <2>2, CommandTypes
  <2>6. /\ counts' \in [webhooks : 0 .. MaxWebhooks, sends : 0 .. MaxSends,
                        crashes : 0 .. MaxCrashes, errors : 0 .. MaxRedisErrors]
        /\ counts'.webhooks = w /\ counts'.errors = counts.errors
    BY <1>0, <2>1, <2>3 DEF StoreTyped
  <2>7. counts'.webhooks >= counts.webhooks /\ w <= counts'.webhooks
    BY <2>1, <2>6 DEF w
  <2>8. /\ obj' \in [Webhooks -> Endpoint] /\ obj'[w] = new
        /\ \A v \in Webhooks : v # w => obj'[v] = obj[v]
    BY <1>0, <2>1, <2>2, <2>3 DEF StoreTyped
  <2> HIDE DEF c
  <2> QED
    BY <2>1, <2>3, <2>4, <2>5, <2>6, <2>7, <2>8, CommandStep
<1>2. ASSUME NEW w \in Webhooks, DeleteWebhook(w) PROVE StoreInv'
  <2> DEFINE c == ApiCommand(w, Absent)
  <2>1. ~Quiet(w) /\ w <= counts.webhooks
    BY <1>2, KnownEndpoint DEF DeleteWebhook, Quiet
  <2>2. c \in Command /\ c.op = "api" /\ c.webhook = w
    BY CommandTypes
  <2>3. /\ live' = live \ {w} /\ commands' = Append(commands, c)
        /\ UNCHANGED <<obj, redis, counts, delivery>>
    BY <1>2 DEF DeleteWebhook, deliveryVars
  <2>4. counts.webhooks \in Nat
    BY <1>0 DEF StoreTyped
  <2> HIDE DEF c
  <2> QED
    BY <1>0, <2>1, <2>2, <2>3, <2>4, CommandStep DEF StoreTyped
<1>3. ASSUME NEW w \in Webhooks, NEW active \in BOOLEAN, UpdateWebhook(w, active) PROVE StoreInv'
  <2> DEFINE c == ApiCommand(w, obj'[w])
  <2>1. ~Quiet(w) /\ w <= counts.webhooks
    BY <1>3, KnownEndpoint DEF UpdateWebhook, Quiet
  <2>2. /\ obj' \in [Webhooks -> Endpoint]
        /\ \A v \in Webhooks : v # w => obj'[v] = obj[v]
    <3> DEFINE o == [obj[w] EXCEPT !.active = active]
    <3>1. obj[w] \in Endpoint /\ obj \in [Webhooks -> Endpoint]
      BY <1>0 DEF StoreTyped
    <3>2. o \in Endpoint
      BY <3>1 DEF Endpoint
    <3>3. obj' = [obj EXCEPT ![w] = o]
      BY <1>3 DEF UpdateWebhook
    <3> HIDE DEF o
    <3> QED
      BY <3>1, <3>2, <3>3
  <2>3. c \in Command /\ c.op = "api" /\ c.webhook = w /\ c.value = obj'[w]
    BY <2>2, CommandTypes
  <2>4. commands' = Append(commands, c) /\ UNCHANGED <<live, redis, counts, delivery>>
    BY <1>3 DEF UpdateWebhook, deliveryVars
  <2>5. counts.webhooks \in Nat
    BY <1>0 DEF StoreTyped
  <2> HIDE DEF c
  <2> QED
    BY <1>0, <2>1, <2>2, <2>3, <2>4, <2>5, CommandStep DEF StoreTyped
<1> QED
  BY <1>1, <1>2, <1>3

LEMMA FetchSteps ==
  ASSUME StoreInv, RetryInv', NEW d \in Deliveries, FetchSucceeds(d) \/ FetchFails(d)
  PROVE  StoreInv'
<1> DEFINE w == d[2]
<1>0. StoreTyped /\ RetryInv /\ w \in Webhooks /\ d[1] \in Sends
  BY DEF StoreInv, Deliveries
<1>1. ~Quiet(w) /\ w <= counts.webhooks
  <2>1. delivery[d].requests > 0
    BY DEF FetchSucceeds, FetchFails
  <2>2. ~Quiet(w)
    BY <2>1 DEF Quiet
  <2> QED
    BY <1>0, <2>2, KnownEndpoint
<1>2. Awaiting(d) \in 0 .. MaxSends
  BY <1>0, ConstantsAssumption DEF Awaiting, Sends
<1>3. /\ obj' \in [Webhooks -> Endpoint]
      /\ \A v \in Webhooks : v # w => obj'[v] = obj[v]
  <2>1. \A e \in Endpoint : /\ [e EXCEPT !.failureCount = 0] \in Endpoint
                            /\ [e EXCEPT !.failureCount = @ + 1] \in Endpoint
                            /\ [e EXCEPT !.active = FALSE] \in Endpoint
    <3> SUFFICES ASSUME NEW e \in Endpoint
                 PROVE  /\ [e EXCEPT !.failureCount = 0] \in Endpoint
                        /\ [e EXCEPT !.failureCount = @ + 1] \in Endpoint
                        /\ [e EXCEPT !.active = FALSE] \in Endpoint
      OBVIOUS
    <3>1. e.failureCount + 1 \in Nat
      BY DEF Endpoint
    <3> QED
      BY <3>1 DEF Endpoint
  <2>2. CASE FetchSucceeds(d)
    BY <1>0, <2>1, <2>2 DEF FetchSucceeds, StoreTyped
  <2>3. CASE FetchFails(d)
    BY <1>0, <2>1, <2>3 DEF FetchFails, StoreTyped
  <2> QED
    BY <2>2, <2>3
<1>4. PICK c \in Command : /\ c.op = "save" /\ c.webhook = w /\ c.value = obj'[w]
                           /\ commands' = Append(commands, c)
  <2>1. PICK again \in BOOLEAN : commands' = Append(commands, Save(w, obj'[w], again, Awaiting(d)))
    BY DEF FetchSucceeds, FetchFails
  <2> QED
    BY <1>0, <1>2, <1>3, <2>1, CommandTypes
<1>5. UNCHANGED <<live, redis, counts>>
  BY DEF FetchSucceeds, FetchFails
<1>6. \A e \in Deliveries : delivery[e].requests = 0 => delivery'[e].requests = 0
  <2>1. \A e \in Deliveries : e # d => delivery'[e] = delivery[e]
    <3>1. PICK r : delivery' = [delivery EXCEPT ![d] = r]
      BY DEF FetchSucceeds, FetchFails
    <3> QED
      BY <1>0, <3>1 DEF RetryInv, DeliveriesTyped
  <2>2. delivery[d].requests > 0
    BY DEF FetchSucceeds, FetchFails
  <2> QED
    BY <2>1, <2>2
<1>7. counts.webhooks \in Nat
  BY <1>0 DEF StoreTyped
<1> HIDE DEF w
<1> QED
  BY <1>0, <1>1, <1>3, <1>4, <1>5, <1>6, <1>7, CommandStep DEF StoreTyped

LEMMA RetrySteps ==
  ASSUME StoreInv, RetryInv',
         SendWebhook \/ RetryProcessor \/ \E d \in Deliveries : RetryTimer(d)
  PROVE  StoreInv'
<1>0. StoreTyped /\ RetryInv
  BY DEF StoreInv
<1>1. \A d \in Deliveries :
         delivery[d].requests = 0 /\ ~Deliverable(d[2]) => delivery'[d].requests = 0
  <2>1. CASE SendWebhook
    BY <1>0, <2>1, ContinueRequests DEF SendWebhook
  <2>2. CASE RetryProcessor
    <3>1. \A d \in Deliveries : delivery'[d] = delivery[d] \/ delivery'[d] = Attempted(d, delivery[d])
      BY <2>2 DEF RetryProcessor
    <3> QED
      BY <1>0, <3>1, RequestsNeedEndpoint DEF RetryInv, DeliveriesTyped
  <2>3. ASSUME NEW e \in Deliveries, RetryTimer(e)
        PROVE  \A d \in Deliveries :
                  delivery[d].requests = 0 /\ ~Deliverable(d[2]) => delivery'[d].requests = 0
    <3>1. \A d \in Deliveries : \/ delivery'[d] = delivery[d]
                                \/ delivery'[d] = Attempted(d, TimerFired(delivery[d]))
                                   /\ delivery[d].timers > 0
      BY <1>0, <2>3 DEF RetryTimer, RetryInv, DeliveriesTyped
    <3>2. \A r \in Delivery : r.timers > 0 => /\ TimerFired(r) \in Delivery
                                              /\ TimerFired(r).requests = r.requests
      BY DEF TimerFired, Delivery
    <3> QED
      BY <1>0, <3>1, <3>2, RequestsNeedEndpoint DEF RetryInv, DeliveriesTyped
  <2> QED
    BY <2>1, <2>2, <2>3
<1>2. UNCHANGED <<live, obj, redis, commands>>
  BY DEF SendWebhook, RetryProcessor, RetryTimer, endpointVars
<1>3. /\ counts' \in [webhooks : 0 .. MaxWebhooks, sends : 0 .. MaxSends,
                      crashes : 0 .. MaxCrashes, errors : 0 .. MaxRedisErrors]
      /\ counts'.webhooks = counts.webhooks /\ counts'.errors = counts.errors
  <2>1. CASE SendWebhook
    <3>1. counts.sends + 1 \in 0 .. MaxSends /\ counts' = [counts EXCEPT !.sends = counts.sends + 1]
      BY <1>0, <2>1, ConstantsAssumption DEF SendWebhook, StoreTyped
    <3> QED
      BY <1>0, <3>1 DEF StoreTyped
  <2>2. CASE counts' = counts
    BY <1>0, <2>2 DEF StoreTyped
  <2> QED
    BY <2>1, <2>2 DEF RetryProcessor, RetryTimer
<1> QED
  BY <1>1, <1>2, <1>3, DeliveryStep

(* Without its first command the sequence has no hgetall. *)
LEMMA TailCommands ==
  ASSUME StoreInv, commands # <<>>
  PROVE  /\ Tail(commands) \in Seq(Command) /\ Head(commands) \in Command
         /\ \A i \in 1 .. Len(Tail(commands)) : /\ Tail(commands)[i].op # "load"
                                                /\ Tail(commands)[i].webhook \in Webhooks
         /\ Head(commands).op # "load" => /\ Head(commands).webhook \in Webhooks
                                          /\ 1 \in Writes(commands, Head(commands).webhook)
         /\ Head(commands).op = "load" => Head(commands) = Load /\ commands[1].op = "load"
<1>1. commands \in Seq(Command) /\ LoadFirst
  BY DEF StoreInv, StoreTyped
<1>2. /\ Tail(commands) \in Seq(Command) /\ Head(commands) \in Command
      /\ Len(Tail(commands)) = Len(commands) - 1 /\ Len(commands) \in Nat \ {0}
      /\ Head(commands) = commands[1] /\ DOMAIN commands = 1 .. Len(commands)
      /\ \A i \in 1 .. Len(commands) - 1 : Tail(commands)[i] = commands[i + 1]
  BY <1>1
<1>3. \A i \in 1 .. Len(Tail(commands)) :
         i + 1 \in 1 .. Len(commands) /\ i + 1 # 1 /\ Tail(commands)[i] = commands[i + 1]
  BY <1>2
<1> HIDE DEF LoadFirst
<1>4. 1 \in 1 .. Len(commands) /\ Load.op = "load"
  BY <1>2 DEF Load
<1> QED
  BY <1>1, <1>2, <1>3, <1>4 DEF LoadFirst, Writes

LEMMA LoadStep ==
  ASSUME StoreInv, RetryInv', RedisAnswers, Head(commands).op = "load"
  PROVE  StoreInv'
<1>0. StoreTyped /\ commands # <<>>
  BY DEF StoreInv, RedisAnswers
<1>1. Head(commands) = Load /\ ~Load.again /\ Load.send = 0
  BY <1>0, TailCommands DEF Load
<1>2. /\ live' = live \cup {w \in Webhooks : redis[w].stored}
      /\ obj' = [w \in Webhooks |-> IF redis[w].stored THEN redis[w] ELSE obj[w]]
      /\ commands' = Tail(commands) /\ UNCHANGED <<redis, delivery, counts>>
  BY <1>1 DEF RedisAnswers, deliveryVars
<1>3. StoreTyped'
  BY <1>0, <1>2, TailCommands DEF StoreTyped
<1>4. LoadFirst' /\ Loading'
  <2>1. \A i \in 1 .. Len(commands') : commands'[i].op # "load" /\ commands'[i].webhook \in Webhooks
    BY <1>0, <1>2, TailCommands
  <2>2. commands' # <<>> => 1 \in 1 .. Len(commands')
    BY <1>3 DEF StoreTyped
  <2> QED
    BY <2>1, <2>2 DEF LoadFirst, Loading
<1>5. \A w \in Webhooks : Writes(commands, w) = {} => Writes(commands', w) = {}
  <2> SUFFICES ASSUME NEW w \in Webhooks, NEW i \in Writes(commands', w)
               PROVE  Writes(commands, w) # {}
    OBVIOUS
  <2>1. commands \in Seq(Command)
    BY <1>0 DEF StoreTyped
  <2> QED
    BY <1>0, <1>2, <2>1, TailWrites
<1>6. Fresh'
  <2> SUFFICES ASSUME NEW w \in Webhooks, w > counts.webhooks
               PROVE  ~redis[w].stored /\ Quiet(w)'
    BY <1>2 DEF Fresh
  <2>1. ~redis[w].stored /\ Quiet(w)
    BY DEF StoreInv, Fresh
  <2> QED
    BY <1>2, <1>5, <2>1 DEF Quiet
<1>7. StoreFollowsMemory'
  <2> SUFFICES ASSUME counts.errors = 0, NEW w \in live'
               PROVE  CaughtUp(commands', w, redis[w], obj'[w])
    BY <1>2 DEF StoreFollowsMemory
  <2>0. w \in Webhooks /\ commands \in Seq(Command)
    BY <1>0, <1>3 DEF StoreTyped
  <2>1. redis[w].stored => Quiet(w)
    BY <1>0, <2>0, <1>1, TailCommands DEF StoreInv, Loading
  <2>2. CASE redis[w].stored
    BY <1>2, <1>5, <2>0, <2>1, <2>2 DEF Quiet, CaughtUp
  <2>3. CASE ~redis[w].stored
    <3>1. w \in live /\ obj'[w] = obj[w]
      BY <1>2, <2>0, <2>3
    <3>2. CaughtUp(commands, w, redis[w], obj[w])
      BY <3>1 DEF StoreInv, StoreFollowsMemory
    <3>3. CaughtUp(Tail(commands), w, IF Head(commands).op # "load" /\ Head(commands).webhook = w
                                      THEN Head(commands).value ELSE redis[w], obj[w])
      BY <1>0, <2>0, <3>2, TailCaughtUp
    <3> QED
      BY <1>2, <3>1, <3>3
  <2> QED
    BY <2>2, <2>3
<1> QED
  BY <1>3, <1>4, <1>6, <1>7 DEF StoreInv

(* The answer to a write: the entry is replaced, and the second save of a   *)
(* disabled endpoint may be issued.                                         *)
LEMMA AnswerStep ==
  ASSUME StoreInv, RetryInv', RedisAnswers, Head(commands).op # "load"
  PROVE  StoreInv'
<1> DEFINE c == Head(commands)
           x == c.webhook
           T == Tail(commands)
           s2 == Save(x, obj[x], FALSE, c.send)
<1>0. /\ StoreTyped /\ RetryInv /\ commands # <<>> /\ commands \in Seq(Command)
      /\ T \in Seq(Command) /\ c \in Command /\ x \in Webhooks /\ 1 \in Writes(commands, x)
  BY TailCommands DEF StoreInv, StoreTyped, RedisAnswers
<1>1. /\ redis' = [redis EXCEPT ![x] = c.value] /\ UNCHANGED <<live, obj, counts>>
      /\ commands' = IF c.again THEN Append(T, s2) ELSE T
  BY DEF RedisAnswers
<1>2. s2 \in Command /\ s2.op = "save" /\ s2.webhook = x /\ s2.value = obj[x]
  <2>1. c.send \in 0 .. MaxSends /\ obj[x] \in Endpoint
    BY <1>0 DEF Command, StoreTyped
  <2>2. x \in 0 .. MaxWebhooks
    BY <1>0 DEF Webhooks
  <2> HIDE DEF c, x
  <2> QED
    BY <2>1, <2>2 DEF Save, Command
<1>3. \A d \in Deliveries :
         delivery[d].requests = 0 /\ ~Deliverable(d[2]) => delivery'[d].requests = 0
  <2>0. UNCHANGED deliveryVars \/ Continue(c.send, sends[c.send])
    BY DEF RedisAnswers
  <2> HIDE DEF c
  <2>1. CASE UNCHANGED deliveryVars
    BY <2>1 DEF deliveryVars
  <2>2. CASE Continue(c.send, sends[c.send])
    BY <1>0, <2>2, ContinueRequests
  <2> QED
    BY <2>0, <2>1, <2>2
<1>4. \A i \in 1 .. Len(T) : T[i].op # "load" /\ T[i].webhook \in Webhooks
  BY <1>0, TailCommands
<1>5. \A w \in Webhooks : Writes(commands, w) = {} => Writes(T, w) = {}
  <2> SUFFICES ASSUME NEW w \in Webhooks, NEW i \in Writes(T, w)
               PROVE  Writes(commands, w) # {}
    OBVIOUS
  <2> QED
    BY <1>0, TailWrites
<1>6. \A w \in live : counts.errors = 0 =>
         CaughtUp(T, w, IF c.op # "load" /\ c.webhook = w THEN c.value ELSE redis[w], obj[w])
  <2> SUFFICES ASSUME NEW w \in live, counts.errors = 0
               PROVE  CaughtUp(T, w, IF c.op # "load" /\ c.webhook = w THEN c.value ELSE redis[w], obj[w])
    OBVIOUS
  <2>1. CaughtUp(commands, w, redis[w], obj[w])
    BY DEF StoreInv, StoreFollowsMemory
  <2> QED
    BY <1>0, <2>1, TailCaughtUp
<1>7. \A w \in live : IF c.op # "load" /\ c.webhook = w THEN redis'[w] = c.value ELSE redis'[w] = redis[w]
  BY <1>0, <1>1 DEF StoreTyped
<1>8. c.value \in Endpoint
  BY <1>0 DEF Command
<1> HIDE DEF c, x, T, s2
<1>9. /\ StoreTyped' /\ LoadFirst'
      /\ \A i \in 1 .. Len(commands') : commands'[i].op # "load" /\ commands'[i].webhook \in Webhooks
      /\ \A w \in Webhooks : w # x /\ Writes(commands, w) = {} => Writes(commands', w) = {}
  <2>0. redis' \in [Webhooks -> Endpoint]
    BY <1>0, <1>1, <1>8 DEF StoreTyped
  <2>1. CASE c.again
    <3>1. commands' = Append(T, s2) /\ commands' \in Seq(Command)
      BY <1>0, <1>1, <1>2, <2>1
    <3>2. \A i \in 1 .. Len(commands') : commands'[i].op # "load" /\ commands'[i].webhook \in Webhooks
      <4>1. Len(commands') = Len(T) + 1 /\ Len(T) \in Nat
        BY <1>0, <3>1
      <4>2. \A i \in 1 .. Len(T) + 1 : commands'[i] = IF i = Len(T) + 1 THEN s2 ELSE T[i]
        BY <1>0, <1>2, <3>1
      <4> QED
        BY <1>0, <1>2, <1>4, <4>1, <4>2
    <3>3. \A w \in Webhooks : w # x => Writes(commands', w) = Writes(T, w)
      BY <1>0, <1>2, <3>1, AppendWrites
    <3> QED
      BY <1>0, <1>1, <1>5, <2>0, <3>1, <3>2, <3>3 DEF StoreTyped, LoadFirst
  <2>2. CASE ~c.again
    BY <1>0, <1>1, <1>4, <1>5, <2>0, <2>2 DEF StoreTyped, LoadFirst
  <2> QED
    BY <2>1, <2>2
<1>10. Loading'
  <2>1. commands' # <<>> => 1 \in 1 .. Len(commands')
    BY <1>9 DEF StoreTyped
  <2> QED
    BY <1>9, <2>1 DEF Loading
<1>11. Fresh'
  <2> SUFFICES ASSUME NEW w \in Webhooks, w > counts.webhooks
               PROVE  ~redis'[w].stored /\ Quiet(w)'
    BY <1>1 DEF Fresh
  <2>1. ~redis[w].stored /\ Quiet(w)
    BY DEF StoreInv, Fresh
  <2>2. w # x
    BY <1>0, <2>1 DEF Quiet
  <2>3. redis'[w] = redis[w]
    BY <1>0, <1>1, <2>2 DEF StoreTyped
  <2>4. \A d \in Deliveries : d[2] = w => delivery'[d].requests = 0
    BY <1>3, <2>1 DEF Quiet, Deliverable
  <2> QED
    BY <1>1, <1>9, <2>1, <2>2, <2>3, <2>4 DEF Quiet
<1>12. StoreFollowsMemory'
  <2> SUFFICES ASSUME counts.errors = 0, NEW w \in live
               PROVE  CaughtUp(commands', w, redis'[w], obj[w])
    BY <1>1 DEF StoreFollowsMemory
  <2>1. CaughtUp(T, w, redis'[w], obj[w])
    BY <1>6, <1>7
  <2>2. CASE c.again /\ w = x
    BY <1>0, <1>1, <1>2, <2>2, AppendOwn
  <2>3. CASE c.again /\ w # x
    BY <1>0, <1>1, <1>2, <2>1, <2>3, AppendOther
  <2>4. CASE ~c.again
    BY <1>1, <2>1, <2>4
  <2> QED
    BY <2>2, <2>3, <2>4
<1> QED
  BY <1>9, <1>10, <1>11, <1>12 DEF StoreInv

LEMMA FailureStep ==
  ASSUME StoreInv, RetryInv', RedisFails
  PROVE  StoreInv'
<1>0. StoreTyped /\ RetryInv /\ commands # <<>> /\ commands \in Seq(Command)
  BY DEF StoreInv, StoreTyped, RedisFails
<1>1. commands' = Tail(commands) /\ UNCHANGED <<live, obj, redis, delivery>>
  BY DEF RedisFails, endpointVars, deliveryVars
<1>2. /\ counts' \in [webhooks : 0 .. MaxWebhooks, sends : 0 .. MaxSends,
                       crashes : 0 .. MaxCrashes, errors : 0 .. MaxRedisErrors]
      /\ counts'.webhooks = counts.webhooks /\ counts'.errors # 0
  <2>0. /\ counts \in [webhooks : 0 .. MaxWebhooks, sends : 0 .. MaxSends,
                         crashes : 0 .. MaxCrashes, errors : 0 .. MaxRedisErrors]
        /\ counts.errors < MaxRedisErrors /\ counts' = [counts EXCEPT !.errors = counts.errors + 1]
    BY <1>0 DEF StoreTyped, RedisFails
  <2>1. counts.errors + 1 \in 0 .. MaxRedisErrors /\ counts.errors + 1 # 0
    BY <2>0, ConstantsAssumption
  <2> QED
    BY <2>0, <2>1
<1>3. StoreTyped'
  BY <1>0, <1>1, <1>2, TailCommands DEF StoreTyped
<1>4. LoadFirst' /\ Loading'
  <2>1. \A i \in 1 .. Len(commands') : commands'[i].op # "load" /\ commands'[i].webhook \in Webhooks
    BY <1>0, <1>1, TailCommands
  <2>2. commands' # <<>> => 1 \in 1 .. Len(commands')
    BY <1>3 DEF StoreTyped
  <2> QED
    BY <2>1, <2>2 DEF LoadFirst, Loading
<1>5. Fresh'
  <2> SUFFICES ASSUME NEW w \in Webhooks, w > counts.webhooks
               PROVE  ~redis[w].stored /\ Quiet(w)'
    BY <1>1, <1>2 DEF Fresh
  <2>1. ~redis[w].stored /\ Quiet(w)
    BY DEF StoreInv, Fresh
  <2>2. \A i \in Writes(Tail(commands), w) : i + 1 \in Writes(commands, w)
    BY <1>0, TailWrites
  <2> QED
    BY <1>1, <2>1, <2>2 DEF Quiet
<1>6. StoreFollowsMemory'
  BY <1>2 DEF StoreFollowsMemory
<1> QED
  BY <1>3, <1>4, <1>5, <1>6 DEF StoreInv

LEMMA CrashStep ==
  ASSUME StoreInv, RetryInv', Crash
  PROVE  StoreInv'
<1>0. StoreTyped /\ RetryInv /\ Fresh
  BY DEF StoreInv
<1>1. /\ live' = {} /\ commands' = <<Load>> /\ redis' = redis
      /\ obj' = [w \in Webhooks |-> Absent]
  BY DEF Crash
<1>2. /\ counts' \in [webhooks : 0 .. MaxWebhooks, sends : 0 .. MaxSends,
                       crashes : 0 .. MaxCrashes, errors : 0 .. MaxRedisErrors]
      /\ counts'.webhooks = counts.webhooks
  <2>1. counts.crashes + 1 \in 0 .. MaxCrashes
    BY <1>0, ConstantsAssumption DEF StoreTyped, Crash
  <2> QED
    BY <1>0, <2>1 DEF StoreTyped, Crash
<1>3. \A d \in Deliveries : delivery'[d].requests = 0
  BY DEF Crash, NoDelivery
<1>4. commands' \in Seq(Command) /\ Len(commands') = 1 /\ commands'[1] = Load
  BY <1>1, CommandTypes
<1>5. StoreTyped'
  BY <1>0, <1>1, <1>2, <1>4, CommandTypes DEF StoreTyped
<1>6. LoadFirst'
  BY <1>4 DEF LoadFirst, Load
<1>7. \A w \in Webhooks : Quiet(w)'
  <2>1. \A w \in Webhooks : Writes(commands', w) = {}
    BY <1>4 DEF Writes, Load
  <2> QED
    BY <1>1, <1>3, <2>1 DEF Quiet
<1>8. Fresh' /\ Loading' /\ StoreFollowsMemory'
  BY <1>0, <1>1, <1>2, <1>7 DEF Fresh, Loading, StoreFollowsMemory
<1> QED
  BY <1>5, <1>6, <1>8 DEF StoreInv

LEMMA StoreStep ==
  ASSUME StoreInv, RetryInv', [Next]_vars
  PROVE  StoreInv'
<1>1. CASE Shutdown \/ UNCHANGED vars
  <2>1. UNCHANGED <<live, obj, redis, commands, counts, delivery>>
    BY <1>1 DEF Shutdown, vars, endpointVars, deliveryVars
  <2>2. counts \in [webhooks : 0 .. MaxWebhooks, sends : 0 .. MaxSends,
                    crashes : 0 .. MaxCrashes, errors : 0 .. MaxRedisErrors]
    BY DEF StoreInv, StoreTyped
  <2> QED
    BY <2>1, <2>2, DeliveryStep
<1>2. CASE RedisAnswers
  BY <1>2, LoadStep, AnswerStep
<1> QED
  BY <1>1, <1>2, ApiSteps, FetchSteps, RetrySteps, FailureStep, CrashStep DEF Next

LEMMA StoreStart ==
  ASSUME Init
  PROVE  StoreTyped /\ LoadFirst /\ Fresh /\ Loading /\ StoreFollowsMemory
<1>1. live = {} /\ commands = <<Load>> /\ counts.webhooks = 0
      /\ obj = [w \in Webhooks |-> Absent] /\ redis = [w \in Webhooks |-> Absent]
  BY DEF Init
<1>2. commands \in Seq(Command) /\ Len(commands) = 1 /\ commands[1] = Load
  BY <1>1, CommandTypes
<1>3. StoreTyped
  BY <1>1, <1>2, CommandTypes, ConstantsAssumption DEF Init, StoreTyped
<1>4. LoadFirst
  BY <1>2 DEF LoadFirst, Load
<1>5. \A w \in Webhooks : ~redis[w].stored /\ Quiet(w)
  <2>1. \A w \in Webhooks : Writes(commands, w) = {}
    BY <1>2 DEF Writes, Load
  <2>2. \A d \in Deliveries : delivery[d].requests = 0
    BY DEF Init, NoDelivery
  <2> QED
    BY <1>1, <2>1, <2>2 DEF Quiet, Absent
<1> QED
  BY <1>1, <1>3, <1>4, <1>5 DEF Fresh, Loading, StoreFollowsMemory

(* Whatever calls, deliveries, timers and restarts overlap, and as long as  *)
(* no Redis command fails, the last command issued for a registered         *)
(* endpoint carries its present state (the saves of registerWebhook,        *)
(* updateWebhook and attemptDelivery).                                      *)
THEOREM StoreCatchesUp ==
  Spec => []StoreFollowsMemory
<1>1. Init /\ RetryInv => StoreInv
  BY StoreStart DEF StoreInv
<1>2. StoreInv /\ RetryInv' /\ [Next]_vars => StoreInv'
  BY StoreStep
<1>3. StoreInv => StoreFollowsMemory
  BY DEF StoreInv
<1> QED
  BY <1>1, <1>2, <1>3, RetryInvariant, PTL DEF Spec
=============================================================================
