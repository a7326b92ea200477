-------------------------- MODULE WebSocketManager --------------------------
(***************************************************************************)
(* The browser SDK's WebSocket transport                                   *)
(* (apps/tracking/src/modules/WebSocketManager.ts): one manager object, the *)
(* sockets it creates, its timers, the promises reconnect() awaits and the *)
(* queue of messages that wait for a connection.                           *)
(*                                                                         *)
(* The manager is a record and every method an operator from record to     *)
(* record, composed in an action the way the handler calls them.  A browser*)
(* runs one task at a time, so a task (an application call, a timer, a     *)
(* socket event with the promise reactions it triggers) is one action.     *)
(***************************************************************************)
EXTENDS Naturals, FiniteSets

CONSTANTS
    Sockets,              \* identities of WebSocket objects, recycled once dead
    None,                 \* the null socket
    Urls,                 \* urls the application may connect to
    BadUrls,              \* urls for which the WebSocket constructor throws
    ConfigUrl,            \* config.url
    AutoReconnect,        \* config.reconnect
    MaxReconnectAttempts, \* config.maxReconnectAttempts
    MessageQueueSize,     \* config.messageQueueSize
    MaxMissed,            \* heartbeatConfig.maxMissed
    MaxMessages,          \* bound: messages the application sends
    MaxOrphans,           \* bound: pending heartbeat timeouts whose handle was
                          \* overwritten (0 when heartbeatInterval > timeout)
    ServerAnswers         \* whether the server answers heartbeats

ASSUME ConstantsAssumption ==
    /\ None \notin Sockets
    /\ BadUrls \subseteq Urls
    /\ ConfigUrl \in Urls
    /\ AutoReconnect \in BOOLEAN
    /\ MaxReconnectAttempts \in Nat \ {0}
    /\ MessageQueueSize \in Nat \ {0}
    /\ MaxMissed \in Nat \ {0}
    /\ MaxMessages \in Nat
    /\ MaxOrphans \in Nat
    /\ ServerAnswers \in BOOLEAN

VARIABLES
    mgr,       \* the scalar fields of the WebSocketManager object
    queue,     \* _messageQueue
    ready,     \* readyState of every socket
    awaited,   \* sockets whose connect() promise a reconnect() still awaits
    timeouts,  \* sockets whose connection timeout has not fired
    sent,      \* ids of the messages handed to WebSocket.send
    issued     \* number of messages the application has passed to send()

netVars == <<ready, awaited, timeouts>>
msgVars == <<queue, sent, issued>>
vars == <<mgr, queue, ready, awaited, timeouts, sent, issued>>

Status == {"disconnected", "connecting", "connected", "reconnecting", "error"}

(* readyState; "aborting" is CLOSING entered from CONNECTING, which ends    *)
(* with an error event, and an unused object counts as closed.              *)
ReadyState == {"connecting", "open", "closing", "aborting", "closed"}

(* A message of _messageQueue.  Ids are given in the order of the send()    *)
(* calls; the array only grows at its end, so its order is the order of the *)
(* ids and the array is represented by the set of its elements.  A message  *)
(* is sendable unless JSON.stringify throws on its data.                    *)
Queued == [id : 1 .. MaxMessages, sendable : BOOLEAN, critical : BOOLEAN, attempts : 0 .. 5]

Manager ==
    [status : Status, url : Urls, reconnectAttempts : 0 .. MaxReconnectAttempts,
     socket : Sockets \cup {None}, reconnectTimeout : BOOLEAN,
     heartbeatInterval : BOOLEAN, heartbeatTimeout : BOOLEAN, orphans : 0 .. MaxOrphans,
     heartbeatsMissed : Nat, pinged : BOOLEAN,
     queueProcessor : BOOLEAN, destroyed : BOOLEAN]

Init ==
    /\ mgr = [status |-> "disconnected", url |-> ConfigUrl, reconnectAttempts |-> 0,
              socket |-> None, reconnectTimeout |-> FALSE,
              heartbeatInterval |-> FALSE, heartbeatTimeout |-> FALSE, orphans |-> 0,
              heartbeatsMissed |-> 0, pinged |-> FALSE,
              queueProcessor |-> FALSE, destroyed |-> FALSE]
    /\ queue = {}
    /\ ready = [s \in Sockets |-> "closed"]
    /\ awaited = {}
    /\ timeouts = {}
    /\ sent = {}
    /\ issued = 0

-----------------------------------------------------------------------------
(* Methods that only touch the manager's own fields. *)

ClearTimers(m) ==
    [m EXCEPT !.heartbeatInterval = FALSE, !.heartbeatTimeout = FALSE,
              !.reconnectTimeout = FALSE, !.queueProcessor = FALSE]

CleanupConnection(m) ==
    [ClearTimers(m) EXCEPT !.pinged = FALSE, !.heartbeatsMissed = 0]

ScheduleReconnection(m) == [m EXCEPT !.reconnectTimeout = TRUE]

OnError(m) == [m EXCEPT !.status = "error"]

OnClose(m) ==
    LET closed == CleanupConnection([m EXCEPT !.status = "disconnected"])
    IN IF AutoReconnect /\ m.status = "connected" /\ ~m.destroyed
       THEN ScheduleReconnection(closed)
       ELSE closed

(* _onOpen up to _processQueue: the status and the heartbeat interval. *)
OnOpen(m) == [m EXCEPT !.status = "connected", !.heartbeatInterval = TRUE]

-----------------------------------------------------------------------------
(* The message queue. *)

IsOpen(m, r) == m.socket # None /\ r[m.socket] = "open"

MaxRetries(q) == IF q.critical THEN 5 ELSE 3

(* Mutant of QueueMessage: the limit is tested with > instead of >=. *)
QueueMessageLate(q) ==
    IF Cardinality(queue) > MessageQueueSize
    THEN {p \in queue : \E o \in queue : o.id < p.id} \cup {q}
    ELSE queue \cup {q}

(* _queueMessage: a full queue drops its oldest message. *)
QueueMessage(q) ==
    IF Cardinality(queue) >= MessageQueueSize
    THEN {p \in queue : \E o \in queue : o.id < p.id} \cup {q}
    ELSE queue \cup {q}

(* Mutant of ProcessQueue: a message that was sent stays in the queue. *)
ProcessQueueKeeps ==
    /\ sent' = sent \cup {q.id : q \in {p \in queue : p.sendable}}
    /\ UNCHANGED <<queue, issued>>

(* _processQueue: every due message is sent in order, or its retry count    *)
(* grows until it is dropped.  A message that failed before is due at a     *)
(* moment the clock decides (ripe).                                         *)
ProcessQueue ==
    \E ripe \in SUBSET {q \in queue : q.attempts > 0} :
        LET due == {q \in queue : q.attempts = 0} \cup ripe
            out == {q \in due : q.sendable}
            retry == {q \in due \ out : q.attempts + 1 < MaxRetries(q)}
        IN /\ queue' = (queue \ due) \cup {[q EXCEPT !.attempts = @ + 1] : q \in retry}
           /\ sent' = sent \cup {q.id : q \in out}
           /\ UNCHANGED issued

-----------------------------------------------------------------------------
(* connect() and reconnect(). *)

(* A WebSocket object nothing refers to any more. *)
Free(m) == {s \in Sockets \ {m.socket} : ready[s] = "closed" /\ s \notin timeouts}

(* connect() up to the constructor call: the old connection's timers are    *)
(* cleared, its socket is neither closed nor detached.                      *)
Connecting(m, u) ==
    LET old == IF m.socket # None THEN CleanupConnection(m) ELSE m
    IN [old EXCEPT !.status = "connecting", !.url = u]

(* The constructor threw: connect() records the error and rejects. *)
Refused(m, u) == [Connecting(m, u) EXCEPT !.status = "error"]

AlreadyOpen(m, u) == IsOpen(m, ready) /\ m.url = u

(* The constructor returned socket s; its connection timeout is started. *)
OpenSocket(m, u, s) ==
    /\ mgr' = [Connecting(m, u) EXCEPT !.socket = s]
    /\ ready' = [ready EXCEPT ![s] = "connecting"]
    /\ timeouts' = timeouts \cup {s}

(* Mutant of Exhausted: one attempt too many. *)
ExhaustedLate(m) == m.reconnectAttempts > MaxReconnectAttempts

Exhausted(m) == m.reconnectAttempts >= MaxReconnectAttempts

(* Mutant of Attempt: the attempt is not counted. *)
AttemptUncounted(m) == [m EXCEPT !.status = "reconnecting"]

Attempt(m) == [m EXCEPT !.status = "reconnecting", !.reconnectAttempts = @ + 1]

(* reconnect() from manager state m: give up, or await connect() and        *)
(* schedule another attempt when it rejects at once.                        *)
Reconnect(m) ==
    \/ /\ Exhausted(m)
       /\ mgr' = m
       /\ UNCHANGED netVars
    \/ /\ ~Exhausted(m)
       /\ m.destroyed
       /\ mgr' = ScheduleReconnection(Attempt(m))
       /\ UNCHANGED netVars
    \/ /\ ~Exhausted(m)
       /\ ~m.destroyed
       /\ AlreadyOpen(m, ConfigUrl)
       /\ mgr' = [Attempt(m) EXCEPT !.reconnectAttempts = 0]
       /\ UNCHANGED netVars
    \/ /\ ~Exhausted(m)
       /\ ~m.destroyed
       /\ ~AlreadyOpen(m, ConfigUrl)
       /\ \/ /\ ConfigUrl \in BadUrls
             /\ mgr' = ScheduleReconnection(Refused(Attempt(m), ConfigUrl))
             /\ UNCHANGED netVars
          \/ /\ ConfigUrl \notin BadUrls
             /\ \E s \in Free(m) :
                   /\ OpenSocket(Attempt(m), ConfigUrl, s)
                   /\ awaited' = awaited \cup {s}

-----------------------------------------------------------------------------
(* Calls of the application. *)

AppInit ==
    /\ mgr' = [mgr EXCEPT !.queueProcessor = TRUE]
    /\ UNCHANGED <<netVars, msgVars>>

(* connect() throws after destroy() and returns at once when the socket is  *)
(* open on the same url: neither changes anything.                          *)
AppConnect(u) ==
    /\ ~mgr.destroyed
    /\ ~AlreadyOpen(mgr, u)
    /\ \/ /\ u \in BadUrls
          /\ mgr' = Refused(mgr, u)
          /\ UNCHANGED netVars
       \/ /\ u \notin BadUrls
          /\ \E s \in Free(mgr) : OpenSocket(mgr, u, s)
          /\ UNCHANGED awaited
    /\ UNCHANGED msgVars

AppReconnect == Reconnect(mgr) /\ UNCHANGED msgVars

(* WebSocket.close() on the current socket. *)
CloseSocket ==
    ready' = [s \in Sockets |->
                 IF s # mgr.socket THEN ready[s]
                 ELSE IF ready[s] = "open" THEN "closing"
                 ELSE IF ready[s] = "connecting" THEN "aborting"
                 ELSE ready[s]]

Disconnected(m) == [CleanupConnection(m) EXCEPT !.status = "disconnected"]

AppDisconnect ==
    /\ CloseSocket
    /\ mgr' = Disconnected(mgr)
    /\ UNCHANGED <<awaited, timeouts, msgVars>>

(* Mutant of AppDestroy: disconnect() is not called. *)
AppDestroyConnected ==
    /\ mgr' = ClearTimers([mgr EXCEPT !.destroyed = TRUE])
    /\ queue' = {}
    /\ UNCHANGED <<netVars, sent, issued>>

AppDestroy ==
    /\ CloseSocket
    /\ mgr' = ClearTimers(Disconnected([mgr EXCEPT !.destroyed = TRUE]))
    /\ queue' = {}
    /\ UNCHANGED <<awaited, timeouts, sent, issued>>

AppClearQueue ==
    /\ queue' = {}
    /\ UNCHANGED <<mgr, netVars, sent, issued>>

(* send(): over an open socket, or into the queue when there is none or     *)
(* when serialising the message throws.                                     *)
AppSend(sendable, critical) ==
    /\ issued < MaxMessages
    /\ issued' = issued + 1
    /\ IF IsOpen(mgr, ready) /\ sendable
       THEN /\ sent' = sent \cup {issued + 1}
            /\ UNCHANGED queue
       ELSE /\ queue' = QueueMessage([id |-> issued + 1, sendable |-> sendable,
                                      critical |-> critical, attempts |-> 0])
            /\ UNCHANGED sent
    /\ UNCHANGED <<mgr, netVars>>

-----------------------------------------------------------------------------
(* Timers. *)

(* The connection timeout of socket s looks at the current socket, closes   *)
(* it if it is still connecting, and rejects the promise of s.              *)
ConnectionTimeout(s) ==
    /\ s \in timeouts
    /\ timeouts' = timeouts \ {s}
    /\ \/ /\ mgr.socket # None /\ ready[mgr.socket] = "connecting"
          /\ CloseSocket
          /\ mgr' = IF s \in awaited THEN ScheduleReconnection(mgr) ELSE mgr
          /\ awaited' = awaited \ {s}
       \/ /\ ~ (mgr.socket # None /\ ready[mgr.socket] = "connecting")
          /\ UNCHANGED <<mgr, ready, awaited>>
    /\ UNCHANGED msgVars

ReconnectTimer ==
    /\ mgr.reconnectTimeout
    /\ LET fired == [mgr EXCEPT !.reconnectTimeout = FALSE]
       IN \/ /\ ~mgr.destroyed /\ mgr.status # "connected"
             /\ Reconnect(fired)
          \/ /\ mgr.destroyed \/ mgr.status = "connected"
             /\ mgr' = fired
             /\ UNCHANGED netVars
    /\ UNCHANGED msgVars

(* The heartbeat interval: sendHeartbeat() and a new heartbeat timeout,     *)
(* whose handle replaces the one of a timeout still pending.                *)
HeartbeatTick ==
    /\ mgr.heartbeatInterval
    /\ IsOpen(mgr, ready)
    /\ mgr.heartbeatTimeout => mgr.orphans < MaxOrphans
    /\ mgr' = [mgr EXCEPT !.pinged = TRUE, !.heartbeatsMissed = 0, !.heartbeatTimeout = TRUE,
                          !.orphans = IF mgr.heartbeatTimeout THEN @ + 1 ELSE @]
    /\ UNCHANGED <<netVars, msgVars>>

MissedHeartbeat(m) ==
    LET missed == [m EXCEPT !.heartbeatsMissed = @ + 1]
    IN \/ missed.heartbeatsMissed >= MaxMissed /\ Reconnect(missed)
       \/ /\ missed.heartbeatsMissed < MaxMissed
          /\ mgr' = missed
          /\ UNCHANGED netVars

HeartbeatTimeout ==
    /\ \/ mgr.heartbeatTimeout /\ MissedHeartbeat([mgr EXCEPT !.heartbeatTimeout = FALSE])
       \/ mgr.orphans > 0 /\ MissedHeartbeat([mgr EXCEPT !.orphans = @ - 1])
    /\ UNCHANGED msgVars

QueueTick ==
    /\ mgr.queueProcessor
    /\ IsOpen(mgr, ready)
    /\ queue # {}
    /\ ProcessQueue
    /\ UNCHANGED <<mgr, netVars>>

-----------------------------------------------------------------------------
(* Events of the sockets, whichever socket the manager now refers to. *)

(* Mutant of SocketOpens: the queue is left to the queue processor. *)
SocketOpensUnflushed(s) ==
    /\ ready[s] = "connecting"
    /\ ready' = [ready EXCEPT ![s] = "open"]
    /\ mgr' = OnOpen(mgr)
    /\ awaited' = awaited \ {s}
    /\ UNCHANGED <<timeouts, msgVars>>

(* onopen, then the continuation of the reconnect() that awaited s. *)
SocketOpens(s) ==
    /\ ready[s] = "connecting"
    /\ ready' = [ready EXCEPT ![s] = "open"]
    /\ mgr' = IF s \in awaited THEN [OnOpen(mgr) EXCEPT !.reconnectAttempts = 0] ELSE OnOpen(mgr)
    /\ awaited' = awaited \ {s}
    /\ IF IsOpen(mgr, ready') /\ queue # {} THEN ProcessQueue ELSE UNCHANGED msgVars
    /\ UNCHANGED timeouts

(* onerror, the continuation of the rejected reconnect(), and onclose: the  *)
(* two events are fired by one task, reactions run between them.            *)
SocketErrors(s) ==
    /\ ready[s] \in {"connecting", "aborting", "open"}
    /\ ready' = [ready EXCEPT ![s] = "closed"]
    /\ mgr' = OnClose(IF s \in awaited THEN ScheduleReconnection(OnError(mgr)) ELSE OnError(mgr))
    /\ awaited' = awaited \ {s}
    /\ UNCHANGED <<timeouts, msgVars>>

(* onclose alone: the server closed the connection, or close() completed. *)
SocketCloses(s) ==
    /\ ready[s] \in {"open", "closing"}
    /\ ready' = [ready EXCEPT ![s] = "closed"]
    /\ mgr' = OnClose(mgr)
    /\ UNCHANGED <<awaited, timeouts, msgVars>>

(* A heartbeat answer for a pending ping; others may still be pending. *)
HeartbeatAnswer ==
    /\ ServerAnswers
    /\ \E s \in Sockets : ready[s] = "open"
    /\ mgr.pinged
    /\ \E pinged \in BOOLEAN :
          mgr' = [mgr EXCEPT !.pinged = pinged, !.heartbeatsMissed = 0]
    /\ UNCHANGED <<netVars, msgVars>>

(* An acknowledgment removes the message it names from the queue. *)
Acknowledgment(id) ==
    /\ \E s \in Sockets : ready[s] = "open"
    /\ queue' = {q \in queue : q.id # id}
    /\ UNCHANGED <<mgr, netVars, sent, issued>>

-----------------------------------------------------------------------------
App ==
    \/ AppInit
    \/ \E u \in Urls : AppConnect(u)
    \/ AppReconnect
    \/ AppDisconnect
    \/ AppDestroy
    \/ AppClearQueue
    \/ \E sendable, critical \in BOOLEAN : AppSend(sendable, critical)

SocketEvent(s) == SocketOpens(s) \/ SocketErrors(s) \/ SocketCloses(s)

Environment ==
    \/ \E s \in Sockets : ConnectionTimeout(s) \/ SocketEvent(s)
    \/ ReconnectTimer
    \/ HeartbeatTick
    \/ HeartbeatTimeout
    \/ QueueTick
    \/ HeartbeatAnswer
    \/ \E id \in 1 .. issued : Acknowledgment(id)

Next == App \/ Environment

Spec == Init /\ [][Next]_vars

-----------------------------------------------------------------------------
(* Fairness: timers that are set fire, and every socket the browser is      *)
(* connecting or closing reaches an outcome.  Nothing is assumed of the     *)
(* application or of when an open connection is lost.                       *)
Fairness ==
    /\ WF_vars(ReconnectTimer)
    /\ WF_vars(HeartbeatTick)
    /\ WF_vars(HeartbeatTimeout)
    /\ WF_vars(QueueTick)
    /\ \A s \in Sockets :
          /\ WF_vars(ConnectionTimeout(s))
          /\ WF_vars(ready[s] # "open" /\ SocketEvent(s))

FairSpec == Spec /\ Fairness

(* A session the application leaves alone: it has called connect() and the  *)
(* timers and the network do the rest.                                      *)
SessionInit ==
    /\ queue = {} /\ sent = {} /\ issued = 0
    /\ \E s \in Sockets :
          /\ mgr = [status |-> "connecting", url |-> ConfigUrl, reconnectAttempts |-> 0,
                    socket |-> s, reconnectTimeout |-> FALSE,
                    heartbeatInterval |-> FALSE, heartbeatTimeout |-> FALSE, orphans |-> 0,
                    heartbeatsMissed |-> 0, pinged |-> FALSE,
                    queueProcessor |-> FALSE, destroyed |-> FALSE]
          /\ ready = [t \in Sockets |-> IF t = s THEN "connecting" ELSE "closed"]
          /\ timeouts = {s}
          /\ awaited = {}

SessionSpec == SessionInit /\ [][Environment]_vars /\ Fairness

-----------------------------------------------------------------------------
(* Properties. *)

(* Every field keeps its type; the counters stay within the configuration. *)
TypeOK ==
    /\ mgr \in Manager
    /\ queue \in SUBSET Queued
    /\ ready \in [Sockets -> ReadyState]
    /\ awaited \in SUBSET Sockets
    /\ timeouts \in SUBSET Sockets
    /\ sent \in SUBSET (1 .. issued)
    /\ issued \in 0 .. MaxMessages

(* While the current socket is open no message that could be sent waits in  *)
(* the queue, whichever sockets were replaced, dropped or opened late: the  *)
(* flush of _onOpen and the test of send() leave no gap.                    *)
NothingSendableWaits ==
    IsOpen(mgr, ready) => \A q \in queue : ~q.sendable

(* A queued message that can still be sent is younger than every message    *)
(* already sent, so send() order survives reconnections, retries and drops  *)
(* and no message is sent twice (_processQueue removes what it sends).      *)
QueueBehindWire ==
    \A q \in queue : q.sendable => \A i \in sent : i < q.id

(* The queue never holds more than messageQueueSize messages. *)
QueueBounded == Cardinality(queue) <= MessageQueueSize

(* Messages reach the wire in the order of the send() calls. *)
SendOrder == [][\A i \in sent' \ sent : \A j \in sent : j < i]_vars

(* destroy() is final: the manager never creates another socket, never      *)
(* sends another message and never comes back, whatever timers, promises    *)
(* and socket events were still under way.                                  *)
DestroyedIsFinal ==
    [][mgr.destroyed => mgr'.destroyed /\ mgr'.socket = mgr.socket /\ sent' = sent]_vars

(* The retry loop always comes to rest: either a connection is up or being  *)
(* set up, or maxReconnectAttempts ends it.                                 *)
RetriesEnd == []<>~mgr.reconnectTimeout

-----------------------------------------------------------------------------
(* What comments of the source claim and the code does not do. *)

(* "Will schedule next attempt automatically": an automatic reconnection    *)
(* that was started goes on until it connects or exhausts its attempts.     *)
RetriesUntilExhausted ==
    mgr.reconnectAttempts > 0 ~> IsOpen(mgr, ready) \/ mgr.reconnectAttempts = MaxReconnectAttempts

(* "Too many missed heartbeats, reconnecting": a server that never answers  *)
(* a heartbeat does not stay connected for ever.                            *)
SilentServerNoticed == IsOpen(mgr, ready) ~> mgr.status = "reconnecting" \/ ~IsOpen(mgr, ready)
=============================================================================
