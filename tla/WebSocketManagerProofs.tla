----------------------- MODULE WebSocketManagerProofs -----------------------
(***************************************************************************)
(* Proofs about WebSocketManager, for every set of sockets and urls, every *)
(* configuration and any number of messages.                               *)
(***************************************************************************)
EXTENDS WebSocketManager, TLAPS

-----------------------------------------------------------------------------
(* What the methods do to the fields the invariants speak of. *)

(* _clearTimers and _cleanupConnection touch neither the socket, the        *)
(* destroyed flag nor the attempt counter.                                  *)
LEMMA CleanupLemma ==
  ASSUME NEW m \in Manager
  PROVE  /\ ClearTimers(m) \in Manager
         /\ ClearTimers(m).socket = m.socket
         /\ ClearTimers(m).destroyed = m.destroyed
         /\ CleanupConnection(m) \in Manager
         /\ CleanupConnection(m).socket = m.socket
         /\ CleanupConnection(m).destroyed = m.destroyed
         /\ CleanupConnection(m).reconnectAttempts = m.reconnectAttempts
  BY DEF Manager, ClearTimers, CleanupConnection

(* Scheduling, errors, opening and closing keep the socket and the flag. *)
LEMMA HandlerLemma ==
  ASSUME NEW m \in Manager
  PROVE  /\ ScheduleReconnection(m) \in Manager
         /\ ScheduleReconnection(m).socket = m.socket
         /\ ScheduleReconnection(m).destroyed = m.destroyed
         /\ OnError(m) \in Manager
         /\ OnError(m).socket = m.socket
         /\ OnError(m).destroyed = m.destroyed
         /\ OnOpen(m) \in Manager
         /\ OnOpen(m).socket = m.socket
         /\ OnOpen(m).destroyed = m.destroyed
  BY DEF Manager, Status, ScheduleReconnection, OnError, OnOpen

LEMMA CloseLemma ==
  ASSUME NEW m \in Manager
  PROVE  /\ OnClose(m) \in Manager
         /\ OnClose(m).socket = m.socket
         /\ OnClose(m).destroyed = m.destroyed
         /\ Disconnected(m) \in Manager
         /\ Disconnected(m).socket = m.socket
         /\ Disconnected(m).destroyed = m.destroyed
<1> DEFINE d == [m EXCEPT !.status = "disconnected"]
<1>1. d \in Manager /\ d.socket = m.socket /\ d.destroyed = m.destroyed
  BY DEF Manager, Status
<1>2. /\ CleanupConnection(d) \in Manager
      /\ CleanupConnection(d).socket = m.socket
      /\ CleanupConnection(d).destroyed = m.destroyed
  BY <1>1, CleanupLemma
<1>3. /\ ScheduleReconnection(CleanupConnection(d)) \in Manager
      /\ ScheduleReconnection(CleanupConnection(d)).socket = m.socket
      /\ ScheduleReconnection(CleanupConnection(d)).destroyed = m.destroyed
  BY <1>2, HandlerLemma
<1>4. /\ Disconnected(m) \in Manager
      /\ Disconnected(m).socket = m.socket
      /\ Disconnected(m).destroyed = m.destroyed
  BY CleanupLemma DEF Disconnected, Manager, Status
<1> QED
  BY <1>2, <1>3, <1>4 DEF OnClose

(* connect() up to the constructor keeps the socket and the flag. *)
LEMMA ConnectingLemma ==
  ASSUME NEW m \in Manager, NEW u \in Urls
  PROVE  /\ Connecting(m, u) \in Manager
         /\ Connecting(m, u).socket = m.socket
         /\ Connecting(m, u).destroyed = m.destroyed
         /\ Refused(m, u) \in Manager
         /\ Refused(m, u).socket = m.socket
         /\ Refused(m, u).destroyed = m.destroyed
<1> DEFINE old == IF m.socket # None THEN CleanupConnection(m) ELSE m
<1>1. old \in Manager /\ old.socket = m.socket /\ old.destroyed = m.destroyed
  BY CleanupLemma
<1> DEFINE named == [old EXCEPT !.status = "connecting"]
<1>2. Connecting(m, u) = [named EXCEPT !.url = u]
  BY DEF Connecting
<1> HIDE DEF old
<1>a. named \in Manager /\ named.socket = m.socket /\ named.destroyed = m.destroyed
  BY <1>1 DEF Manager, Status
<1> HIDE DEF named
<1>3. /\ Connecting(m, u) \in Manager
      /\ Connecting(m, u).socket = m.socket
      /\ Connecting(m, u).destroyed = m.destroyed
  BY <1>2, <1>a DEF Manager
<1> QED
  BY <1>3 DEF Refused, Manager, Status

-----------------------------------------------------------------------------
(* The inductive invariant. *)

(* A destroyed manager's socket is gone or on its way out. *)
DestroyedIdle ==
    mgr.destroyed /\ mgr.socket # None => ready[mgr.socket] \notin {"connecting", "open"}

(* A message that can be sent has never failed, so every flush takes it. *)
SendableUntried == \A q \in queue : q.sendable => q.attempts = 0

(* The queue only holds messages the application has sent. *)
QueueIssued == \A q \in queue : q.id <= issued

(* The two queue invariants need each other, and SendableUntried: a flush   *)
(* must empty the queue of everything it can send.                          *)
IInv ==
    /\ TypeOK
    /\ DestroyedIdle
    /\ SendableUntried
    /\ QueueIssued
    /\ NothingSendableWaits
    /\ QueueBehindWire

(* What a step outside the queue may do to the connection: it opens no      *)
(* socket of the manager, or it replaces the socket by one that connects.   *)
NetStep ==
    /\ mgr' \in Manager
    /\ ready' \in [Sockets -> ReadyState]
    /\ awaited' \in SUBSET Sockets
    /\ timeouts' \in SUBSET Sockets
    /\ mgr'.destroyed = mgr.destroyed
    /\ \/ /\ mgr'.socket = mgr.socket
          /\ \A s \in Sockets : ready'[s] \in {"connecting", "open"} => ready'[s] = ready[s]
       \/ /\ ~mgr.destroyed
          /\ mgr'.socket \in Sockets
          /\ ready'[mgr'.socket] = "connecting"

LEMMA OpenSocketLemma ==
  ASSUME TypeOK, NEW m \in Manager, NEW u \in Urls, NEW s \in Sockets,
         m.destroyed = mgr.destroyed, ~m.destroyed,
         OpenSocket(m, u, s), awaited' \in SUBSET Sockets
  PROVE  NetStep
<1> DEFINE c == Connecting(m, u)
<1>1. c \in Manager /\ c.destroyed = mgr.destroyed
  BY ConnectingLemma
<1>2. mgr' = [c EXCEPT !.socket = s]
  BY DEF OpenSocket
<1> HIDE DEF c
<1>3. mgr' \in Manager /\ mgr'.destroyed = mgr.destroyed /\ mgr'.socket = s
  BY <1>1, <1>2 DEF Manager
<1>4. ready' \in [Sockets -> ReadyState] /\ ready'[s] = "connecting"
  BY DEF OpenSocket, TypeOK, ReadyState
<1>5. timeouts' \in SUBSET Sockets
  BY DEF OpenSocket, TypeOK
<1> QED
  BY <1>3, <1>4, <1>5 DEF NetStep

LEMMA ReconnectLemma ==
  ASSUME TypeOK, NEW m \in Manager, m.socket = mgr.socket, m.destroyed = mgr.destroyed,
         Reconnect(m)
  PROVE  NetStep
<1> USE ConstantsAssumption
<1>1. ~Exhausted(m) => /\ Attempt(m) \in Manager
                       /\ Attempt(m).socket = m.socket
                       /\ Attempt(m).destroyed = m.destroyed
  <2> DEFINE n == m.reconnectAttempts + 1
  <2>1. ~Exhausted(m) => n \in 0 .. MaxReconnectAttempts
    BY DEF Exhausted, Manager
  <2> DEFINE named == [m EXCEPT !.status = "reconnecting"]
  <2>2. Attempt(m) = [named EXCEPT !.reconnectAttempts = n]
    BY DEF Attempt, Manager
  <2> HIDE DEF n
  <2>3. named \in Manager /\ named.socket = m.socket /\ named.destroyed = m.destroyed
    BY DEF Manager, Status
  <2> HIDE DEF named
  <2> QED
    BY <2>1, <2>2, <2>3 DEF Manager
<1>2. CASE mgr' = m /\ UNCHANGED netVars
  BY <1>2 DEF NetStep, netVars, TypeOK
<1>3. CASE ~Exhausted(m) /\ mgr' = ScheduleReconnection(Attempt(m)) /\ UNCHANGED netVars
  BY <1>1, <1>3, HandlerLemma DEF NetStep, netVars, TypeOK
<1>4. CASE ~Exhausted(m) /\ mgr' = [Attempt(m) EXCEPT !.reconnectAttempts = 0] /\ UNCHANGED netVars
  <2> DEFINE a == Attempt(m)
  <2>1. a \in Manager /\ a.socket = mgr.socket /\ a.destroyed = mgr.destroyed
    BY <1>1, <1>4
  <2>2. mgr' = [a EXCEPT !.reconnectAttempts = 0]
    BY <1>4
  <2> HIDE DEF a
  <2>3. mgr' \in Manager /\ mgr'.socket = mgr.socket /\ mgr'.destroyed = mgr.destroyed
    BY <2>1, <2>2 DEF Manager
  <2> QED
    BY <1>4, <2>3 DEF NetStep, netVars, TypeOK
<1>5. CASE /\ ~Exhausted(m)
           /\ mgr' = ScheduleReconnection(Refused(Attempt(m), ConfigUrl))
           /\ UNCHANGED netVars
  BY <1>1, <1>5, HandlerLemma, ConnectingLemma, SMTT(30) DEF NetStep, netVars, TypeOK
<1>6. ASSUME NEW s \in Sockets, ~Exhausted(m), ~m.destroyed,
             OpenSocket(Attempt(m), ConfigUrl, s), awaited' = awaited \cup {s}
      PROVE  NetStep
  BY <1>1, <1>6, OpenSocketLemma DEF TypeOK
<1> QED
  BY <1>2, <1>3, <1>4, <1>5, <1>6 DEF Reconnect, Free

(* What every step must respect: the two action properties, as one formula. *)
SafeStep ==
    /\ mgr.destroyed => mgr'.destroyed /\ mgr'.socket = mgr.socket /\ sent' = sent
    /\ \A i \in sent' \ sent : \A j \in sent : j < i

(* A step that leaves the messages alone and is a NetStep keeps IInv. *)
LEMMA NetStepPreserves ==
  ASSUME IInv, NetStep, UNCHANGED msgVars
  PROVE  IInv' /\ SafeStep
<1> USE ConstantsAssumption
<1>1. TypeOK'
  BY DEF IInv, NetStep, TypeOK, msgVars
<1>2. IsOpen(mgr', ready') => IsOpen(mgr, ready)
  BY DEF IInv, TypeOK, NetStep, IsOpen, Manager
<1>3. NothingSendableWaits' /\ QueueBehindWire' /\ SendableUntried' /\ QueueIssued'
  BY <1>2 DEF IInv, NothingSendableWaits, QueueBehindWire, SendableUntried, QueueIssued, msgVars
<1>4. DestroyedIdle'
  BY DEF IInv, TypeOK, DestroyedIdle, NetStep, Manager
<1>5. SafeStep
  BY DEF NetStep, SafeStep, msgVars
<1> QED
  BY <1>1, <1>3, <1>4, <1>5 DEF IInv

-----------------------------------------------------------------------------
(* Steps that touch the queue. *)

(* _processQueue over a queue that satisfies the invariant sends everything *)
(* that can be sent and keeps the rest well formed.                         *)
LEMMA ProcessQueueLemma ==
  ASSUME IInv, ProcessQueue
  PROVE  /\ queue' \in SUBSET Queued
         /\ sent' \in SUBSET (1 .. issued)
         /\ issued' = issued
         /\ \A q \in queue' : ~q.sendable /\ q.id <= issued
         /\ \A i \in sent' \ sent : \E q \in queue : q.sendable /\ q.id = i
<1>1. PICK ripe \in SUBSET {q \in queue : q.attempts > 0} :
        LET due == {q \in queue : q.attempts = 0} \cup ripe
            out == {q \in due : q.sendable}
            retry == {q \in due \ out : q.attempts + 1 < MaxRetries(q)}
        IN /\ queue' = (queue \ due) \cup {[q EXCEPT !.attempts = @ + 1] : q \in retry}
           /\ sent' = sent \cup {q.id : q \in out}
           /\ UNCHANGED issued
  BY DEF ProcessQueue
<1> DEFINE due == {q \in queue : q.attempts = 0} \cup ripe
           out == {q \in due : q.sendable}
           retry == {q \in due \ out : q.attempts + 1 < MaxRetries(q)}
           again == {[q EXCEPT !.attempts = @ + 1] : q \in retry}
<1>2. queue' = (queue \ due) \cup again /\ sent' = sent \cup {q.id : q \in out} /\ issued' = issued
  BY <1>1
<1>3. due \subseteq queue /\ out \subseteq queue /\ retry \subseteq queue
  OBVIOUS
<1>4. queue \subseteq Queued
  BY DEF IInv, TypeOK
<1>5. \A q \in queue : q.id \in 1 .. issued /\ q.id <= issued
  <2>1. \A q \in queue : q.id \in 1 .. MaxMessages
    BY <1>4 DEF Queued
  <2>2. \A q \in queue : q.id <= issued
    BY DEF IInv, QueueIssued
  <2>3. issued \in Nat
    BY ConstantsAssumption DEF IInv, TypeOK
  <2> QED
    BY <2>1, <2>2, <2>3
<1>6. ASSUME NEW q \in retry
      PROVE  /\ [q EXCEPT !.attempts = @ + 1] \in Queued
             /\ ~[q EXCEPT !.attempts = @ + 1].sendable
             /\ [q EXCEPT !.attempts = @ + 1].id <= issued
  <2>1. q \in Queued /\ ~q.sendable /\ q.attempts + 1 < MaxRetries(q) /\ q.id <= issued
    BY <1>3, <1>4, <1>5
  <2>2. q.attempts + 1 \in 0 .. 5
    BY <2>1 DEF MaxRetries, Queued
  <2> QED
    BY <2>1, <2>2 DEF Queued
<1>7. \A p \in again : p \in Queued /\ ~p.sendable /\ p.id <= issued
  BY <1>6
<1>8. \A q \in queue \ due : ~q.sendable
  BY DEF IInv, SendableUntried
<1>9. \A q \in out : q \in queue /\ q.sendable
  BY <1>3
<1> HIDE DEF due, out, retry, again
<1>10. \A q \in queue' : q \in Queued /\ ~q.sendable /\ q.id <= issued
  BY <1>2, <1>4, <1>5, <1>7, <1>8
<1>11. sent' \in SUBSET (1 .. issued)
  BY <1>2, <1>5, <1>9 DEF IInv, TypeOK
<1>12. \A i \in sent' \ sent : \E q \in queue : q.sendable /\ q.id = i
  BY <1>2, <1>9
<1> QED
  BY <1>2, <1>10, <1>11, <1>12

(* A step that removes messages from the queue and nothing else. *)
LEMMA QueueShrinks ==
  ASSUME IInv, queue' \in SUBSET queue, UNCHANGED <<sent, issued>>,
         mgr' \in Manager, mgr'.socket = mgr.socket, mgr.destroyed => mgr'.destroyed,
         ready' \in [Sockets -> ReadyState],
         \A s \in Sockets : ready'[s] \in {"connecting", "open"} => ready'[s] = ready[s],
         mgr'.destroyed /\ mgr.socket # None =>
             ready'[mgr.socket] \notin {"connecting", "open"},
         awaited' \in SUBSET Sockets, timeouts' \in SUBSET Sockets
  PROVE  IInv' /\ SafeStep
<1>1. TypeOK'
  BY DEF IInv, TypeOK
<1>2. IsOpen(mgr', ready') => IsOpen(mgr, ready)
  BY DEF IInv, TypeOK, IsOpen, Manager
<1>3. NothingSendableWaits' /\ QueueBehindWire' /\ SendableUntried' /\ QueueIssued'
  BY <1>2 DEF IInv, NothingSendableWaits, QueueBehindWire, SendableUntried, QueueIssued
<1>4. DestroyedIdle'
  BY DEF DestroyedIdle
<1>5. SafeStep
  BY DEF SafeStep
<1> QED
  BY <1>1, <1>3, <1>4, <1>5 DEF IInv

(* CloseSocket leaves the current socket neither connecting nor open. *)
LEMMA CloseSocketLemma ==
  ASSUME TypeOK, CloseSocket
  PROVE  /\ ready' \in [Sockets -> ReadyState]
         /\ \A s \in Sockets : ready'[s] \in {"connecting", "open"} => ready'[s] = ready[s]
         /\ mgr.socket # None => ready'[mgr.socket] \notin {"connecting", "open"}
  BY DEF TypeOK, CloseSocket, ReadyState, Manager

LEMMA ProcessPreserves ==
  ASSUME IInv, ProcessQueue,
         mgr' \in Manager, mgr'.socket = mgr.socket, mgr'.destroyed = mgr.destroyed,
         ~mgr.destroyed, ready' \in [Sockets -> ReadyState],
         awaited' \in SUBSET Sockets, timeouts' \in SUBSET Sockets
  PROVE  IInv' /\ SafeStep
<1>1. /\ queue' \in SUBSET Queued
      /\ sent' \in SUBSET (1 .. issued)
      /\ issued' = issued
      /\ \A q \in queue' : ~q.sendable /\ q.id <= issued
      /\ \A i \in sent' \ sent : \E q \in queue : q.sendable /\ q.id = i
  BY ProcessQueueLemma
<1>2. TypeOK'
  BY <1>1 DEF IInv, TypeOK
<1>3. NothingSendableWaits' /\ QueueBehindWire' /\ SendableUntried' /\ QueueIssued'
  BY <1>1 DEF NothingSendableWaits, QueueBehindWire, SendableUntried, QueueIssued
<1>4. DestroyedIdle'
  BY DEF DestroyedIdle
<1>5. SafeStep
  BY <1>1 DEF SafeStep, IInv, QueueBehindWire
<1> QED
  BY <1>2, <1>3, <1>4, <1>5 DEF IInv

LEMMA SendPreserves ==
  ASSUME IInv, NEW sendable \in BOOLEAN, NEW critical \in BOOLEAN, AppSend(sendable, critical)
  PROVE  IInv' /\ SafeStep
<1> DEFINE q0 == [id |-> issued + 1, sendable |-> sendable, critical |-> critical, attempts |-> 0]
<1>1. issued \in 0 .. MaxMessages /\ issued < MaxMessages /\ issued' = issued + 1
      /\ mgr' = mgr /\ UNCHANGED netVars
  BY DEF IInv, TypeOK, AppSend
<1>2. issued + 1 \in 1 .. MaxMessages /\ issued' \in 0 .. MaxMessages /\ 1 .. issued \subseteq 1 .. issued'
  BY <1>1, ConstantsAssumption
<1>3. DestroyedIdle'
  BY <1>1 DEF IInv, DestroyedIdle, netVars
<1>4. \A i \in sent : i < issued + 1
  BY <1>1 DEF IInv, TypeOK
<1>5. CASE IsOpen(mgr, ready) /\ sendable
  <2>1. sent' = sent \cup {issued + 1} /\ queue' = queue
    BY <1>5 DEF AppSend
  <2>2. ~mgr.destroyed
    BY <1>5 DEF IInv, DestroyedIdle, IsOpen
  <2>3. \A q \in queue : ~q.sendable
    BY <1>5 DEF IInv, NothingSendableWaits
  <2>4. TypeOK'
    BY <1>1, <1>2, <2>1 DEF IInv, TypeOK, netVars
  <2>5. NothingSendableWaits' /\ QueueBehindWire' /\ SendableUntried'
    BY <2>1, <2>3 DEF NothingSendableWaits, QueueBehindWire, SendableUntried
  <2>6. QueueIssued'
    BY <1>1, <2>1 DEF IInv, TypeOK, QueueIssued, Queued
  <2>7. SafeStep
    BY <1>4, <2>1, <2>2 DEF SafeStep
  <2> QED
    BY <1>3, <2>4, <2>5, <2>6, <2>7 DEF IInv
<1>6. CASE ~ (IsOpen(mgr, ready) /\ sendable)
  <2>1. sent' = sent /\ queue' = QueueMessage(q0)
    BY <1>6 DEF AppSend
  <2>2. queue' \subseteq queue \cup {q0}
    BY <2>1 DEF QueueMessage
  <2>3. q0 \in Queued /\ q0.id = issued + 1 /\ q0.sendable = sendable /\ q0.attempts = 0
    BY <1>2 DEF Queued
  <2> HIDE DEF q0
  <2>4. TypeOK'
    BY <1>1, <1>2, <2>1, <2>2, <2>3 DEF IInv, TypeOK, netVars
  <2>5. NothingSendableWaits'
    BY <1>1, <1>6, <2>2, <2>3 DEF IInv, NothingSendableWaits, netVars, IsOpen
  <2>6. QueueBehindWire' /\ SendableUntried'
    BY <1>4, <2>1, <2>2, <2>3 DEF IInv, QueueBehindWire, SendableUntried
  <2>7. QueueIssued'
    BY <1>1, <2>2, <2>3 DEF IInv, TypeOK, QueueIssued, Queued
  <2>8. SafeStep
    BY <1>1, <2>1 DEF SafeStep
  <2> QED
    BY <1>3, <2>4, <2>5, <2>6, <2>7, <2>8 DEF IInv
<1> QED
  BY <1>5, <1>6

-----------------------------------------------------------------------------
(* One lemma per group of actions, then the theorems. *)

LEMMA AppCallsPreserve ==
  ASSUME IInv, App
  PROVE  IInv' /\ SafeStep
<1> USE DEF IInv
<1>1. CASE AppInit
  <2>1. NetStep
    BY <1>1 DEF AppInit, NetStep, TypeOK, Manager, netVars
  <2> QED
    BY <1>1, <2>1, NetStepPreserves DEF AppInit
<1>2. ASSUME NEW u \in Urls, AppConnect(u)
      PROVE  IInv' /\ SafeStep
  <2>1. CASE mgr' = Refused(mgr, u) /\ UNCHANGED netVars
    <3>1. NetStep
      BY <2>1, ConnectingLemma DEF NetStep, TypeOK, netVars
    <3> QED
      BY <1>2, <3>1, NetStepPreserves DEF AppConnect
  <2>2. CASE (\E s \in Free(mgr) : OpenSocket(mgr, u, s)) /\ UNCHANGED awaited
    <3>1. PICK s \in Sockets : OpenSocket(mgr, u, s)
      BY <2>2 DEF Free
    <3>2. NetStep
      BY <1>2, <2>2, <3>1, OpenSocketLemma DEF AppConnect, TypeOK
    <3> QED
      BY <1>2, <3>2, NetStepPreserves DEF AppConnect
  <2> QED
    BY <1>2, <2>1, <2>2 DEF AppConnect
<1>3. CASE AppReconnect
  <2>1. NetStep
    BY <1>3, ReconnectLemma DEF AppReconnect, TypeOK
  <2> QED
    BY <1>3, <2>1, NetStepPreserves DEF AppReconnect
<1>4. CASE AppDisconnect
  <2>1. NetStep
    BY <1>4, CloseSocketLemma, CloseLemma DEF AppDisconnect, NetStep, TypeOK
  <2> QED
    BY <1>4, <2>1, NetStepPreserves DEF AppDisconnect
<1>5. CASE AppDestroy
  <2> DEFINE d == [mgr EXCEPT !.destroyed = TRUE]
  <2>1. d \in Manager /\ d.socket = mgr.socket /\ d.destroyed
    BY DEF TypeOK, Manager
  <2>2. mgr' = ClearTimers(Disconnected(d))
    BY <1>5 DEF AppDestroy
  <2> HIDE DEF d
  <2>3. mgr' \in Manager /\ mgr'.socket = mgr.socket /\ mgr'.destroyed
    BY <2>1, <2>2, CloseLemma, CleanupLemma
  <2> QED
    BY <1>5, <2>3, CloseSocketLemma, QueueShrinks DEF AppDestroy, TypeOK
<1>6. CASE AppClearQueue
  BY <1>6, QueueShrinks DEF AppClearQueue, TypeOK, DestroyedIdle, netVars
<1>7. ASSUME NEW sendable \in BOOLEAN, NEW critical \in BOOLEAN, AppSend(sendable, critical)
      PROVE  IInv' /\ SafeStep
  BY <1>7, SendPreserves
<1> QED
  BY <1>1, <1>2, <1>3, <1>4, <1>5, <1>6, <1>7 DEF App

LEMMA TimersPreserve ==
  ASSUME IInv,
         \/ \E s \in Sockets : ConnectionTimeout(s)
         \/ ReconnectTimer \/ HeartbeatTick \/ HeartbeatTimeout \/ QueueTick
  PROVE  IInv' /\ SafeStep
<1> USE DEF IInv
<1>1. ASSUME NEW s \in Sockets, ConnectionTimeout(s)
      PROVE  IInv' /\ SafeStep
  <2>1. timeouts' \in SUBSET Sockets /\ awaited' \in SUBSET Sockets
    BY <1>1 DEF ConnectionTimeout, TypeOK
  <2>2. mgr' \in Manager /\ mgr'.socket = mgr.socket /\ mgr'.destroyed = mgr.destroyed
    BY <1>1, HandlerLemma DEF ConnectionTimeout, TypeOK
  <2>3. /\ ready' \in [Sockets -> ReadyState]
        /\ \A t \in Sockets : ready'[t] \in {"connecting", "open"} => ready'[t] = ready[t]
    BY <1>1, CloseSocketLemma DEF ConnectionTimeout, TypeOK
  <2>4. NetStep
    BY <2>1, <2>2, <2>3 DEF NetStep
  <2> QED
    BY <1>1, <2>4, NetStepPreserves DEF ConnectionTimeout
<1>2. CASE ReconnectTimer
  <2> DEFINE fired == [mgr EXCEPT !.reconnectTimeout = FALSE]
  <2>1. fired \in Manager /\ fired.socket = mgr.socket /\ fired.destroyed = mgr.destroyed
    BY DEF TypeOK, Manager
  <2>2. Reconnect(fired) \/ (mgr' = fired /\ UNCHANGED netVars)
    BY <1>2 DEF ReconnectTimer
  <2> HIDE DEF fired
  <2>3. NetStep
    BY <2>1, <2>2, ReconnectLemma DEF NetStep, TypeOK, netVars
  <2> QED
    BY <1>2, <2>3, NetStepPreserves DEF ReconnectTimer
<1>3. CASE HeartbeatTick
  <2> DEFINE n == IF mgr.heartbeatTimeout THEN mgr.orphans + 1 ELSE mgr.orphans
  <2>1. mgr.orphans \in 0 .. MaxOrphans
    BY DEF TypeOK, Manager
  <2>2. n \in 0 .. MaxOrphans
    BY <1>3, <2>1, ConstantsAssumption DEF HeartbeatTick
  <2>3. mgr' = [mgr EXCEPT !.pinged = TRUE, !.heartbeatsMissed = 0, !.heartbeatTimeout = TRUE,
                           !.orphans = n]
    BY <1>3 DEF HeartbeatTick
  <2> HIDE DEF n
  <2>4. mgr' \in Manager /\ mgr'.socket = mgr.socket /\ mgr'.destroyed = mgr.destroyed
    BY <2>2, <2>3 DEF TypeOK, Manager
  <2>5. NetStep
    BY <1>3, <2>4 DEF HeartbeatTick, NetStep, TypeOK, netVars
  <2> QED
    BY <1>3, <2>5, NetStepPreserves DEF HeartbeatTick
<1>4. CASE HeartbeatTimeout
  <2>1. ASSUME NEW m \in Manager, m.socket = mgr.socket, m.destroyed = mgr.destroyed,
               MissedHeartbeat(m)
        PROVE  NetStep
    <3> DEFINE missed == [m EXCEPT !.heartbeatsMissed = @ + 1]
    <3>1. missed \in Manager /\ missed.socket = mgr.socket /\ missed.destroyed = mgr.destroyed
      BY <2>1 DEF Manager
    <3>2. Reconnect(missed) \/ (mgr' = missed /\ UNCHANGED netVars)
      BY <2>1 DEF MissedHeartbeat
    <3> HIDE DEF missed
    <3> QED
      BY <3>1, <3>2, ReconnectLemma DEF NetStep, TypeOK, netVars
  <2>2. ASSUME mgr.heartbeatTimeout, MissedHeartbeat([mgr EXCEPT !.heartbeatTimeout = FALSE])
        PROVE  NetStep
    <3> DEFINE m == [mgr EXCEPT !.heartbeatTimeout = FALSE]
    <3>1. m \in Manager /\ m.socket = mgr.socket /\ m.destroyed = mgr.destroyed
      BY DEF TypeOK, Manager
    <3>2. MissedHeartbeat(m)
      BY <2>2
    <3> HIDE DEF m
    <3> QED
      BY <2>1, <3>1, <3>2
  <2>3. ASSUME mgr.orphans > 0, MissedHeartbeat([mgr EXCEPT !.orphans = @ - 1])
        PROVE  NetStep
    <3> DEFINE m == [mgr EXCEPT !.orphans = @ - 1]
    <3>1. m \in Manager /\ m.socket = mgr.socket /\ m.destroyed = mgr.destroyed
      BY <2>3, ConstantsAssumption DEF TypeOK, Manager
    <3>2. MissedHeartbeat(m)
      BY <2>3
    <3> HIDE DEF m
    <3> QED
      BY <2>1, <3>1, <3>2
  <2> QED
    BY <1>4, <2>2, <2>3, NetStepPreserves DEF HeartbeatTimeout
<1>5. CASE QueueTick
  <2>1. ~mgr.destroyed
    BY <1>5 DEF QueueTick, IsOpen, DestroyedIdle
  <2> QED
    BY <1>5, <2>1, ProcessPreserves DEF QueueTick, TypeOK, netVars
<1> QED
  BY <1>1, <1>2, <1>3, <1>4, <1>5

LEMMA EventsPreserve ==
  ASSUME IInv,
         \/ \E s \in Sockets : SocketEvent(s)
         \/ HeartbeatAnswer
         \/ \E id \in 1 .. issued : Acknowledgment(id)
  PROVE  IInv' /\ SafeStep
<1> USE DEF IInv
<1>1. ASSUME NEW s \in Sockets, SocketOpens(s)
      PROVE  IInv' /\ SafeStep
  <2> DEFINE o == OnOpen(mgr)
  <2>1. o \in Manager /\ o.socket = mgr.socket /\ o.destroyed = mgr.destroyed
    BY HandlerLemma DEF TypeOK
  <2>2. mgr' = o \/ mgr' = [o EXCEPT !.reconnectAttempts = 0]
    BY <1>1 DEF SocketOpens
  <2> HIDE DEF o
  <2>3. mgr' \in Manager /\ mgr'.socket = mgr.socket /\ mgr'.destroyed = mgr.destroyed
    BY <2>1, <2>2, ConstantsAssumption DEF Manager
  <2>4. /\ ready' \in [Sockets -> ReadyState]
        /\ \A t \in Sockets \ {s} : ready'[t] = ready[t]
        /\ awaited' \in SUBSET Sockets /\ timeouts' \in SUBSET Sockets
    BY <1>1 DEF SocketOpens, TypeOK, ReadyState
  <2>5. CASE ProcessQueue /\ IsOpen(mgr, ready')
    <3>1. ~mgr.destroyed
      BY <1>1, <2>4, <2>5 DEF SocketOpens, IsOpen, DestroyedIdle, TypeOK, Manager
    <3> QED
      BY <2>3, <2>4, <2>5, <3>1, ProcessPreserves
  <2>6. CASE UNCHANGED msgVars /\ ~ (IsOpen(mgr, ready') /\ queue # {})
    <3>1. TypeOK'
      BY <2>3, <2>4, <2>6 DEF TypeOK, msgVars
    <3>2. DestroyedIdle'
      BY <1>1, <2>3, <2>4 DEF SocketOpens, DestroyedIdle, TypeOK, Manager
    <3>3. NothingSendableWaits'
      BY <2>3, <2>6 DEF NothingSendableWaits, IsOpen, msgVars
    <3>4. QueueBehindWire' /\ SendableUntried' /\ QueueIssued' /\ SafeStep
      BY <2>3, <2>6 DEF QueueBehindWire, SendableUntried, QueueIssued, SafeStep, msgVars
    <3> QED
      BY <3>1, <3>2, <3>3, <3>4
  <2> QED
    BY <1>1, <2>5, <2>6 DEF SocketOpens
<1>2. ASSUME NEW s \in Sockets, SocketErrors(s) \/ SocketCloses(s)
      PROVE  IInv' /\ SafeStep
  <2>1. mgr' \in Manager /\ mgr'.socket = mgr.socket /\ mgr'.destroyed = mgr.destroyed
    BY <1>2, HandlerLemma, CloseLemma, SMTT(30) DEF SocketErrors, SocketCloses, TypeOK
  <2>2. NetStep
    BY <1>2, <2>1 DEF SocketErrors, SocketCloses, NetStep, TypeOK, ReadyState
  <2> QED
    BY <1>2, <2>2, NetStepPreserves DEF SocketErrors, SocketCloses
<1>3. CASE HeartbeatAnswer
  <2>1. PICK pinged \in BOOLEAN : mgr' = [mgr EXCEPT !.pinged = pinged, !.heartbeatsMissed = 0]
    BY <1>3 DEF HeartbeatAnswer
  <2>2. mgr' \in Manager /\ mgr'.socket = mgr.socket /\ mgr'.destroyed = mgr.destroyed
    BY <2>1 DEF TypeOK, Manager
  <2>3. NetStep
    BY <1>3, <2>2 DEF HeartbeatAnswer, NetStep, TypeOK, netVars
  <2> QED
    BY <1>3, <2>3, NetStepPreserves DEF HeartbeatAnswer
<1>4. ASSUME NEW id \in 1 .. issued, Acknowledgment(id)
      PROVE  IInv' /\ SafeStep
  BY <1>4, QueueShrinks DEF Acknowledgment, TypeOK, DestroyedIdle, netVars
<1> QED
  BY <1>1, <1>2, <1>3, <1>4 DEF SocketEvent

LEMMA NextPreserves ==
  ASSUME IInv, [Next]_vars
  PROVE  IInv' /\ (UNCHANGED vars \/ SafeStep)
<1>1. CASE App
  BY <1>1, AppCallsPreserve
<1>2. CASE Environment
  BY <1>2, TimersPreserve, EventsPreserve DEF Environment
<1>3. CASE UNCHANGED vars
  BY <1>3 DEF vars, IInv, TypeOK, DestroyedIdle, SendableUntried, QueueIssued,
              NothingSendableWaits, QueueBehindWire, IsOpen
<1> QED
  BY <1>1, <1>2, <1>3 DEF Next

LEMMA InitEstablishes ==
  Init => IInv
  BY ConstantsAssumption, SMTT(30)
  DEF Init, IInv, TypeOK, Manager, Status, ReadyState, DestroyedIdle, SendableUntried,
      QueueIssued, NothingSendableWaits, QueueBehindWire, IsOpen

LEMMA Invariant ==
  Spec => []IInv
  BY InitEstablishes, NextPreserves, PTL DEF Spec

(* The fields keep their types; in particular reconnectAttempts never       *)
(* passes maxReconnectAttempts, and only issued messages are ever sent.     *)
THEOREM TypeCorrect ==
  Spec => []TypeOK
<1>1. IInv => TypeOK
  BY DEF IInv
<1> QED
  BY <1>1, Invariant, PTL

(* While the manager's socket is open, every message _processQueue or       *)
(* send() could have sent has left the queue.                               *)
THEOREM QueueDrained ==
  Spec => []NothingSendableWaits
<1>1. IInv => NothingSendableWaits
  BY DEF IInv
<1> QED
  BY <1>1, Invariant, PTL

(* What still waits in the queue is younger than whatever was sent. *)
THEOREM QueueIsBehindTheWire ==
  Spec => []QueueBehindWire
<1>1. IInv => QueueBehindWire
  BY DEF IInv
<1> QED
  BY <1>1, Invariant, PTL

(* send() order is the order on the wire, across reconnections. *)
THEOREM WireOrder ==
  Spec => SendOrder
<1>1. IInv /\ [Next]_vars => [\A i \in sent' \ sent : \A j \in sent : j < i]_vars
  BY NextPreserves DEF SafeStep
<1> QED
  BY <1>1, Invariant, PTL DEF Spec, SendOrder

(* No timer, promise or socket event that outlives destroy() makes the      *)
(* manager open a socket or send a message again.                           *)
THEOREM DestroyIsFinal ==
  Spec => DestroyedIsFinal
<1>1. IInv /\ [Next]_vars =>
        [mgr.destroyed => mgr'.destroyed /\ mgr'.socket = mgr.socket /\ sent' = sent]_vars
  BY NextPreserves DEF SafeStep
<1> QED
  BY <1>1, Invariant, PTL DEF Spec, DestroyedIsFinal
=============================================================================
