------------------------------- MODULE WsClient -------------------------------
(***************************************************************************)
(* WebSocketClientManager (src/core/exchange/websocket.client-manager.ts): *)
(* the reconnecting client every exchange stream runs on.  One manager,    *)
(* its callers (start, stop), the sockets it has created and what the      *)
(* network and the handlers do to them.                                    *)
(*                                                                         *)
(* JavaScript runs one callback at a time, so a step is what runs between  *)
(* two awaits: connect() is split at `await buildConnectionRequest()` and  *)
(* at `await scheduleReconnect()` in its catch branch, handleOpen() at the *)
(* awaits of onOpen and onReconnect.  A socket of the ws library is a slot *)
(* of Socket, reused once the socket is closed and nothing refers to it.   *)
(***************************************************************************)
EXTENDS Integers, FiniteSets

CONSTANTS
  Socket,           \* socket slots: how many sockets may be unfinished at once
  NoSocket,         \* the null of this.socket
  MaxAttempts,      \* cap on reconnectAttempts (the delay saturates there)
  KeepsAlive,       \* does the definition give a heartbeatIntervalMs?
  RestartInCatch    \* may start() run while connect()'s catch is awaiting?

ASSUME NoSocketAssumption == NoSocket \notin Socket
ASSUME AttemptsAssumption == MaxAttempts \in Nat \ {0}
ASSUME FlagsAssumption    == {RestartInCatch, KeepsAlive} \subseteq BOOLEAN

VARIABLES
  stopped, stopping, connecting,
  socket,              \* this.socket
  reconnectTimer,      \* is this.reconnectTimer set?
  armedReconnects,     \* reconnect timeouts armed in the event loop
  heartbeatTimer,      \* is this.heartbeatTimer set?
  armedHeartbeats,     \* heartbeat intervals armed in the event loop
  hasOpened, reconnectAttempts,
  builds,              \* connect() calls awaiting buildConnectionRequest
  catches,             \* connect() calls awaiting scheduleReconnect in catch
  ready,               \* readyState of each socket
  isReconnect,         \* the flag connect() captured when it created a socket
  opening,             \* where the handleOpen() of each socket is
  rejecting,           \* sockets whose onUnexpectedResponse is awaited
  stopWaits,           \* sockets some stop() is waiting to see closed
  opens                \* history: 'open' events processed, counted up to 2

timers  == <<reconnectTimer, armedReconnects, reconnectAttempts>>
beats   == <<heartbeatTimer, armedHeartbeats>>
calls   == <<builds, catches, connecting>>
flags   == <<stopped, stopping>>
history == <<hasOpened, opens>>
vars == <<flags, calls, timers, beats, history, socket, ready, isReconnect,
          opening, rejecting, stopWaits>>

Live   == {"connecting", "open"}             \* may still carry a connection
Ready  == Live \cup {"closing", "closed", "rejected"}

FlagsTyped ==
  /\ stopped \in BOOLEAN /\ stopping \in BOOLEAN /\ connecting \in BOOLEAN
  /\ reconnectTimer \in BOOLEAN /\ heartbeatTimer \in BOOLEAN
  /\ hasOpened \in BOOLEAN

TypeOK ==
  /\ FlagsTyped
  /\ armedReconnects \in Nat /\ armedHeartbeats \in Nat
  /\ builds \in Nat /\ catches \in Nat
  /\ socket \in Socket \cup {NoSocket}
  /\ reconnectAttempts \in 0..MaxAttempts
  /\ ready \in [Socket -> Ready]
  /\ isReconnect \in [Socket -> BOOLEAN]
  /\ opening \in [Socket -> {"none", "onOpen", "onReconnect"}]
  /\ rejecting \subseteq Socket
  /\ stopWaits \subseteq Socket
  /\ opens \in 0..2

Init ==
  /\ stopped = TRUE /\ stopping = FALSE /\ connecting = FALSE
  /\ socket = NoSocket
  /\ reconnectTimer = FALSE /\ armedReconnects = 0
  /\ heartbeatTimer = FALSE /\ armedHeartbeats = 0
  /\ hasOpened = FALSE /\ reconnectAttempts = 0
  /\ builds = 0 /\ catches = 0
  /\ ready = [s \in Socket |-> "closed"]
  /\ isReconnect = [s \in Socket |-> FALSE]
  /\ opening = [s \in Socket |-> "none"]
  /\ rejecting = {} /\ stopWaits = {}
  /\ opens = 0

-----------------------------------------------------------------------------
(* Timers                                                                  *)

ArmedAfterClear == IF reconnectTimer THEN armedReconnects - 1 ELSE armedReconnects

ClearReconnectTimer ==
  /\ reconnectTimer' = FALSE
  /\ armedReconnects' = ArmedAfterClear
  /\ UNCHANGED reconnectAttempts

BeatsAfterClear == IF heartbeatTimer THEN armedHeartbeats - 1 ELSE armedHeartbeats

ClearHeartbeatTimer ==
  /\ heartbeatTimer' = FALSE
  /\ armedHeartbeats' = BeatsAfterClear

StartHeartbeat ==
  IF KeepsAlive
  THEN /\ heartbeatTimer' = TRUE
       /\ armedHeartbeats' = BeatsAfterClear + 1
  ELSE UNCHANGED beats

ScheduleReconnect ==
  IF stopped \/ reconnectTimer
  THEN UNCHANGED timers
  ELSE /\ reconnectTimer' = TRUE
       /\ armedReconnects' = armedReconnects + 1
       /\ reconnectAttempts' = IF reconnectAttempts < MaxAttempts
                               THEN reconnectAttempts + 1
                               ELSE reconnectAttempts

(* What a socket event or a handler does last: reconnect unless stop() asked. *)
ReconnectUnlessStopping ==
  IF stopped \/ stopping THEN UNCHANGED timers ELSE ScheduleReconnect

-----------------------------------------------------------------------------
(* connect()                                                               *)

(* Variant: only an OPEN socket counts as active. *)
SocketIsOpen == socket # NoSocket /\ ready[socket] = "open"

SocketIsActive == socket # NoSocket /\ ready[socket] \in Live

CanConnect == ~connecting /\ ~SocketIsActive

(* connect() up to its first await; the caller knows the client is running. *)
BeginConnect ==
  /\ connecting' = TRUE
  /\ builds' = builds + 1
  /\ UNCHANGED catches
  /\ ClearReconnectTimer

(* A slot no socket, handler or stop() refers to any more. *)
Free(s) ==
  ready[s] = "closed" /\ opening[s] = "none" /\ s \notin rejecting \cup stopWaits

(* buildConnectionRequest resolved: stopped meanwhile, so nothing is opened. *)
AbandonConnect ==
  /\ builds > 0 /\ stopped
  /\ builds' = builds - 1
  /\ connecting' = FALSE
  /\ UNCHANGED <<flags, catches, timers, beats, history, socket, ready,
                 isReconnect, opening, rejecting, stopWaits>>

(* Variants: stopped is not read again after the await; the reconnect flag *)
(* is taken from the retry counter.                                        *)
CreateSocketAnyway(s) ==
  /\ builds > 0
  /\ Free(s)
  /\ builds' = builds - 1
  /\ connecting' = FALSE
  /\ socket' = s
  /\ ready' = [ready EXCEPT ![s] = "connecting"]
  /\ isReconnect' = [isReconnect EXCEPT ![s] = hasOpened]
  /\ UNCHANGED <<flags, catches, timers, beats, history, opening, rejecting,
                 stopWaits>>

CreateSocketByAttempts(s) ==
  /\ builds > 0 /\ ~stopped
  /\ Free(s)
  /\ builds' = builds - 1
  /\ connecting' = FALSE
  /\ socket' = s
  /\ ready' = [ready EXCEPT ![s] = "connecting"]
  /\ isReconnect' = [isReconnect EXCEPT ![s] = reconnectAttempts > 0]
  /\ UNCHANGED <<flags, catches, timers, beats, history, opening, rejecting,
                 stopWaits>>

(* buildConnectionRequest resolved and new WebSocket(url) returned. *)
CreateSocket(s) ==
  /\ builds > 0 /\ ~stopped
  /\ Free(s)
  /\ builds' = builds - 1
  /\ connecting' = FALSE
  /\ socket' = s
  /\ ready' = [ready EXCEPT ![s] = "connecting"]
  /\ isReconnect' = [isReconnect EXCEPT ![s] = hasOpened]
  /\ UNCHANGED <<flags, catches, timers, beats, history, opening, rejecting,
                 stopWaits>>

(* buildConnectionRequest rejected, or the WebSocket constructor threw. *)
ConnectThrows ==
  /\ builds > 0
  /\ builds' = builds - 1
  /\ catches' = catches + 1
  /\ socket' = NoSocket
  /\ ScheduleReconnect
  /\ UNCHANGED <<flags, connecting, beats, history, ready, isReconnect, opening,
                 rejecting, stopWaits>>

(* The await in the catch branch is over: finally. *)
LeaveCatch ==
  /\ catches > 0
  /\ catches' = catches - 1
  /\ connecting' = FALSE
  /\ UNCHANGED <<flags, builds, timers, beats, history, socket, ready,
                 isReconnect, opening, rejecting, stopWaits>>

-----------------------------------------------------------------------------
(* start() and stop()                                                      *)

(* Variant: start() leaves the stopping flag of an unfinished stop(). *)
StartStillStopping ==
  /\ stopped
  /\ catches = 0 \/ RestartInCatch
  /\ stopped' = FALSE
  /\ IF CanConnect THEN BeginConnect ELSE UNCHANGED <<calls, timers>>
  /\ UNCHANGED <<stopping, beats, history, socket, ready, isReconnect, opening,
                 rejecting, stopWaits>>

Start ==
  /\ stopped
  /\ catches = 0 \/ RestartInCatch
  /\ stopped' = FALSE
  /\ stopping' = FALSE
  /\ IF CanConnect THEN BeginConnect ELSE UNCHANGED <<calls, timers>>
  /\ UNCHANGED <<beats, history, socket, ready, isReconnect, opening, rejecting,
                 stopWaits>>

Stop ==
  /\ stopped' = TRUE
  /\ stopping' = (socket # NoSocket /\ ready[socket] # "closed")
  /\ ClearHeartbeatTimer
  /\ ClearReconnectTimer
  /\ socket' = NoSocket
  /\ IF stopping'
     THEN /\ stopWaits' = stopWaits \cup {socket}
          /\ ready' = [ready EXCEPT ![socket] = "closing"]
     ELSE UNCHANGED <<stopWaits, ready>>
  /\ UNCHANGED <<calls, history, isReconnect, opening, rejecting>>

(* The close timeout of stop(): terminate() and finalize(). *)
StopTimeout(s) ==
  /\ catches = 0
  /\ s \in stopWaits
  /\ stopWaits' = stopWaits \ {s}
  /\ stopping' = FALSE
  /\ UNCHANGED <<stopped, calls, timers, beats, history, socket, ready,
                 isReconnect, opening, rejecting>>

-----------------------------------------------------------------------------
(* Socket events and timers: macrotasks, which wait for microtasks.        *)

IsStale(s) == socket # s

(* Variant: the close handler does not ask whose event it is. *)
NeverForeign(s) == s \notin Socket

IsForeign(s) == socket # s /\ socket # NoSocket

SocketOpens(s) ==
  /\ catches = 0
  /\ ready[s] = "connecting"
  /\ ready' = [ready EXCEPT ![s] = "open"]
  /\ IF IsStale(s)
     THEN UNCHANGED <<reconnectAttempts, history, beats, opening>>
     ELSE /\ reconnectAttempts' = 0
          /\ hasOpened' = TRUE
          /\ opens' = IF opens < 2 THEN opens + 1 ELSE opens
          /\ StartHeartbeat
          /\ opening' = [opening EXCEPT ![s] = "onOpen"]
  /\ UNCHANGED <<flags, calls, reconnectTimer, armedReconnects, socket,
                 isReconnect, rejecting, stopWaits>>

(* The peer's close frame arrived: CLOSING until the TCP connection ends. *)
PeerCloses(s) ==
  /\ catches = 0
  /\ ready[s] = "open"
  /\ ready' = [ready EXCEPT ![s] = "closing"]
  /\ UNCHANGED <<flags, calls, timers, beats, history, socket, isReconnect,
                 opening, rejecting, stopWaits>>

(* 'close' (after 'error' for a failed connection), then stop()'s finalize. *)
SocketCloses(s) ==
  /\ catches = 0
  /\ ready[s] \in Live \cup {"closing"}
  /\ ready' = [ready EXCEPT ![s] = "closed"]
  /\ IF IsForeign(s)
     THEN UNCHANGED <<beats, socket, timers>>
     ELSE /\ ClearHeartbeatTimer
          /\ socket' = NoSocket
          /\ ReconnectUnlessStopping
  /\ stopWaits' = stopWaits \ {s}
  /\ stopping' = (stopping /\ s \notin stopWaits)
  /\ UNCHANGED <<stopped, calls, history, isReconnect, opening, rejecting>>

(* 'unexpected-response': the upgrade was refused; ws leaves the socket be. *)
SocketRejected(s) ==
  /\ catches = 0
  /\ ready[s] = "connecting"
  /\ ready' = [ready EXCEPT ![s] = "rejected"]
  /\ IF IsForeign(s)
     THEN UNCHANGED <<beats, socket, rejecting>>
     ELSE /\ ClearHeartbeatTimer
          /\ socket' = NoSocket
          /\ rejecting' = rejecting \cup {s}
  /\ UNCHANGED <<flags, calls, timers, history, isReconnect, opening, stopWaits>>

(* onUnexpectedResponse settled (resolved or rejected: both reconnect). *)
RejectionHandled(s) ==
  /\ s \in rejecting
  /\ rejecting' = rejecting \ {s}
  /\ ready' = [ready EXCEPT ![s] = "closed"]
  /\ ReconnectUnlessStopping
  /\ UNCHANGED <<flags, calls, beats, history, socket, isReconnect, opening,
                 stopWaits>>

(* Variant: the timeout callback leaves its handle set. *)
TimerFiresKeepingHandle ==
  /\ catches = 0
  /\ armedReconnects > 0
  /\ IF ~stopped /\ CanConnect
     THEN /\ connecting' = TRUE
          /\ builds' = builds + 1
          /\ UNCHANGED catches
     ELSE UNCHANGED calls
  /\ armedReconnects' = armedReconnects - 1
  /\ UNCHANGED <<flags, reconnectTimer, reconnectAttempts, beats, history,
                 socket, ready, isReconnect, opening, rejecting, stopWaits>>

ReconnectTimerFires ==
  /\ catches = 0
  /\ armedReconnects > 0
  /\ IF ~stopped /\ CanConnect
     THEN /\ connecting' = TRUE
          /\ builds' = builds + 1
          /\ UNCHANGED catches
     ELSE UNCHANGED calls
  /\ reconnectTimer' = FALSE
  /\ armedReconnects' = armedReconnects - 1
  /\ UNCHANGED <<flags, reconnectAttempts, beats, history, socket, ready,
                 isReconnect, opening, rejecting, stopWaits>>

-----------------------------------------------------------------------------
(* handleOpen() after onOpen and after onReconnect                         *)

OpenHandlerSucceeds(s) ==
  /\ opening[s] = "onOpen"
  /\ opening' = [opening EXCEPT ![s] = IF isReconnect[s] THEN "onReconnect"
                                       ELSE "none"]
  /\ UNCHANGED <<flags, calls, timers, beats, history, socket, ready,
                 isReconnect, rejecting, stopWaits>>

(* onOpen threw: the socket tracked now, not the handler's, is terminated. *)
OpenHandlerFails(s) ==
  /\ opening[s] = "onOpen"
  /\ opening' = [opening EXCEPT ![s] = "none"]
  /\ ready' = IF SocketIsActive THEN [ready EXCEPT ![socket] = "closing"]
              ELSE ready
  /\ UNCHANGED <<flags, calls, timers, beats, history, socket, isReconnect,
                 rejecting, stopWaits>>

ResyncReturns(s) ==
  /\ opening[s] = "onReconnect"
  /\ opening' = [opening EXCEPT ![s] = "none"]
  /\ UNCHANGED <<flags, calls, timers, beats, history, socket, ready,
                 isReconnect, rejecting, stopWaits>>

-----------------------------------------------------------------------------
SocketStep(s) ==
  \/ CreateSocket(s) \/ StopTimeout(s)
  \/ SocketOpens(s) \/ PeerCloses(s) \/ SocketCloses(s)
  \/ SocketRejected(s) \/ RejectionHandled(s)
  \/ OpenHandlerSucceeds(s) \/ OpenHandlerFails(s) \/ ResyncReturns(s)

Next ==
  \/ Start \/ Stop
  \/ AbandonConnect \/ ConnectThrows \/ LeaveCatch
  \/ ReconnectTimerFires
  \/ \E s \in Socket : SocketStep(s)

Spec == Init /\ [][Next]_vars

(* The event loop runs what is due: awaits settle, timers fire, a closing  *)
(* socket closes (stop() and ws bound the wait).  Macrotasks are disabled  *)
(* only while a microtask is pending, which does not starve them: strong   *)
(* fairness.  That the network lets an attempt succeed when attempts keep  *)
(* being made is an assumption on the exchange: strong fairness of         *)
(* CreateSocket and SocketOpens.                                           *)
Fairness ==
  /\ WF_vars(LeaveCatch) /\ WF_vars(AbandonConnect)
  /\ SF_vars(ReconnectTimerFires)
  /\ \A s \in Socket :
       /\ SF_vars(StopTimeout(s))
       /\ SF_vars(ready[s] = "closing" /\ SocketCloses(s))
       /\ SF_vars(ready[s] = "connecting" /\ (SocketOpens(s) \/ SocketCloses(s)
                                                \/ SocketRejected(s)))
       /\ WF_vars(RejectionHandled(s))
       /\ WF_vars(OpenHandlerSucceeds(s) \/ OpenHandlerFails(s))
       /\ WF_vars(ResyncReturns(s))
  /\ SF_vars(\E s \in Socket : CreateSocket(s))
  /\ SF_vars(\E s \in Socket : SocketOpens(s))

FairSpec == Spec /\ Fairness

-----------------------------------------------------------------------------
(* Properties                                                              *)

(* No connection is leaked: a socket that is connecting or open is the one *)
(* this.socket holds, so at most one exists, however start(), stop(), late *)
(* close events, refused upgrades and reconnect timers interleave.         *)
NoLeakedConnection == \A s \in Socket : ready[s] \in Live => socket = s

(* After stop() nothing is left that could act for the client: no tracked  *)
(* socket, no reconnect timeout and no heartbeat interval.                 *)
StoppedIsQuiet ==
  stopped => socket = NoSocket /\ armedReconnects = 0 /\ armedHeartbeats = 0

(* Timer handles and armed timers agree, so no reconnect is scheduled      *)
(* twice and no interval outlives its handle.                              *)
TimersAreOwned ==
  /\ armedReconnects = IF reconnectTimer THEN 1 ELSE 0
  /\ armedHeartbeats = IF heartbeatTimer THEN 1 ELSE 0

(* At most one connect() is between its guard and its finally, and the     *)
(* connecting flag says whether one is.                                    *)
OneConnectAtATime ==
  builds + catches = IF connecting THEN 1 ELSE 0

(* An open connection is kept alive: the late close event of an earlier    *)
(* socket never takes the heartbeat of the one that is open now.           *)
HeartbeatWhileOpen ==
  KeepsAlive => \A s \in Socket : ready[s] = "open" => heartbeatTimer

(* A running client always has something that will wake it: a connection   *)
(* or one that is going away, an attempt, a pending reconnect, or a refused *)
(* upgrade whose handler will schedule one.                                *)
NeverStranded ==
  \/ stopped \/ connecting \/ reconnectTimer \/ rejecting # {}
  \/ socket # NoSocket /\ ready[socket] \in Live \cup {"closing"}

(* onReconnect (the snapshot resync) runs for a second or later open only. *)
ResyncOnlyAfterReopen ==
  \A s \in Socket : opening[s] = "onReconnect" => opens > 1

(* The flag connect() captured is not stale when the socket opens: an open *)
(* that follows another one is treated as a reconnect and resyncs.         *)
ReopenIsAReconnect ==
  [][\A s \in Socket :
       opening[s] = "none" /\ opening'[s] = "onOpen" =>
         (isReconnect[s] <=> opens > 0)]_vars

Connected == socket # NoSocket /\ ready[socket] = "open"

(* A client that is left running gets its connection back after any loss.  *)
EventuallyConnected == ~stopped ~> (stopped \/ Connected)
=============================================================================
