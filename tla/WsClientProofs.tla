---------------------------- MODULE WsClientProofs ----------------------------
(***************************************************************************)
(* Proofs about WsClient, for any number of socket slots.  IInv is the     *)
(* inductive invariant; the safety properties of WsClient follow from it.  *)
(***************************************************************************)
EXTENDS WsClient, TLAPS

(* What stop() clears stays cleared until start().                         *)
StopClears ==
  /\ stopping => stopped
  /\ stopped => socket = NoSocket /\ ~reconnectTimer /\ ~heartbeatTimer

(* No connection exists while one is being requested, which is what        *)
(* connect()'s two guards are for.                                         *)
ConnectIsExclusive == builds > 0 => \A s \in Socket : ready[s] \notin Live

(* The tracked socket still owes the client an event.                      *)
TrackedWillReport ==
  /\ socket # NoSocket => ready[socket] \in Live \cup {"closing"}
  /\ \A s \in rejecting : ready[s] = "rejected"

(* The captured reconnect flag agrees with the opens processed since.      *)
FlagIsFresh ==
  /\ hasOpened <=> opens > 0
  /\ \A s \in Socket :
       /\ ready[s] = "connecting" => (isReconnect[s] <=> opens > 0)
       /\ opening[s] = "onOpen" /\ isReconnect[s] => opens > 1

(* Outside the gap of the catch branch a reconnect is already scheduled.   *)
CatchScheduled ==
  ~RestartInCatch /\ catches > 0 => stopped \/ reconnectTimer

ConnectionInv == NoLeakedConnection /\ ConnectIsExclusive /\ TrackedWillReport

TimerInv == TimersAreOwned /\ StopClears /\ HeartbeatWhileOpen

AttemptInv ==
  /\ OneConnectAtATime /\ CatchScheduled
  /\ ~RestartInCatch => NeverStranded

ResyncInv == ResyncOnlyAfterReopen /\ FlagIsFresh

IInv == TypeOK /\ ConnectionInv /\ TimerInv /\ AttemptInv /\ ResyncInv

-----------------------------------------------------------------------------
LEMMA InitIInv == Init => IInv
<1> SUFFICES ASSUME Init PROVE IInv
  OBVIOUS
<1>1. TypeOK
  <2>1. FlagsTyped /\ isReconnect \in [Socket -> BOOLEAN]
    BY Zenon DEF Init, FlagsTyped
  <2> QED
    BY <2>1, AttemptsAssumption DEF Init, TypeOK, Ready
<1>2. ConnectionInv
  BY DEF Init, ConnectionInv, NoLeakedConnection, ConnectIsExclusive,
         TrackedWillReport, Live
<1>3. TimerInv
  BY DEF Init, TimerInv, TimersAreOwned, StopClears, HeartbeatWhileOpen
<1>4. AttemptInv
  BY DEF Init, AttemptInv, OneConnectAtATime, CatchScheduled, NeverStranded
<1>5. ResyncInv
  BY DEF Init, ResyncInv, ResyncOnlyAfterReopen, FlagIsFresh
<1> QED
  BY <1>1, <1>2, <1>3, <1>4, <1>5 DEF IInv

(* One lemma per action; its steps are the five parts of IInv.             *)
LEMMA StartStep ==
  ASSUME IInv, Start
  PROVE  IInv'
<1>1. FlagsTyped'
  BY Zenon DEF IInv, TypeOK, FlagsTyped, timers, beats, calls, flags, history,
      Start, BeginConnect, ClearReconnectTimer, ArmedAfterClear, CanConnect,
      SocketIsActive
<1>2. TypeOK'
  BY <1>1, AttemptsAssumption DEF IInv, TypeOK, Ready, Live, TimerInv,
      TimersAreOwned, AttemptInv, OneConnectAtATime, timers, beats, calls,
      flags, history, Start, BeginConnect, ClearReconnectTimer,
      ArmedAfterClear, CanConnect, SocketIsActive
<1>3. ConnectionInv'
  BY NoSocketAssumption DEF IInv, TypeOK, ConnectionInv, NoLeakedConnection,
      ConnectIsExclusive, TrackedWillReport, Live, TimerInv, StopClears,
      AttemptInv, OneConnectAtATime, timers, beats, calls, flags, history,
      Start, BeginConnect, ClearReconnectTimer, ArmedAfterClear, CanConnect,
      SocketIsActive
<1>4. TimerInv'
  BY NoSocketAssumption DEF IInv, TypeOK, FlagsTyped, TimerInv,
      TimersAreOwned, StopClears, HeartbeatWhileOpen, ConnectionInv,
      NoLeakedConnection, AttemptInv, OneConnectAtATime, Live, timers, beats,
      calls, flags, history, Start, BeginConnect, ClearReconnectTimer,
      ArmedAfterClear, CanConnect, SocketIsActive
<1>5. AttemptInv'
  BY NoSocketAssumption DEF IInv, TypeOK, AttemptInv, OneConnectAtATime,
      CatchScheduled, NeverStranded, ConnectionInv, NoLeakedConnection,
      TrackedWillReport, TimerInv, StopClears, TimersAreOwned, Live, timers,
      beats, calls, flags, history, Start, BeginConnect, ClearReconnectTimer,
      ArmedAfterClear, CanConnect, SocketIsActive
<1>6. ResyncInv'
  BY NoSocketAssumption DEF IInv, TypeOK, ResyncInv, ResyncOnlyAfterReopen,
      FlagIsFresh, ConnectionInv, NoLeakedConnection, Live, timers, beats,
      calls, flags, history, Start, BeginConnect, ClearReconnectTimer,
      ArmedAfterClear, CanConnect, SocketIsActive
<1> QED
  BY <1>2, <1>3, <1>4, <1>5, <1>6 DEF IInv

LEMMA StopStep ==
  ASSUME IInv, Stop
  PROVE  IInv'
<1>1. FlagsTyped'
  BY Zenon DEF IInv, TypeOK, FlagsTyped, timers, beats, calls, flags, history,
      Stop, ClearReconnectTimer, ArmedAfterClear, ClearHeartbeatTimer,
      BeatsAfterClear
<1>2. TypeOK'
  <2>1. armedReconnects' \in Nat /\ armedHeartbeats' \in Nat
    BY DEF IInv, TypeOK, TimerInv, TimersAreOwned, Stop, ClearReconnectTimer,
           ArmedAfterClear, ClearHeartbeatTimer, BeatsAfterClear
  <2>2. ready' \in [Socket -> Ready] /\ stopWaits' \subseteq Socket
    <3>1. CASE stopping'
      BY <3>1 DEF IInv, TypeOK, Ready, Stop
    <3>2. CASE ~stopping'
      BY <3>2 DEF IInv, TypeOK, Stop
    <3> QED
      BY <3>1, <3>2
  <2> QED
    BY <1>1, <2>1, <2>2
    DEF IInv, TypeOK, Stop, ClearReconnectTimer, calls, history
<1>3. ConnectionInv'
  BY NoSocketAssumption DEF IInv, TypeOK, ConnectionInv, NoLeakedConnection,
      ConnectIsExclusive, TrackedWillReport, Live, TimerInv, StopClears,
      AttemptInv, OneConnectAtATime, timers, beats, calls, flags, history,
      Stop, ClearReconnectTimer, ArmedAfterClear, ClearHeartbeatTimer,
      BeatsAfterClear
<1>4. TimerInv'
  BY NoSocketAssumption DEF IInv, TypeOK, FlagsTyped, TimerInv,
      TimersAreOwned, StopClears, HeartbeatWhileOpen, ConnectionInv,
      NoLeakedConnection, AttemptInv, OneConnectAtATime, Live, timers, beats,
      calls, flags, history, Stop, ClearReconnectTimer, ArmedAfterClear,
      ClearHeartbeatTimer, BeatsAfterClear
<1>5. AttemptInv'
  BY NoSocketAssumption DEF IInv, TypeOK, AttemptInv, OneConnectAtATime,
      CatchScheduled, NeverStranded, ConnectionInv, NoLeakedConnection,
      TrackedWillReport, TimerInv, StopClears, TimersAreOwned, Live, timers,
      beats, calls, flags, history, Stop, ClearReconnectTimer,
      ArmedAfterClear, ClearHeartbeatTimer, BeatsAfterClear
<1>6. ResyncInv'
  BY NoSocketAssumption DEF IInv, TypeOK, ResyncInv, ResyncOnlyAfterReopen,
      FlagIsFresh, ConnectionInv, NoLeakedConnection, Live, timers, beats,
      calls, flags, history, Stop, ClearReconnectTimer, ArmedAfterClear,
      ClearHeartbeatTimer, BeatsAfterClear
<1> QED
  BY <1>2, <1>3, <1>4, <1>5, <1>6 DEF IInv

LEMMA AbandonConnectStep ==
  ASSUME IInv, AbandonConnect
  PROVE  IInv'
<1>1. FlagsTyped'
  BY Zenon DEF IInv, TypeOK, FlagsTyped, timers, beats, calls, flags, history,
      AbandonConnect
<1>2. TypeOK'
  BY <1>1, AttemptsAssumption DEF IInv, TypeOK, Ready, Live, TimerInv,
      TimersAreOwned, AttemptInv, OneConnectAtATime, timers, beats, calls,
      flags, history, AbandonConnect
<1>3. ConnectionInv'
  BY NoSocketAssumption DEF IInv, TypeOK, ConnectionInv, NoLeakedConnection,
      ConnectIsExclusive, TrackedWillReport, Live, TimerInv, StopClears,
      AttemptInv, OneConnectAtATime, timers, beats, calls, flags, history,
      AbandonConnect
<1>4. TimerInv'
  BY NoSocketAssumption DEF IInv, TypeOK, FlagsTyped, TimerInv,
      TimersAreOwned, StopClears, HeartbeatWhileOpen, ConnectionInv,
      NoLeakedConnection, AttemptInv, OneConnectAtATime, Live, timers, beats,
      calls, flags, history, AbandonConnect
<1>5. AttemptInv'
  BY NoSocketAssumption DEF IInv, TypeOK, AttemptInv, OneConnectAtATime,
      CatchScheduled, NeverStranded, ConnectionInv, NoLeakedConnection,
      TrackedWillReport, TimerInv, StopClears, TimersAreOwned, Live, timers,
      beats, calls, flags, history, AbandonConnect
<1>6. ResyncInv'
  BY NoSocketAssumption DEF IInv, TypeOK, ResyncInv, ResyncOnlyAfterReopen,
      FlagIsFresh, ConnectionInv, NoLeakedConnection, Live, timers, beats,
      calls, flags, history, AbandonConnect
<1> QED
  BY <1>2, <1>3, <1>4, <1>5, <1>6 DEF IInv

LEMMA ConnectThrowsStep ==
  ASSUME IInv, ConnectThrows
  PROVE  IInv'
<1>1. FlagsTyped'
  BY Zenon DEF IInv, TypeOK, FlagsTyped, timers, beats, calls, flags, history,
      ConnectThrows, ScheduleReconnect
<1>2. TypeOK'
  BY <1>1, AttemptsAssumption DEF IInv, TypeOK, Ready, Live, TimerInv,
      TimersAreOwned, AttemptInv, OneConnectAtATime, timers, beats, calls,
      flags, history, ConnectThrows, ScheduleReconnect
<1>3. ConnectionInv'
  BY NoSocketAssumption DEF IInv, TypeOK, ConnectionInv, NoLeakedConnection,
      ConnectIsExclusive, TrackedWillReport, Live, TimerInv, StopClears,
      AttemptInv, OneConnectAtATime, timers, beats, calls, flags, history,
      ConnectThrows, ScheduleReconnect
<1>4. TimerInv'
  BY NoSocketAssumption DEF IInv, TypeOK, FlagsTyped, TimerInv,
      TimersAreOwned, StopClears, HeartbeatWhileOpen, ConnectionInv,
      NoLeakedConnection, AttemptInv, OneConnectAtATime, Live, timers, beats,
      calls, flags, history, ConnectThrows, ScheduleReconnect
<1>5. AttemptInv'
  BY NoSocketAssumption DEF IInv, TypeOK, AttemptInv, OneConnectAtATime,
      CatchScheduled, NeverStranded, ConnectionInv, NoLeakedConnection,
      TrackedWillReport, TimerInv, StopClears, TimersAreOwned, Live, timers,
      beats, calls, flags, history, ConnectThrows, ScheduleReconnect
<1>6. ResyncInv'
  BY NoSocketAssumption DEF IInv, TypeOK, ResyncInv, ResyncOnlyAfterReopen,
      FlagIsFresh, ConnectionInv, NoLeakedConnection, Live, timers, beats,
      calls, flags, history, ConnectThrows, ScheduleReconnect
<1> QED
  BY <1>2, <1>3, <1>4, <1>5, <1>6 DEF IInv

LEMMA LeaveCatchStep ==
  ASSUME IInv, LeaveCatch
  PROVE  IInv'
<1>1. FlagsTyped'
  BY Zenon DEF IInv, TypeOK, FlagsTyped, timers, beats, calls, flags, history,
      LeaveCatch
<1>2. TypeOK'
  BY <1>1, AttemptsAssumption DEF IInv, TypeOK, Ready, Live, TimerInv,
      TimersAreOwned, AttemptInv, OneConnectAtATime, timers, beats, calls,
      flags, history, LeaveCatch
<1>3. ConnectionInv'
  BY NoSocketAssumption DEF IInv, TypeOK, ConnectionInv, NoLeakedConnection,
      ConnectIsExclusive, TrackedWillReport, Live, TimerInv, StopClears,
      AttemptInv, OneConnectAtATime, timers, beats, calls, flags, history,
      LeaveCatch
<1>4. TimerInv'
  BY NoSocketAssumption DEF IInv, TypeOK, FlagsTyped, TimerInv,
      TimersAreOwned, StopClears, HeartbeatWhileOpen, ConnectionInv,
      NoLeakedConnection, AttemptInv, OneConnectAtATime, Live, timers, beats,
      calls, flags, history, LeaveCatch
<1>5. AttemptInv'
  BY NoSocketAssumption DEF IInv, TypeOK, AttemptInv, OneConnectAtATime,
      CatchScheduled, NeverStranded, ConnectionInv, NoLeakedConnection,
      TrackedWillReport, TimerInv, StopClears, TimersAreOwned, Live, timers,
      beats, calls, flags, history, LeaveCatch
<1>6. ResyncInv'
  BY NoSocketAssumption DEF IInv, TypeOK, ResyncInv, ResyncOnlyAfterReopen,
      FlagIsFresh, ConnectionInv, NoLeakedConnection, Live, timers, beats,
      calls, flags, history, LeaveCatch
<1> QED
  BY <1>2, <1>3, <1>4, <1>5, <1>6 DEF IInv

LEMMA ReconnectTimerFiresStep ==
  ASSUME IInv, ReconnectTimerFires
  PROVE  IInv'
<1>1. FlagsTyped'
  BY Zenon DEF IInv, TypeOK, FlagsTyped, timers, beats, calls, flags, history,
      ReconnectTimerFires, CanConnect, SocketIsActive
<1>2. TypeOK'
  BY <1>1, AttemptsAssumption DEF IInv, TypeOK, Ready, Live, TimerInv,
      TimersAreOwned, AttemptInv, OneConnectAtATime, timers, beats, calls,
      flags, history, ReconnectTimerFires, CanConnect, SocketIsActive
<1>3. ConnectionInv'
  BY NoSocketAssumption DEF IInv, TypeOK, ConnectionInv, NoLeakedConnection,
      ConnectIsExclusive, TrackedWillReport, Live, TimerInv, StopClears,
      AttemptInv, OneConnectAtATime, timers, beats, calls, flags, history,
      ReconnectTimerFires, CanConnect, SocketIsActive
<1>4. TimerInv'
  BY NoSocketAssumption DEF IInv, TypeOK, FlagsTyped, TimerInv,
      TimersAreOwned, StopClears, HeartbeatWhileOpen, ConnectionInv,
      NoLeakedConnection, AttemptInv, OneConnectAtATime, Live, timers, beats,
      calls, flags, history, ReconnectTimerFires, CanConnect, SocketIsActive
<1>5. AttemptInv'
  BY NoSocketAssumption DEF IInv, TypeOK, AttemptInv, OneConnectAtATime,
      CatchScheduled, NeverStranded, ConnectionInv, NoLeakedConnection,
      TrackedWillReport, TimerInv, StopClears, TimersAreOwned, Live, timers,
      beats, calls, flags, history, ReconnectTimerFires, CanConnect,
      SocketIsActive
<1>6. ResyncInv'
  BY NoSocketAssumption DEF IInv, TypeOK, ResyncInv, ResyncOnlyAfterReopen,
      FlagIsFresh, ConnectionInv, NoLeakedConnection, Live, timers, beats,
      calls, flags, history, ReconnectTimerFires, CanConnect, SocketIsActive
<1> QED
  BY <1>2, <1>3, <1>4, <1>5, <1>6 DEF IInv

LEMMA CreateSocketStep ==
  ASSUME NEW s \in Socket, IInv, CreateSocket(s)
  PROVE  IInv'
<1>1. FlagsTyped'
  BY Zenon DEF IInv, TypeOK, FlagsTyped, timers, beats, calls, flags, history,
      CreateSocket, Free
<1>2. TypeOK'
  <2>1. isReconnect' \in [Socket -> BOOLEAN]
    BY Zenon DEF IInv, TypeOK, FlagsTyped, CreateSocket
  <2>2. ready' \in [Socket -> Ready] /\ builds' \in Nat
    BY DEF IInv, TypeOK, Ready, Live, CreateSocket
  <2> QED
    BY <1>1, <2>1, <2>2
    DEF IInv, TypeOK, CreateSocket, timers, beats, history
<1>3. ConnectionInv'
  BY NoSocketAssumption DEF IInv, TypeOK, ConnectionInv, NoLeakedConnection,
      ConnectIsExclusive, TrackedWillReport, Live, TimerInv, StopClears,
      AttemptInv, OneConnectAtATime, timers, beats, calls, flags, history,
      CreateSocket, Free
<1>4. TimerInv'
  BY NoSocketAssumption DEF IInv, TypeOK, FlagsTyped, TimerInv,
      TimersAreOwned, StopClears, HeartbeatWhileOpen, ConnectionInv,
      NoLeakedConnection, AttemptInv, OneConnectAtATime, Live, timers, beats,
      calls, flags, history, CreateSocket, Free
<1>5. AttemptInv'
  BY NoSocketAssumption DEF IInv, TypeOK, AttemptInv, OneConnectAtATime,
      CatchScheduled, NeverStranded, ConnectionInv, NoLeakedConnection,
      TrackedWillReport, TimerInv, StopClears, TimersAreOwned, Live, timers,
      beats, calls, flags, history, CreateSocket, Free
<1>6. ResyncInv'
  BY NoSocketAssumption DEF IInv, TypeOK, ResyncInv, ResyncOnlyAfterReopen,
      FlagIsFresh, ConnectionInv, NoLeakedConnection, Live, timers, beats,
      calls, flags, history, CreateSocket, Free
<1> QED
  BY <1>2, <1>3, <1>4, <1>5, <1>6 DEF IInv

LEMMA StopTimeoutStep ==
  ASSUME NEW s \in Socket, IInv, StopTimeout(s)
  PROVE  IInv'
<1>1. FlagsTyped'
  BY Zenon DEF IInv, TypeOK, FlagsTyped, timers, beats, calls, flags, history,
      StopTimeout
<1>2. TypeOK'
  BY <1>1, AttemptsAssumption DEF IInv, TypeOK, Ready, Live, TimerInv,
      TimersAreOwned, AttemptInv, OneConnectAtATime, timers, beats, calls,
      flags, history, StopTimeout
<1>3. ConnectionInv'
  BY NoSocketAssumption DEF IInv, TypeOK, ConnectionInv, NoLeakedConnection,
      ConnectIsExclusive, TrackedWillReport, Live, TimerInv, StopClears,
      AttemptInv, OneConnectAtATime, timers, beats, calls, flags, history,
      StopTimeout
<1>4. TimerInv'
  BY NoSocketAssumption DEF IInv, TypeOK, FlagsTyped, TimerInv,
      TimersAreOwned, StopClears, HeartbeatWhileOpen, ConnectionInv,
      NoLeakedConnection, AttemptInv, OneConnectAtATime, Live, timers, beats,
      calls, flags, history, StopTimeout
<1>5. AttemptInv'
  BY NoSocketAssumption DEF IInv, TypeOK, AttemptInv, OneConnectAtATime,
      CatchScheduled, NeverStranded, ConnectionInv, NoLeakedConnection,
      TrackedWillReport, TimerInv, StopClears, TimersAreOwned, Live, timers,
      beats, calls, flags, history, StopTimeout
<1>6. ResyncInv'
  BY NoSocketAssumption DEF IInv, TypeOK, ResyncInv, ResyncOnlyAfterReopen,
      FlagIsFresh, ConnectionInv, NoLeakedConnection, Live, timers, beats,
      calls, flags, history, StopTimeout
<1> QED
  BY <1>2, <1>3, <1>4, <1>5, <1>6 DEF IInv

LEMMA SocketOpensStep ==
  ASSUME NEW s \in Socket, IInv, SocketOpens(s)
  PROVE  IInv'
<1>1. FlagsTyped'
  BY Zenon DEF IInv, TypeOK, FlagsTyped, timers, beats, calls, flags, history,
      SocketOpens, IsStale, StartHeartbeat, BeatsAfterClear
<1>2. TypeOK'
  BY <1>1, AttemptsAssumption DEF IInv, TypeOK, Ready, Live, TimerInv,
      TimersAreOwned, AttemptInv, OneConnectAtATime, timers, beats, calls,
      flags, history, SocketOpens, IsStale, StartHeartbeat, BeatsAfterClear
<1>3. ConnectionInv'
  BY NoSocketAssumption DEF IInv, TypeOK, ConnectionInv, NoLeakedConnection,
      ConnectIsExclusive, TrackedWillReport, Live, TimerInv, StopClears,
      AttemptInv, OneConnectAtATime, timers, beats, calls, flags, history,
      SocketOpens, IsStale, StartHeartbeat, BeatsAfterClear
<1>4. TimerInv'
  BY NoSocketAssumption DEF IInv, TypeOK, FlagsTyped, TimerInv,
      TimersAreOwned, StopClears, HeartbeatWhileOpen, ConnectionInv,
      NoLeakedConnection, AttemptInv, OneConnectAtATime, Live, timers, beats,
      calls, flags, history, SocketOpens, IsStale, StartHeartbeat,
      BeatsAfterClear
<1>5. AttemptInv'
  BY NoSocketAssumption DEF IInv, TypeOK, AttemptInv, OneConnectAtATime,
      CatchScheduled, NeverStranded, ConnectionInv, NoLeakedConnection,
      TrackedWillReport, TimerInv, StopClears, TimersAreOwned, Live, timers,
      beats, calls, flags, history, SocketOpens, IsStale, StartHeartbeat,
      BeatsAfterClear
<1>6. ResyncInv'
  BY NoSocketAssumption DEF IInv, TypeOK, ResyncInv, ResyncOnlyAfterReopen,
      FlagIsFresh, ConnectionInv, NoLeakedConnection, Live, timers, beats,
      calls, flags, history, SocketOpens, IsStale, StartHeartbeat,
      BeatsAfterClear
<1> QED
  BY <1>2, <1>3, <1>4, <1>5, <1>6 DEF IInv

LEMMA PeerClosesStep ==
  ASSUME NEW s \in Socket, IInv, PeerCloses(s)
  PROVE  IInv'
<1>1. FlagsTyped'
  BY Zenon DEF IInv, TypeOK, FlagsTyped, timers, beats, calls, flags, history,
      PeerCloses
<1>2. TypeOK'
  BY <1>1, AttemptsAssumption DEF IInv, TypeOK, Ready, Live, TimerInv,
      TimersAreOwned, AttemptInv, OneConnectAtATime, timers, beats, calls,
      flags, history, PeerCloses
<1>3. ConnectionInv'
  BY NoSocketAssumption DEF IInv, TypeOK, ConnectionInv, NoLeakedConnection,
      ConnectIsExclusive, TrackedWillReport, Live, TimerInv, StopClears,
      AttemptInv, OneConnectAtATime, timers, beats, calls, flags, history,
      PeerCloses
<1>4. TimerInv'
  BY NoSocketAssumption DEF IInv, TypeOK, FlagsTyped, TimerInv,
      TimersAreOwned, StopClears, HeartbeatWhileOpen, ConnectionInv,
      NoLeakedConnection, AttemptInv, OneConnectAtATime, Live, timers, beats,
      calls, flags, history, PeerCloses
<1>5. AttemptInv'
  BY NoSocketAssumption DEF IInv, TypeOK, AttemptInv, OneConnectAtATime,
      CatchScheduled, NeverStranded, ConnectionInv, NoLeakedConnection,
      TrackedWillReport, TimerInv, StopClears, TimersAreOwned, Live, timers,
      beats, calls, flags, history, PeerCloses
<1>6. ResyncInv'
  BY NoSocketAssumption DEF IInv, TypeOK, ResyncInv, ResyncOnlyAfterReopen,
      FlagIsFresh, ConnectionInv, NoLeakedConnection, Live, timers, beats,
      calls, flags, history, PeerCloses
<1> QED
  BY <1>2, <1>3, <1>4, <1>5, <1>6 DEF IInv

LEMMA SocketClosesStep ==
  ASSUME NEW s \in Socket, IInv, SocketCloses(s)
  PROVE  IInv'
<1>1. FlagsTyped'
  BY Zenon DEF IInv, TypeOK, FlagsTyped, timers, beats, calls, flags, history,
      SocketCloses, IsForeign, ClearHeartbeatTimer, BeatsAfterClear,
      ReconnectUnlessStopping, ScheduleReconnect
<1>2. TypeOK'
  BY <1>1, AttemptsAssumption DEF IInv, TypeOK, Ready, Live, TimerInv,
      TimersAreOwned, AttemptInv, OneConnectAtATime, timers, beats, calls,
      flags, history, SocketCloses, IsForeign, ClearHeartbeatTimer,
      BeatsAfterClear, ReconnectUnlessStopping, ScheduleReconnect
<1>3. ConnectionInv'
  BY NoSocketAssumption DEF IInv, TypeOK, ConnectionInv, NoLeakedConnection,
      ConnectIsExclusive, TrackedWillReport, Live, TimerInv, StopClears,
      AttemptInv, OneConnectAtATime, timers, beats, calls, flags, history,
      SocketCloses, IsForeign, ClearHeartbeatTimer, BeatsAfterClear,
      ReconnectUnlessStopping, ScheduleReconnect
<1>4. TimerInv'
  BY NoSocketAssumption DEF IInv, TypeOK, FlagsTyped, TimerInv,
      TimersAreOwned, StopClears, HeartbeatWhileOpen, ConnectionInv,
      NoLeakedConnection, AttemptInv, OneConnectAtATime, Live, timers, beats,
      calls, flags, history, SocketCloses, IsForeign, ClearHeartbeatTimer,
      BeatsAfterClear, ReconnectUnlessStopping, ScheduleReconnect
<1>5. AttemptInv'
  BY NoSocketAssumption DEF IInv, TypeOK, AttemptInv, OneConnectAtATime,
      CatchScheduled, NeverStranded, ConnectionInv, NoLeakedConnection,
      TrackedWillReport, TimerInv, StopClears, TimersAreOwned, Live, timers,
      beats, calls, flags, history, SocketCloses, IsForeign,
      ClearHeartbeatTimer, BeatsAfterClear, ReconnectUnlessStopping,
      ScheduleReconnect
<1>6. ResyncInv'
  BY NoSocketAssumption DEF IInv, TypeOK, ResyncInv, ResyncOnlyAfterReopen,
      FlagIsFresh, ConnectionInv, NoLeakedConnection, Live, timers, beats,
      calls, flags, history, SocketCloses, IsForeign, ClearHeartbeatTimer,
      BeatsAfterClear, ReconnectUnlessStopping, ScheduleReconnect
<1> QED
  BY <1>2, <1>3, <1>4, <1>5, <1>6 DEF IInv

LEMMA SocketRejectedStep ==
  ASSUME NEW s \in Socket, IInv, SocketRejected(s)
  PROVE  IInv'
<1>1. FlagsTyped'
  BY Zenon DEF IInv, TypeOK, FlagsTyped, timers, beats, calls, flags, history,
      SocketRejected, IsForeign, ClearHeartbeatTimer, BeatsAfterClear
<1>2. TypeOK'
  BY <1>1, AttemptsAssumption DEF IInv, TypeOK, Ready, Live, TimerInv,
      TimersAreOwned, AttemptInv, OneConnectAtATime, timers, beats, calls,
      flags, history, SocketRejected, IsForeign, ClearHeartbeatTimer,
      BeatsAfterClear
<1>3. ConnectionInv'
  BY NoSocketAssumption DEF IInv, TypeOK, ConnectionInv, NoLeakedConnection,
      ConnectIsExclusive, TrackedWillReport, Live, TimerInv, StopClears,
      AttemptInv, OneConnectAtATime, timers, beats, calls, flags, history,
      SocketRejected, IsForeign, ClearHeartbeatTimer, BeatsAfterClear
<1>4. TimerInv'
  BY NoSocketAssumption DEF IInv, TypeOK, FlagsTyped, TimerInv,
      TimersAreOwned, StopClears, HeartbeatWhileOpen, ConnectionInv,
      NoLeakedConnection, AttemptInv, OneConnectAtATime, Live, timers, beats,
      calls, flags, history, SocketRejected, IsForeign, ClearHeartbeatTimer,
      BeatsAfterClear
<1>5. AttemptInv'
  BY NoSocketAssumption DEF IInv, TypeOK, AttemptInv, OneConnectAtATime,
      CatchScheduled, NeverStranded, ConnectionInv, NoLeakedConnection,
      TrackedWillReport, TimerInv, StopClears, TimersAreOwned, Live, timers,
      beats, calls, flags, history, SocketRejected, IsForeign,
      ClearHeartbeatTimer, BeatsAfterClear
<1>6. ResyncInv'
  BY NoSocketAssumption DEF IInv, TypeOK, ResyncInv, ResyncOnlyAfterReopen,
      FlagIsFresh, ConnectionInv, NoLeakedConnection, Live, timers, beats,
      calls, flags, history, SocketRejected, IsForeign, ClearHeartbeatTimer,
      BeatsAfterClear
<1> QED
  BY <1>2, <1>3, <1>4, <1>5, <1>6 DEF IInv

LEMMA RejectionHandledStep ==
  ASSUME NEW s \in Socket, IInv, RejectionHandled(s)
  PROVE  IInv'
<1>1. FlagsTyped'
  BY Zenon DEF IInv, TypeOK, FlagsTyped, timers, beats, calls, flags, history,
      RejectionHandled, ReconnectUnlessStopping, ScheduleReconnect
<1>2. TypeOK'
  BY <1>1, AttemptsAssumption DEF IInv, TypeOK, Ready, Live, TimerInv,
      TimersAreOwned, AttemptInv, OneConnectAtATime, timers, beats, calls,
      flags, history, RejectionHandled, ReconnectUnlessStopping,
      ScheduleReconnect
<1>3. ConnectionInv'
  BY NoSocketAssumption DEF IInv, TypeOK, ConnectionInv, NoLeakedConnection,
      ConnectIsExclusive, TrackedWillReport, Live, TimerInv, StopClears,
      AttemptInv, OneConnectAtATime, timers, beats, calls, flags, history,
      RejectionHandled, ReconnectUnlessStopping, ScheduleReconnect
<1>4. TimerInv'
  BY NoSocketAssumption DEF IInv, TypeOK, FlagsTyped, TimerInv,
      TimersAreOwned, StopClears, HeartbeatWhileOpen, ConnectionInv,
      NoLeakedConnection, AttemptInv, OneConnectAtATime, Live, timers, beats,
      calls, flags, history, RejectionHandled, ReconnectUnlessStopping,
      ScheduleReconnect
<1>5. AttemptInv'
  BY NoSocketAssumption DEF IInv, TypeOK, AttemptInv, OneConnectAtATime,
      CatchScheduled, NeverStranded, ConnectionInv, NoLeakedConnection,
      TrackedWillReport, TimerInv, StopClears, TimersAreOwned, Live, timers,
      beats, calls, flags, history, RejectionHandled, ReconnectUnlessStopping,
      ScheduleReconnect
<1>6. ResyncInv'
  BY NoSocketAssumption DEF IInv, TypeOK, ResyncInv, ResyncOnlyAfterReopen,
      FlagIsFresh, ConnectionInv, NoLeakedConnection, Live, timers, beats,
      calls, flags, history, RejectionHandled, ReconnectUnlessStopping,
      ScheduleReconnect
<1> QED
  BY <1>2, <1>3, <1>4, <1>5, <1>6 DEF IInv

LEMMA OpenHandlerSucceedsStep ==
  ASSUME NEW s \in Socket, IInv, OpenHandlerSucceeds(s)
  PROVE  IInv'
<1>1. FlagsTyped'
  BY Zenon DEF IInv, TypeOK, FlagsTyped, timers, beats, calls, flags, history,
      OpenHandlerSucceeds
<1>2. TypeOK'
  BY <1>1, AttemptsAssumption DEF IInv, TypeOK, Ready, Live, TimerInv,
      TimersAreOwned, AttemptInv, OneConnectAtATime, timers, beats, calls,
      flags, history, OpenHandlerSucceeds
<1>3. ConnectionInv'
  BY NoSocketAssumption DEF IInv, TypeOK, ConnectionInv, NoLeakedConnection,
      ConnectIsExclusive, TrackedWillReport, Live, TimerInv, StopClears,
      AttemptInv, OneConnectAtATime, timers, beats, calls, flags, history,
      OpenHandlerSucceeds
<1>4. TimerInv'
  BY NoSocketAssumption DEF IInv, TypeOK, FlagsTyped, TimerInv,
      TimersAreOwned, StopClears, HeartbeatWhileOpen, ConnectionInv,
      NoLeakedConnection, AttemptInv, OneConnectAtATime, Live, timers, beats,
      calls, flags, history, OpenHandlerSucceeds
<1>5. AttemptInv'
  BY NoSocketAssumption DEF IInv, TypeOK, AttemptInv, OneConnectAtATime,
      CatchScheduled, NeverStranded, ConnectionInv, NoLeakedConnection,
      TrackedWillReport, TimerInv, StopClears, TimersAreOwned, Live, timers,
      beats, calls, flags, history, OpenHandlerSucceeds
<1>6. ResyncInv'
  BY NoSocketAssumption DEF IInv, TypeOK, ResyncInv, ResyncOnlyAfterReopen,
      FlagIsFresh, ConnectionInv, NoLeakedConnection, Live, timers, beats,
      calls, flags, history, OpenHandlerSucceeds
<1> QED
  BY <1>2, <1>3, <1>4, <1>5, <1>6 DEF IInv

LEMMA OpenHandlerFailsStep ==
  ASSUME NEW s \in Socket, IInv, OpenHandlerFails(s)
  PROVE  IInv'
<1>1. FlagsTyped'
  BY Zenon DEF IInv, TypeOK, FlagsTyped, timers, beats, calls, flags, history,
      OpenHandlerFails, SocketIsActive
<1>2. TypeOK'
  BY <1>1, AttemptsAssumption DEF IInv, TypeOK, Ready, Live, TimerInv,
      TimersAreOwned, AttemptInv, OneConnectAtATime, timers, beats, calls,
      flags, history, OpenHandlerFails, SocketIsActive
<1>3. ConnectionInv'
  BY NoSocketAssumption DEF IInv, TypeOK, ConnectionInv, NoLeakedConnection,
      ConnectIsExclusive, TrackedWillReport, Live, TimerInv, StopClears,
      AttemptInv, OneConnectAtATime, timers, beats, calls, flags, history,
      OpenHandlerFails, SocketIsActive
<1>4. TimerInv'
  BY NoSocketAssumption DEF IInv, TypeOK, FlagsTyped, TimerInv,
      TimersAreOwned, StopClears, HeartbeatWhileOpen, ConnectionInv,
      NoLeakedConnection, AttemptInv, OneConnectAtATime, Live, timers, beats,
      calls, flags, history, OpenHandlerFails, SocketIsActive
<1>5. AttemptInv'
  BY NoSocketAssumption DEF IInv, TypeOK, AttemptInv, OneConnectAtATime,
      CatchScheduled, NeverStranded, ConnectionInv, NoLeakedConnection,
      TrackedWillReport, TimerInv, StopClears, TimersAreOwned, Live, timers,
      beats, calls, flags, history, OpenHandlerFails, SocketIsActive
<1>6. ResyncInv'
  BY NoSocketAssumption DEF IInv, TypeOK, ResyncInv, ResyncOnlyAfterReopen,
      FlagIsFresh, ConnectionInv, NoLeakedConnection, Live, timers, beats,
      calls, flags, history, OpenHandlerFails, SocketIsActive
<1> QED
  BY <1>2, <1>3, <1>4, <1>5, <1>6 DEF IInv

LEMMA ResyncReturnsStep ==
  ASSUME NEW s \in Socket, IInv, ResyncReturns(s)
  PROVE  IInv'
<1>1. FlagsTyped'
  BY Zenon DEF IInv, TypeOK, FlagsTyped, timers, beats, calls, flags, history,
      ResyncReturns
<1>2. TypeOK'
  BY <1>1, AttemptsAssumption DEF IInv, TypeOK, Ready, Live, TimerInv,
      TimersAreOwned, AttemptInv, OneConnectAtATime, timers, beats, calls,
      flags, history, ResyncReturns
<1>3. ConnectionInv'
  BY NoSocketAssumption DEF IInv, TypeOK, ConnectionInv, NoLeakedConnection,
      ConnectIsExclusive, TrackedWillReport, Live, TimerInv, StopClears,
      AttemptInv, OneConnectAtATime, timers, beats, calls, flags, history,
      ResyncReturns
<1>4. TimerInv'
  BY NoSocketAssumption DEF IInv, TypeOK, FlagsTyped, TimerInv,
      TimersAreOwned, StopClears, HeartbeatWhileOpen, ConnectionInv,
      NoLeakedConnection, AttemptInv, OneConnectAtATime, Live, timers, beats,
      calls, flags, history, ResyncReturns
<1>5. AttemptInv'
  BY NoSocketAssumption DEF IInv, TypeOK, AttemptInv, OneConnectAtATime,
      CatchScheduled, NeverStranded, ConnectionInv, NoLeakedConnection,
      TrackedWillReport, TimerInv, StopClears, TimersAreOwned, Live, timers,
      beats, calls, flags, history, ResyncReturns
<1>6. ResyncInv'
  BY NoSocketAssumption DEF IInv, TypeOK, ResyncInv, ResyncOnlyAfterReopen,
      FlagIsFresh, ConnectionInv, NoLeakedConnection, Live, timers, beats,
      calls, flags, history, ResyncReturns
<1> QED
  BY <1>2, <1>3, <1>4, <1>5, <1>6 DEF IInv

LEMMA StutterIInv == ASSUME IInv, UNCHANGED vars PROVE IInv'
<1>1. UNCHANGED <<stopped, stopping, builds, catches, connecting>>
  BY DEF vars, flags, calls
<1>2. UNCHANGED <<reconnectTimer, armedReconnects, reconnectAttempts,
                  heartbeatTimer, armedHeartbeats, hasOpened, opens>>
  BY DEF vars, timers, beats, history
<1>3. UNCHANGED <<socket, ready, isReconnect, opening, rejecting, stopWaits>>
  BY DEF vars
<1>4. TypeOK'
  BY <1>1, <1>2, <1>3 DEF IInv, TypeOK, FlagsTyped
<1>5. ConnectionInv' /\ TimerInv'
  BY <1>1, <1>2, <1>3
  DEF IInv, ConnectionInv, NoLeakedConnection, ConnectIsExclusive,
      TrackedWillReport, TimerInv, TimersAreOwned, StopClears, HeartbeatWhileOpen
<1>6. AttemptInv' /\ ResyncInv'
  BY <1>1, <1>2, <1>3
  DEF IInv, AttemptInv, OneConnectAtATime, CatchScheduled, NeverStranded,
      ResyncInv, ResyncOnlyAfterReopen, FlagIsFresh
<1> QED
  BY <1>4, <1>5, <1>6 DEF IInv

LEMMA NextIInv == IInv /\ [Next]_vars => IInv'
<1> SUFFICES ASSUME IInv, [Next]_vars PROVE IInv'
  OBVIOUS
<1>1. CASE Start
  BY <1>1, StartStep
<1>2. CASE Stop
  BY <1>2, StopStep
<1>3. CASE AbandonConnect
  BY <1>3, AbandonConnectStep
<1>4. CASE ConnectThrows
  BY <1>4, ConnectThrowsStep
<1>5. CASE LeaveCatch
  BY <1>5, LeaveCatchStep
<1>6. CASE ReconnectTimerFires
  BY <1>6, ReconnectTimerFiresStep
<1>7. ASSUME NEW s \in Socket, SocketStep(s) PROVE IInv'
  <2>1. CASE CreateSocket(s)
    BY <2>1, CreateSocketStep
  <2>2. CASE StopTimeout(s)
    BY <2>2, StopTimeoutStep
  <2>3. CASE SocketOpens(s)
    BY <2>3, SocketOpensStep
  <2>4. CASE PeerCloses(s)
    BY <2>4, PeerClosesStep
  <2>5. CASE SocketCloses(s)
    BY <2>5, SocketClosesStep
  <2>6. CASE SocketRejected(s)
    BY <2>6, SocketRejectedStep
  <2>7. CASE RejectionHandled(s)
    BY <2>7, RejectionHandledStep
  <2>8. CASE OpenHandlerSucceeds(s)
    BY <2>8, OpenHandlerSucceedsStep
  <2>9. CASE OpenHandlerFails(s)
    BY <2>9, OpenHandlerFailsStep
  <2>10. CASE ResyncReturns(s)
    BY <2>10, ResyncReturnsStep
  <2> QED
    BY <1>7, <2>1, <2>2, <2>3, <2>4, <2>5, <2>6, <2>7, <2>8, <2>9, <2>10
    DEF SocketStep
<1>8. CASE UNCHANGED vars
  BY <1>8, StutterIInv
<1> QED
  BY <1>1, <1>2, <1>3, <1>4, <1>5, <1>6, <1>7, <1>8 DEF Next

LEMMA SpecIInv == Spec => []IInv
BY InitIInv, NextIInv, PTL DEF Spec

-----------------------------------------------------------------------------
(* Every variable of the client stays in its type.                         *)
THEOREM TypeCorrect == Spec => []TypeOK
<1>1. IInv => TypeOK
  BY DEF IInv
<1> QED
  BY <1>1, SpecIInv, PTL

(* However start(), stop(), late events and timers interleave, a socket    *)
(* that is connecting or open is the tracked one: at most one exists.      *)
THEOREM NoConnectionLeaks == Spec => []NoLeakedConnection
<1>1. IInv => NoLeakedConnection
  BY DEF IInv, ConnectionInv
<1> QED
  BY <1>1, SpecIInv, PTL

(* stop() leaves no socket, no reconnect timeout and no heartbeat behind,  *)
(* and nothing that was in flight brings one back before start().          *)
THEOREM StopIsFinal == Spec => []StoppedIsQuiet
<1>1. IInv => StoppedIsQuiet
  BY DEF IInv, TimerInv, StopClears, TimersAreOwned, StoppedIsQuiet
<1> QED
  BY <1>1, SpecIInv, PTL

(* Handles and armed timers agree: no reconnect is ever scheduled twice.   *)
THEOREM NoDuplicateTimers == Spec => []TimersAreOwned
<1>1. IInv => TimersAreOwned
  BY DEF IInv, TimerInv
<1> QED
  BY <1>1, SpecIInv, PTL

(* At most one connect() is in flight and the connecting flag shows it.    *)
THEOREM ConnectsAreExclusive == Spec => []OneConnectAtATime
<1>1. IInv => OneConnectAtATime
  BY DEF IInv, AttemptInv
<1> QED
  BY <1>1, SpecIInv, PTL

(* The heartbeat of an open connection is never taken by a late close.     *)
THEOREM OpenKeepsHeartbeat == Spec => []HeartbeatWhileOpen
<1>1. IInv => HeartbeatWhileOpen
  BY DEF IInv, TimerInv
<1> QED
  BY <1>1, SpecIInv, PTL

(* Snapshots are resynced after a second or later open only.               *)
THEOREM ResyncFollowsReopen == Spec => []ResyncOnlyAfterReopen
<1>1. IInv => ResyncOnlyAfterReopen
  BY DEF IInv, ResyncInv
<1> QED
  BY <1>1, SpecIInv, PTL

(* When no caller restarts the client between the two microtasks of        *)
(* connect()'s catch branch, a running client always has a wake-up coming. *)
THEOREM RunningClientWillWake ==
  ASSUME ~RestartInCatch
  PROVE  Spec => []NeverStranded
<1>1. IInv => NeverStranded
  BY ~RestartInCatch DEF IInv, AttemptInv
<1> QED
  BY <1>1, SpecIInv, PTL

(* An open is a reconnect exactly when the client had an open before it.   *)
THEOREM ReopensAreReconnects == Spec => ReopenIsAReconnect
<1> DEFINE Step ==
  \A s \in Socket : opening[s] = "none" /\ opening'[s] = "onOpen" =>
    (isReconnect[s] <=> opens > 0)
<1>1. IInv /\ [Next]_vars => [Step]_vars
  <2> SUFFICES ASSUME IInv, Next, NEW s \in Socket,
                      opening[s] = "none", opening'[s] = "onOpen"
               PROVE  isReconnect[s] <=> opens > 0
    OBVIOUS
  <2>1. SocketOpens(s)
    <3>1. PICK r \in Socket : SocketOpens(r) /\ opening' = [opening EXCEPT ![r] = "onOpen"]
      BY DEF Next, IInv, TypeOK, Start, Stop, AbandonConnect, ConnectThrows,
             LeaveCatch, ReconnectTimerFires, SocketStep, CreateSocket,
             StopTimeout, SocketOpens, PeerCloses, SocketCloses, SocketRejected,
             RejectionHandled, OpenHandlerSucceeds, OpenHandlerFails,
             ResyncReturns
    <3> QED
      BY <3>1 DEF IInv, TypeOK
  <2>2. ready[s] = "connecting"
    BY <2>1 DEF SocketOpens
  <2> QED
    BY <2>2 DEF IInv, ResyncInv, FlagIsFresh
<1> QED
  BY <1>1, SpecIInv, PTL DEF Spec, ReopenIsAReconnect
=============================================================================
