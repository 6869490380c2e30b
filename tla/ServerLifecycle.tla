--------------------------- MODULE ServerLifecycle ---------------------------
(***************************************************************************)
(* The two websocket servers on one HTTP server (src/websocket/wsServer.ts)*)
(* and the way the process goes down (src/index.ts,                        *)
(* src/jobs/tickerCollector.ts): upgrades, of which those for /ws/trading  *)
(* await a verification; the heartbeat that drops unresponsive clients; a  *)
(* shutdown that closes one part after the other and is forced when it     *)
(* takes too long.                                                         *)
(***************************************************************************)
EXTENDS FiniteSets

CONSTANTS Connection

VARIABLES
  route,       \* where each connection asked to be upgraded
  conn,        \* state of each connection
  alive,       \* isAlive of its socket
  answers,     \* whether its client still answers pings
  known,       \* keys of clientSubscriptions and privateClientSubscriptions
  server,      \* wss and privateWss: "running", "closing" or "closed" (null)
  heartbeat,   \* heartbeatInterval is set
  collector,   \* the collector of tickerCollector.ts
  stage,       \* how far shutdown has come
  exitStatus      \* how the process ended

serverVars == <<route, conn, alive, answers, known, server, heartbeat, collector,
          stage, exitStatus>>

Upgraded == {"open", "closing"}
Held     == Upgraded \cup {"verifying", "unanswered"}  \* keep the HTTP server

(* The order of shutdown.                                                  *)
Stages == <<"up", "collector", "sockets", "http", "database", "exited">>

ServerTypeOK ==
  /\ route \in [Connection -> {"none", "market", "trading", "other"}]
  /\ conn \in [Connection -> Held \cup {"none", "gone"}]
  /\ alive \in [Connection -> BOOLEAN] /\ answers \in [Connection -> BOOLEAN]
  /\ known \subseteq Connection
  /\ server \in {"running", "closing", "closed"}
  /\ heartbeat \in BOOLEAN
  /\ collector \in {"delayed", "started", "stopping", "stopped"}
  /\ stage \in {Stages[i] : i \in DOMAIN Stages}
  /\ exitStatus \in {"running", "clean", "failed", "forced", "killed"}

ServerInit ==
  /\ route = [c \in Connection |-> "none"]
  /\ conn = [c \in Connection |-> "none"]
  /\ alive = [c \in Connection |-> TRUE]
  /\ answers = [c \in Connection |-> TRUE]
  /\ known = {}
  /\ server = "running" /\ heartbeat = TRUE
  /\ collector = "delayed"
  /\ stage = "up" /\ exitStatus = "running"

Up == stage # "exited"
Becomes(c, state) == conn' = [conn EXCEPT ![c] = state]
SocketVars  == <<route, conn, alive, answers, known>>
ProcessVars == <<server, heartbeat, collector, stage, exitStatus>>

-----------------------------------------------------------------------------
(* The connection handlers of setupWebSocket.                              *)
Welcomed(c) ==
  /\ Becomes(c, "open")
  /\ alive' = [alive EXCEPT ![c] = TRUE]
  /\ known' = known \cup {c}

(* privateUpgradeListener: an unknown route is answered 404, a request for *)
(* /ws/market is upgraded at once, one for /ws/trading is verified first.  *)
RequestsUpgrade(c) ==
  /\ Up /\ server = "running" /\ conn[c] = "none"
  /\ \E r \in {"market", "trading", "other"} :
       /\ route' = [route EXCEPT ![c] = r]
       /\ \/ r = "market" /\ Welcomed(c)
          \/ r = "trading" /\ Becomes(c, "verifying") /\ UNCHANGED <<alive, known>>
          \/ r = "other" /\ Becomes(c, "gone") /\ UNCHANGED <<alive, known>>
  /\ UNCHANGED <<answers, ProcessVars>>

(* The verification rejects the request, or throws: rejectPrivateUpgrade.  *)
Rejected(c) ==
  /\ Up /\ conn[c] = "verifying"
  /\ Becomes(c, "gone")
  /\ UNCHANGED <<route, alive, answers, known, ProcessVars>>

(* The verification accepts the request.  A closing server answers it 503; *)
(* once privateWss is null, nobody answers it.                             *)
Verified(c) ==
  /\ Up /\ conn[c] = "verifying"
  /\ \/ server = "running" /\ Welcomed(c)
     \/ server = "closing" /\ Becomes(c, "gone") /\ UNCHANGED <<alive, known>>
     \/ server = "closed" /\ Becomes(c, "unanswered") /\ UNCHANGED <<alive, known>>
  /\ UNCHANGED <<route, answers, ProcessVars>>

(* The close event: the handshake ends, or terminate after 500 ms.         *)
Closed(c) ==
  /\ Up /\ conn[c] = "closing"
  /\ Becomes(c, "gone")
  /\ known' = known \ {c}
  /\ UNCHANGED <<route, alive, answers, ProcessVars>>

(* The client closes, or is closed for its budget or as a slow consumer;   *)
(* a client that has not been upgraded may give up.                        *)
Leaves(c) ==
  /\ Up /\ answers[c]
  /\ \/ conn[c] = "open" /\ Becomes(c, "closing")
     \/ conn[c] \in {"verifying", "unanswered"} /\ Becomes(c, "gone")
  /\ UNCHANGED <<route, alive, answers, known, ProcessVars>>

(* The client vanishes without a word.                                     *)
Hangs(c) ==
  /\ Up /\ conn[c] \in Held /\ answers[c]
  /\ answers' = [answers EXCEPT ![c] = FALSE]
  /\ UNCHANGED <<route, conn, alive, known, ProcessVars>>

Pongs(c) ==
  /\ Up /\ conn[c] = "open" /\ answers[c] /\ ~alive[c]
  /\ alive' = [alive EXCEPT ![c] = TRUE]
  /\ UNCHANGED <<route, conn, answers, known, ProcessVars>>

(* startHeartbeat: whoever has not answered the last ping is cleaned up    *)
(* and closed, the others are pinged.                                      *)
HeartbeatFires ==
  LET beat    == {c \in Connection : conn[c] \in Upgraded}
      dropped == {c \in beat : ~alive[c]}
  IN  /\ Up /\ heartbeat
      /\ known' = known \ dropped
      /\ conn' = [c \in Connection |-> IF c \in dropped THEN "closing"
                                                        ELSE conn[c]]
      /\ alive' = [c \in Connection |-> alive[c] /\ c \notin beat]
      /\ UNCHANGED <<route, answers, ProcessVars>>

-----------------------------------------------------------------------------
(* startTickerCollector's timer.                                           *)
CollectorStarts ==
  /\ Up /\ collector = "delayed" /\ collector' = "started"
  /\ UNCHANGED <<SocketVars, server, heartbeat, stage, exitStatus>>

(* The first signal, unhandled rejection or uncaught exception; later ones *)
(* find shuttingDown set.  stopTickerCollector clears the start timer and  *)
(* awaits what the collector runs.                                         *)
ShutdownBegins ==
  /\ stage = "up" /\ stage' = "collector"
  /\ collector' = IF collector = "delayed" THEN "stopped" ELSE "stopping"
  /\ UNCHANGED <<SocketVars, server, heartbeat, exitStatus>>

CollectorStops ==
  /\ Up /\ collector = "stopping" /\ collector' = "stopped"
  /\ UNCHANGED <<SocketVars, server, heartbeat, stage, exitStatus>>

(* Variant: the sockets that close are not waited for.                     *)
HastyServersClose ==
  /\ stage = "sockets" /\ stage' = "http"
  /\ server' = "closed"
  /\ UNCHANGED <<SocketVars, heartbeat, collector, exitStatus>>

(* stopPriceAlertWorker and closeWebSocketServer up to its await.          *)
SocketsClose ==
  /\ stage = "collector" /\ collector = "stopped" /\ stage' = "sockets"
  /\ server' = "closing" /\ heartbeat' = FALSE
  /\ known' = {}
  /\ conn' = [c \in Connection |-> IF conn[c] = "open" THEN "closing"
                                                       ELSE conn[c]]
  /\ UNCHANGED <<route, alive, answers, collector, exitStatus>>

(* Both servers have closed once none of their clients is left.            *)
ServersClosed ==
  /\ stage = "sockets" /\ stage' = "http"
  /\ \A c \in Connection : conn[c] \notin Upgraded
  /\ server' = "closed"
  /\ UNCHANGED <<SocketVars, heartbeat, collector, exitStatus>>

(* app.close: closeAllConnections ends the HTTP connections, not those     *)
(* that asked for an upgrade.                                              *)
AppCloses ==
  /\ stage = "http" /\ stage' = "database"
  /\ \A c \in Connection : conn[c] \notin Held
  /\ UNCHANGED <<SocketVars, server, heartbeat, collector, exitStatus>>

Exits(how) ==
  /\ stage' = "exited" /\ exitStatus' = how
  /\ UNCHANGED <<SocketVars, server, heartbeat, collector>>

Disconnects == stage = "database" /\ Exits("clean")

(* app.close or a disconnection throws: the finally exits.                 *)
ShutdownFails == stage \in {"http", "database"} /\ Exits("failed")

(* forceExitTimer, after ten seconds.                                      *)
Forced == Up /\ stage # "up" /\ Exits("forced")

(* A second signal of a kind: the handler was registered with once.        *)
Killed == Up /\ stage # "up" /\ Exits("killed")

ServerNext ==
  \/ \E c \in Connection :
       \/ RequestsUpgrade(c) \/ Verified(c) \/ Rejected(c) \/ Closed(c)
       \/ Leaves(c) \/ Hangs(c) \/ Pongs(c)
  \/ HeartbeatFires \/ CollectorStarts
  \/ ShutdownBegins \/ CollectorStops \/ SocketsClose \/ ServersClosed
  \/ AppCloses \/ Disconnects \/ ShutdownFails \/ Forced \/ Killed

ServerSpec == ServerInit /\ [][ServerNext]_serverVars

-----------------------------------------------------------------------------
(* Once closeWebSocketServer is done no client is connected, though        *)
(* verifications of private upgrades may end at any moment of it.          *)
NoClientLeft ==
  stage \in {"http", "database"} =>
    \A c \in Connection : conn[c] \notin Upgraded

(* The subscription maps hold no client that is gone, whichever of the     *)
(* four paths its socket took to the end.                                  *)
NoGhostClient == \A c \in known : conn[c] \in Upgraded

(* When the servers are closed no connection is left open, and no client   *)
(* that is gone is remembered (closeWebSocketServer).                      *)
NobodyLeftOpen == ServerTypeOK /\ NoClientLeft /\ NoGhostClient

(* A client that no longer answers is dropped, by the heartbeat or by the  *)
(* end of the process (startHeartbeat).                                    *)
DeadIsDropped ==
  \A c \in Connection :
    (conn[c] = "open" /\ ~answers[c]) ~> (conn[c] = "gone" \/ ~Up)

(* A shutdown ends, whatever hangs: the timer is set before the first      *)
(* await (shutdown in index.ts).                                           *)
ShutdownEnds == (stage # "up") ~> ~Up
=============================================================================
