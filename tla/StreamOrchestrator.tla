------------------------- MODULE StreamOrchestrator -------------------------
(***************************************************************************)
(* MarketStreamingOrchestrator                                             *)
(* (src/domains/market-data/market-streaming.orchestrator.ts) for one      *)
(* exchange: bootstrap, the stream, the silence monitor that falls back to *)
(* polling, the suppression of a failing capability, and stop, which may   *)
(* come while start is still awaiting.                                     *)
(*                                                                         *)
(* Time is kept in countdowns and ages, in units of five seconds; a timer  *)
(* fires before the tick that would make it late.  The process starts and  *)
(* stops the collector once (src/index.ts).                                *)
(***************************************************************************)
EXTENDS Integers

CONSTANTS
  Run,              \* identities of polling runs
  PollInterval,     \* getPollingFallbackIntervalMs
  Silence,          \* getStreamingSilenceThresholdMs
  HealthInterval,   \* period of the health monitor
  MaxCall,          \* longest a provider call takes (REST client's budget)
  Streaming,        \* values of config.publicStreamingEnabled
  FallbackEnabled,  \* config.pollingFallbackEnabled
  MaxFailures       \* bound on failureCount

ASSUME PeriodAssumption ==
  /\ PollInterval \in Nat \ {0} /\ HealthInterval \in Nat \ {0}
  /\ Silence \in Nat /\ MaxCall \in Nat /\ MaxFailures \in Nat \ {0}
ASSUME ConfigAssumption ==
  Streaming \subseteq BOOLEAN /\ FallbackEnabled \in BOOLEAN

VARIABLES
  startStage,    \* where start() is
  stopStage,     \* where stop() is
  overtaken,     \* stop() was called while start() ran (history)
  listed,        \* publicSubscriptions has symbols of this exchange
  stream,        \* the provider's stream manager runs
  mode,          \* status.mode
  quietFor,      \* age of status.lastMessageAt
  pollIn,        \* time to the next polling run, or Off
  healthIn,      \* time to the next look of the monitor, or Off
  calls,         \* age of the getTickerSnapshot of each run, or Off
  ticker,        \* status.capabilities.ticker
  looked,        \* the monitor has looked (history)
  sinceAttempt   \* age of the last getTickerSnapshot (history)

vars == <<startStage, stopStage, overtaken, listed, stream, mode, quietFor,
          pollIn, healthIn, calls, ticker, looked, sinceAttempt>>
timers == <<pollIn, healthIn>>

Off   == -1
Never == -1

Kind == {"blocked", "bad_request", "unsupported", "malformed",
         "empty_response", "upstream_error", "rate_limited", "cancelled",
         "temporarily_unavailable"}

Least(a, b) == IF a <= b THEN a ELSE b

(* Variant: the growth of the pause is not capped.                         *)
SuppressUncapped(kind, n) == 3 * 2 ^ (n - 1)

(* getSuppressMs; from the sixth failure on, the doubled pause is capped.   *)
Doubled(n) == 3 * 2 ^ (Least(n, 6) - 1)

Suppress(kind, n) ==
  CASE kind = "blocked"                           -> 60
    [] kind \in {"bad_request", "unsupported"}    -> 24
    [] kind = "malformed"                         -> 18
    [] kind = "empty_response"                    -> Least(4 * n, 18)
    [] kind \in {"upstream_error", "temporarily_unavailable"}
                                                  -> Least(Doubled(n), 60)
    [] kind = "rate_limited"                      -> Least(2 * n, 12)
    [] kind = "cancelled"                         -> 3

LongestPause == 60
AgeLimit     == Silence + HealthInterval + 1

TypeOK ==
  /\ startStage \in {"idle", "listing", "planning", "opening", "connected",
                     "done"}
  /\ stopStage \in {"no", "stopping", "stopped"}
  /\ overtaken \in BOOLEAN /\ listed \in BOOLEAN /\ stream \in BOOLEAN
  /\ mode \in {"streaming", "polling"}
  /\ quietFor \in 0 .. AgeLimit \cup {Never}
  /\ pollIn \in 0 .. PollInterval \cup {Off}
  /\ healthIn \in 0 .. HealthInterval \cup {Off}
  /\ calls \in [Run -> 0 .. MaxCall \cup {Off}]
  /\ ticker \in [state : Kind \cup {"active"}, failures : 0 .. MaxFailures,
                 suppressed : Nat]
  /\ ticker.state = "active" => ticker.failures = 0 /\ ticker.suppressed = 0
  /\ looked \in BOOLEAN
  /\ sinceAttempt \in Nat

Active == [state |-> "active", failures |-> 0, suppressed |-> 0]

Init ==
  /\ startStage = "idle" /\ stopStage = "no" /\ overtaken = FALSE
  /\ listed = FALSE /\ stream = FALSE
  /\ mode = "streaming" /\ quietFor = Never
  /\ pollIn = Off /\ healthIn = Off
  /\ calls = [r \in Run |-> Off]
  /\ ticker = Active
  /\ looked = FALSE
  /\ sinceAttempt = 0

Started == startStage # "idle" /\ stopStage = "no"

-----------------------------------------------------------------------------
(* run: sets the mode, then asks for the tickers unless they are           *)
(* suppressed; a run does not look whether an earlier one has ended.       *)
PollRun ==
  /\ mode' = "polling"
  /\ IF listed' /\ ticker.suppressed = 0
     THEN /\ \E r \in Run : calls[r] = Off /\ calls' = [calls EXCEPT ![r] = 0]
          /\ sinceAttempt' = 0
     ELSE UNCHANGED <<calls, sinceAttempt>>

StartPollingFallback ==
  IF pollIn # Off
  THEN UNCHANGED <<pollIn, mode, calls, sinceAttempt>>
  ELSE pollIn' = PollInterval /\ PollRun

Start ==
  /\ startStage = "idle" /\ stopStage = "no"
  /\ startStage' = "listing"
  /\ UNCHANGED <<looked, stopStage, overtaken, listed, stream, mode,
                 quietFor, timers, calls, ticker, sinceAttempt>>

(* listMarkets answered, or failed: then there are no subscriptions.       *)
Lists ==
  /\ startStage = "listing"
  /\ listed' \in BOOLEAN
  /\ \/ /\ TRUE \in Streaming
        /\ startStage' = "planning"
        /\ UNCHANGED <<pollIn, mode, calls, sinceAttempt>>
     \/ /\ FALSE \in Streaming
        /\ startStage' = "connected"
        /\ StartPollingFallback
  /\ UNCHANGED <<looked, stopStage, overtaken, stream, quietFor, healthIn,
                 ticker>>

(* startPublicStream makes the manager, if any of the symbols resolves.    *)
OpensStream ==
  /\ startStage = "planning" /\ startStage' = "opening"
  /\ stream' \in IF listed THEN BOOLEAN ELSE {stream}
  /\ UNCHANGED <<looked, stopStage, overtaken, listed, mode, quietFor,
                 timers, calls, ticker, sinceAttempt>>

(* Variant: the start of the stream is not counted as a message.           *)
StartsUnheard ==
  /\ startStage = "opening" /\ startStage' = "connected"
  /\ mode' = "streaming"
  /\ UNCHANGED <<looked, stopStage, overtaken, listed, stream, quietFor,
                 timers, calls, ticker, sinceAttempt>>

(* setMode and noteCapabilitySuccess for the stream.                       *)
StreamStarts ==
  /\ startStage = "opening" /\ startStage' = "connected"
  /\ mode' = "streaming" /\ quietFor' = 0
  /\ UNCHANGED <<looked, stopStage, overtaken, listed, stream, timers,
                 calls, ticker, sinceAttempt>>

(* noteCapabilityFailure for the stream, which nothing starts again.       *)
StreamStartFails ==
  /\ startStage \in {"planning", "opening"} /\ startStage' = "connected"
  /\ IF FallbackEnabled
     THEN UNCHANGED listed /\ StartPollingFallback
     ELSE UNCHANGED <<listed, pollIn, mode, calls, sinceAttempt>>
  /\ UNCHANGED <<looked, stopStage, overtaken, stream, quietFor, healthIn,
                 ticker>>

(* Every exchange is through: startHealthMonitor.                          *)
StartHealthMonitor ==
  /\ startStage = "connected" /\ startStage' = "done"
  /\ healthIn' = HealthInterval
  /\ UNCHANGED <<looked, stopStage, overtaken, listed, stream, mode,
                 quietFor, pollIn, calls, ticker, sinceAttempt>>

(* noteCapabilitySuccess.                                                  *)
Succeeded == Active

(* onTicker.                                                               *)
Message ==
  /\ stream
  /\ quietFor' = 0 /\ ticker' = Succeeded
  /\ UNCHANGED <<looked, startStage, stopStage, overtaken, listed, stream,
                 mode, timers, calls, sinceAttempt>>

PollFires ==
  /\ pollIn = 0 /\ pollIn' = PollInterval
  /\ UNCHANGED listed
  /\ PollRun
  /\ UNCHANGED <<looked, startStage, stopStage, overtaken, stream,
                 quietFor, healthIn, ticker>>

CallSucceeds(r) ==
  /\ calls[r] # Off /\ calls' = [calls EXCEPT ![r] = Off]
  /\ quietFor' = 0 /\ ticker' = Succeeded
  /\ UNCHANGED <<looked, startStage, stopStage, overtaken, listed, stream,
                 mode, timers, sinceAttempt>>

CallFails(r, kind) ==
  LET n == Least(ticker.failures + 1, MaxFailures)
  IN  /\ calls[r] # Off /\ calls' = [calls EXCEPT ![r] = Off]
      /\ ticker' = [state |-> kind, failures |-> n,
                    suppressed |-> Suppress(kind, n)]
      /\ UNCHANGED <<looked, startStage, stopStage, overtaken, listed,
                     stream, mode, quietFor, timers, sinceAttempt>>

IsSilent == mode = "streaming" /\ quietFor # Never /\ quietFor > Silence

HealthFires ==
  /\ healthIn = 0 /\ healthIn' = HealthInterval
  /\ looked' = TRUE
  /\ UNCHANGED listed
  /\ IF IsSilent /\ FallbackEnabled
     THEN StartPollingFallback
     ELSE UNCHANGED <<pollIn, mode, calls, sinceAttempt>>
  /\ UNCHANGED <<startStage, stopStage, overtaken, stream, quietFor,
                 ticker>>

-----------------------------------------------------------------------------
(* Up to the await of the providers' stopPublicStream.                     *)
StopBegins ==
  /\ Started
  /\ stopStage' = "stopping"
  /\ overtaken' = (startStage # "done")
  /\ stream' = FALSE
  /\ UNCHANGED <<looked, startStage, listed, mode, quietFor, timers, calls,
                 ticker, sinceAttempt>>

(* Variant: the monitor is left running.                                   *)
StopEndsPollingOnly ==
  /\ stopStage = "stopping" /\ stopStage' = "stopped"
  /\ pollIn' = Off
  /\ UNCHANGED <<looked, startStage, overtaken, listed, stream, mode,
                 quietFor, healthIn, calls, ticker, sinceAttempt>>

(* After the await: both timers.                                           *)
StopEnds ==
  /\ stopStage = "stopping" /\ stopStage' = "stopped"
  /\ pollIn' = Off /\ healthIn' = Off
  /\ UNCHANGED <<looked, startStage, overtaken, listed, stream, mode,
                 quietFor, calls, ticker, sinceAttempt>>

Down(t) == IF t = Off THEN Off ELSE t - 1
Up(t, limit) == IF t = Off THEN Off ELSE Least(t + 1, limit)

Tick ==
  /\ pollIn # 0 /\ healthIn # 0
  /\ \A r \in Run : calls[r] < MaxCall
  /\ pollIn' = Down(pollIn) /\ healthIn' = Down(healthIn)
  /\ calls' = [r \in Run |-> IF calls[r] = Off THEN Off ELSE calls[r] + 1]
  /\ quietFor' = Up(quietFor, AgeLimit)
  /\ ticker' = [ticker EXCEPT !.suppressed = IF @ = 0 THEN 0 ELSE @ - 1]
  /\ sinceAttempt' = Least(sinceAttempt + 1, LongestPause + PollInterval
                                             + MaxCall + 1)
  /\ UNCHANGED <<looked, startStage, stopStage, overtaken, listed, stream,
                 mode>>

Next ==
  \/ Start \/ Lists \/ OpensStream \/ StreamStarts \/ StreamStartFails
  \/ StartHealthMonitor \/ Message \/ PollFires \/ HealthFires
  \/ StopBegins \/ StopEnds \/ Tick
  \/ \E r \in Run : CallSucceeds(r) \/ \E kind \in Kind : CallFails(r, kind)

Spec == Init /\ [][Next]_vars

-----------------------------------------------------------------------------
(* Once stop has returned, no stream, no polling timer and no monitor is   *)
(* left, even if the monitor or the poller fired while stop awaited the    *)
(* providers.  A start that stop overtook still sets up what it was about  *)
(* to set up.                                                              *)
QuietAfterStop ==
  stopStage = "stopped" /\ ~overtaken
    => ~stream /\ pollIn = Off /\ healthIn = Off

(* From the first look of the monitor to stop the exchange is covered: a   *)
(* stream heard from within the threshold and one period of the monitor,   *)
(* or a polling timer.  (The monitor starts when the slowest exchange has  *)
(* started; until then nobody looks.)                                      *)
AlwaysCovered ==
  Started /\ looked /\ FallbackEnabled
    => \/ pollIn # Off
       \/ /\ mode = "streaming" /\ quietFor # Never
          /\ quietFor <= Silence + HealthInterval

CoveredByStreamOrPolls == TypeOK /\ AlwaysCovered

(* A failing ticker endpoint is asked again: while the exchange is polled  *)
(* no pause is longer than the longest suppression, one period and the     *)
(* call that was under way.                                                *)
RetriedInTime ==
  listed /\ pollIn # Off
    => sinceAttempt <= LongestPause + PollInterval + MaxCall
=============================================================================
