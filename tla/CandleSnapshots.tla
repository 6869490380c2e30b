--------------------------- MODULE CandleSnapshots ---------------------------
(***************************************************************************)
(* The candle snapshots of one exchange, market and interval               *)
(* (src/domains/charts/candle.snapshot.ts): a memory cache in front of a   *)
(* Redis copy, refreshes that wait for one of a few slots shared with all  *)
(* markets, one flight that a request for more candles replaces, a         *)
(* cooldown after failures and a mark for what the exchange does not       *)
(* support.                                                                *)
(*                                                                         *)
(* Candles are counted, not listed.  What a code segment does between two  *)
(* awaits, with the promise chains it ends, is one action.                 *)
(***************************************************************************)
EXTENDS Integers, FiniteSets

CONSTANTS
  Caller, Job,
  Limit,                   \* candles a request may ask for
  MinFetch,                \* MIN_PROVIDER_CANDLE_FETCH_LIMIT
  FreshTtl, UsableTtl,     \* CANDLE_CACHE_TTL_MS, CANDLE_USABLE_STALE_TTL_MS
  CooldownBase, CooldownMax, UnsupportedTtl,
  MaxTime                  \* bound on the clock

(* Candles live for a while.                                               *)
CandleAssumption ==
  FreshTtl \in Nat \ {0} /\ UsableTtl \in Nat \ {0} /\ Limit \subseteq Nat

VARIABLES
  now,
  memory,       \* candleSnapshotCache
  redis,        \* the copy in Redis
  writing,      \* the last writeRedisCandleSnapshot that is under way
  failure,      \* candleFailureCooldown
  unsupported,  \* candleUnsupportedCapabilityCache: when the mark expires
  flight,       \* candleSnapshotInFlight: the job, or NoJob
  jobs,         \* refreshes enqueued or running
  calls,        \* the calls of resolveCandleSnapshot
  answers       \* the last answer each caller got (history)

vars == <<now, memory, redis, writing, failure, unsupported, flight, jobs,
          calls, answers>>

NoJob     == "none"
NoEntry   == [at |-> -1, points |-> 0]
NoFailure == [until |-> 0, delay |-> 0]
FreeJob   == [stage |-> "free", limit |-> 0]
Idle      == [stage |-> "idle", limit |-> 0, began |-> 0, cached |-> NoEntry,
              job |-> NoJob]
Unasked   == [status |-> "none", age |-> 0]

(* A process that starts may find what an earlier one has left in Redis.   *)
Init ==
  /\ now = 0
  /\ memory = NoEntry /\ writing = NoEntry
  /\ redis \in {NoEntry} \cup [at : {0}, points : Limit]
  /\ failure = NoFailure /\ unsupported = 0
  /\ flight = NoJob
  /\ jobs = [j \in Job |-> FreeJob]
  /\ calls = [c \in Caller |-> Idle]
  /\ answers = [c \in Caller |-> Unasked]

Larger(a, b)  == IF a >= b THEN a ELSE b
Smaller(a, b) == IF a <= b THEN a ELSE b

(* resolveProviderCandleFetchLimit.                                        *)
Fetched(limit) == Larger(limit, MinFetch)

-----------------------------------------------------------------------------
(* classifyCandleErrorType and classifyCandleFailure.  An error has the    *)
(* class it was thrown as, a status code, and words in its message.        *)
SaidType(says) ==
  CASE says = "timeout"     -> "timeout"
    [] says = "rate limit"  -> "rate_limit"
    [] says = "unavailable" -> "upstream_503"
    [] says = "network"     -> "transient"
    [] OTHER                -> "unknown"

ErrorType(e) ==
  CASE e.class = "unsupported_symbol" -> "unsupported"
    [] e.class = "rate_limited"       -> "rate_limit"
    [] e.class = "malformed"          -> "malformed"
    [] e.class = "unavailable"        -> "transient"
    [] e.class = "request" /\ e.code = 429 -> "rate_limit"
    [] e.class = "request" /\ e.code = 503 -> "upstream_503"
    [] e.class = "request" /\ e.code \in {408, 425, 500, 502, 504} -> "transient"
    [] OTHER -> SaidType(e.says)

FailureStatus(e) ==
  IF ErrorType(e) = "malformed" \/ (ErrorType(e) = "unknown" /\ e.class = "other")
  THEN "failed" ELSE "unavailable"

Errors ==
  [class : {"rate_limited", "malformed", "unavailable"}, code : {0}, says : {""}]
  \cup [class : {"request"}, code : {404, 429, 503, 504}, says : {""}]
  \cup [class : {"other"}, code : {0},
        says : {"timeout", "rate limit", "unavailable", "network", ""}]

(* What the client is told of an answer: buildCandleSnapshotResult.        *)
Freshness(a) ==
  CASE a.status = "loaded" -> "live"
    [] a.status = "stale"  -> "stale"
    [] OTHER               -> "unavailable"

-----------------------------------------------------------------------------
UsableAt(e, t) == e # NoEntry /\ e.at + UsableTtl > t
FreshAt(e, t)  == e # NoEntry /\ e.at + FreshTtl > t
Cooling        == failure.until > now          \* getActiveCandleFailure
Marked         == unsupported > now   \* getActiveUnsupportedCandleCapability

(* registerCandleFailure: the delay doubles while failures are registered  *)
(* before the cooldown of the one before has been looked up and forgotten. *)
Registered ==
  LET delay == IF failure = NoFailure THEN CooldownBase
                                      ELSE Smaller(2 * failure.delay, CooldownMax)
  IN  [until |-> now + delay, delay |-> delay]

(* Looking up a cooldown that has ended forgets it.                        *)
LookedUp == IF Cooling THEN failure ELSE NoFailure

Answer(c, a) == answers' = [answers EXCEPT ![c] = a]
Ends(c)      == calls' = [calls EXCEPT ![c] = Idle]

(* buildResultFromCache and buildResultFromRefreshOutcome.  The age is that *)
(* of the candles when the request came.                                   *)
WithCandles(call, e, status) ==
  [status |-> status, age |-> call.began - e.at]
WithoutCandles(status) ==
  [status |-> status, age |-> 0]

JoinsFlight(limit) == flight # NoJob /\ jobs[flight].limit >= Fetched(limit)

(* startCandleRefresh: a new job for more candles takes over the flight.   *)
Enqueues(j, limit) ==
  /\ jobs[j] = FreeJob
  /\ j = CHOOSE k \in Job : jobs[k] = FreeJob
  /\ jobs' = [jobs EXCEPT ![j] = [stage |-> "queued", limit |-> Fetched(limit)]]
  /\ flight' = j

(* The exchange does not support these candles: what is cached may do.     *)
AnswersUnsupported(c, call) ==
  /\ Marked
  /\ Answer(c, IF UsableAt(call.cached, call.began)
               THEN WithCandles(call, call.cached, "stale")
               ELSE WithoutCandles("unavailable"))
  /\ Ends(c)
  /\ UNCHANGED <<failure, flight, jobs>>

(* Stale while it revalidates, unless the exchange needs a rest.           *)
AnswersStale(c, call) ==
  /\ ~Marked /\ UsableAt(call.cached, call.began)
  /\ Answer(c, WithCandles(call, call.cached, "stale"))
  /\ Ends(c)
  /\ failure' = LookedUp
  /\ IF Cooling \/ JoinsFlight(call.limit) THEN UNCHANGED <<flight, jobs>>
                                           ELSE \E j \in Job : Enqueues(j, call.limit)

AnswersCooling(c, call) ==
  /\ ~Marked /\ ~UsableAt(call.cached, call.began) /\ Cooling
  /\ Answer(c, WithoutCandles("unavailable"))
  /\ Ends(c)
  /\ UNCHANGED <<failure, flight, jobs>>

(* Nothing to show: the call waits for a refresh.                          *)
AwaitsRefresh(c, call) ==
  LET waits(j) == calls' = [calls EXCEPT ![c] =
                    [call EXCEPT !.stage = "waiting", !.job = j]]
  IN  /\ ~Marked /\ ~UsableAt(call.cached, call.began) /\ ~Cooling
      /\ failure' = LookedUp
      /\ IF JoinsFlight(call.limit)
         THEN waits(flight) /\ UNCHANGED <<flight, jobs>>
         ELSE \E j \in Job : Enqueues(j, call.limit) /\ waits(j)
      /\ Answer(c, Unasked)

(* resolveCandleSnapshot from the fresh cached candles on.  The mark that  *)
(* has expired is forgotten when it is looked up.                          *)
Decides(c, call) ==
  /\ unsupported' = IF Marked THEN unsupported ELSE 0
  /\ \/ AnswersUnsupported(c, call) \/ AnswersStale(c, call)
     \/ AnswersCooling(c, call) \/ AwaitsRefresh(c, call)

(* Variant: enough candles are a hit whatever their age.                   *)
HitsEnough(call, e) == e # NoEntry /\ e.points >= call.limit

Hits(call, e) == FreshAt(e, call.began) /\ e.points >= call.limit

Serves(c, call) ==
  IF Hits(call, call.cached)
  THEN /\ Answer(c, WithCandles(call, call.cached, "loaded"))
       /\ Ends(c)
       /\ UNCHANGED <<failure, unsupported, flight, jobs>>
  ELSE Decides(c, call)

(* A request: its candles are in memory, or Redis is read first.           *)
Asks(c) ==
  /\ calls[c].stage = "idle"
  /\ \E limit \in Limit :
       LET call == [Idle EXCEPT !.limit = limit, !.began = now,
                                !.cached = memory]
       IN  IF memory = NoEntry
           THEN /\ calls' = [calls EXCEPT ![c] = [call EXCEPT !.stage = "reading"]]
                /\ Answer(c, Unasked)
                /\ UNCHANGED <<failure, unsupported, flight, jobs>>
           ELSE Serves(c, call)
  /\ UNCHANGED <<now, memory, redis, writing>>

(* readRedisCandleSnapshot answers, or fails.  What it found becomes the   *)
(* memory's entry, whatever has been put there in the meantime.            *)
Reads(c) ==
  /\ calls[c].stage = "reading"
  /\ \E found \in {NoEntry} \cup {e \in {redis} : UsableAt(e, now)} :
       LET call == [calls[c] EXCEPT !.cached = found]
       IN  /\ memory' = IF found = NoEntry THEN memory ELSE found
           /\ Serves(c, call)
  /\ UNCHANGED <<now, redis, writing>>

-----------------------------------------------------------------------------
(* pump: the slots are shared with the refreshes of every other market.    *)
JobStarts(j) ==
  /\ jobs[j].stage = "queued"
  /\ jobs' = [jobs EXCEPT ![j].stage = "running"]
  /\ UNCHANGED <<now, memory, redis, writing, failure, unsupported, flight,
                 calls, answers>>

(* The job ends, its flight unless it was replaced, and the calls that     *)
(* wait for it get their answers.                                          *)
JobEnds(j, reply) ==
  /\ jobs[j].stage = "running"
  /\ jobs' = [jobs EXCEPT ![j] = FreeJob]
  /\ flight' = IF flight = j THEN NoJob ELSE flight
  /\ calls' = [c \in Caller |-> IF calls[c].job = j THEN Idle ELSE calls[c]]
  /\ answers' = [c \in Caller |-> IF calls[c].job = j THEN reply[c]
                                                      ELSE answers[c]]

(* The write under way lands or fails; writes are made in order.           *)
Landed == IF writing = NoEntry THEN {redis} ELSE {redis, writing}

(* mergeCandleItems: candles of two answers overlap, so there may be as    *)
(* few as in the larger and as many as in both.                            *)
Loads(j) ==
  \E points \in 1 .. jobs[j].limit :
    LET entry == [at |-> now, points |-> Larger(points, memory.points)]
    IN  /\ memory' = entry
        /\ failure' = NoFailure /\ unsupported' = 0
        /\ writing' = entry
        /\ redis' \in Landed
        /\ JobEnds(j, [c \in Caller |-> WithCandles(calls[c], entry, "loaded")])
        /\ UNCHANGED now

(* An empty answer counts as a failure; an error is classified.            *)
Fails(j) ==
  \E status \in {"empty"} \cup {FailureStatus(e) : e \in Errors} :
    /\ failure' = Registered
    /\ JobEnds(j, [c \in Caller |-> WithoutCandles(status)])
    /\ UNCHANGED <<now, memory, redis, writing, unsupported>>

FailsUnsupported(j) ==
  /\ failure' = NoFailure
  /\ unsupported' = now + UnsupportedTtl
  /\ JobEnds(j, [c \in Caller |-> WithoutCandles("unavailable")])
  /\ UNCHANGED <<now, memory, redis, writing>>

Writes ==
  /\ writing # NoEntry
  /\ writing' = NoEntry
  /\ redis' \in Landed
  /\ UNCHANGED <<now, memory, failure, unsupported, flight, jobs, calls, answers>>

Tick ==
  /\ now < MaxTime
  /\ now' = now + 1
  /\ UNCHANGED <<memory, redis, writing, failure, unsupported, flight, jobs,
                 calls, answers>>

Next ==
  \/ \E c \in Caller : Asks(c) \/ Reads(c)
  \/ \E j \in Job : JobStarts(j) \/ Loads(j) \/ Fails(j) \/ FailsUnsupported(j)
  \/ Writes \/ Tick

Spec == Init /\ [][Next]_vars

-----------------------------------------------------------------------------
(* No candles come out too old: a live answer shows candles no older than  *)
(* FreshTtl when the request came, any other no older than UsableTtl,      *)
(* whether memory, Redis or somebody else's refresh supplied them.         *)
CandlesInTime ==
  \A c \in Caller :
    LET a == answers[c]
    IN  /\ Freshness(a) = "live"  => a.age < FreshTtl
        /\ Freshness(a) = "stale" => a.age < UsableTtl

=============================================================================
