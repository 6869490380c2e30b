--------------------------- MODULE MarketDataStore ---------------------------
(***************************************************************************)
(* PublicMarketDataStore (src/modules/public-market/market.data.store.ts)  *)
(* and the trend projection it feeds                                       *)
(* (src/domains/market-data/market-trend.projection.ts), for one market.   *)
(* Streams and overlapping polls deliver tickers and trades in any order   *)
(* of their exchange timestamps; a write-behind timer copies the newest    *)
(* value of each cache key to Redis.                                       *)
(***************************************************************************)
EXTENDS Integers, Sequences

CONSTANTS
  Price,
  MaxStamp,                    \* exchange timestamps are 1 .. MaxStamp
  TickerGap, TradeGap,         \* resolveMinSampleIntervalMs
  TradeLimit, HistoryLimit, TrendLimit,
  MaxFlight                    \* bound on the pipelines under way

(* Gaps and limits are positive.                                           *)
StoreAssumption ==
  /\ MaxStamp \in Nat /\ MaxFlight \in Nat
  /\ {TickerGap, TradeGap, TradeLimit, HistoryLimit, TrendLimit} \subseteq Nat \ {0}

VARIABLES
  ticker,       \* tickers.get(key)
  tickerHistory,      \* tickerHistory.get(key)
  trades,       \* trades.get(key), newest arrival first
  trend,        \* points of the trend projection
  pending,      \* pendingPersists
  timer,        \* persistTimer is set
  flight,       \* pipelines handed to Redis, in order
  redis,        \* what Redis holds
  lost          \* history: keys whose newest value failed with its pipeline

storeVars == <<ticker, tickerHistory, trades, trend, pending, timer, flight, redis, lost>>

Stamp   == 1 .. MaxStamp
Quote   == [price : Price, at : Stamp]
CacheKey == {"ticker", "trades"}
Nothing == <<>>

UpTo(S, n) == UNION {[1 .. k -> S] : k \in 0 .. n}

(* A cached value is the sequence of quotes it serialises.                 *)
Cached(key, t, ts) == IF key = "trades" THEN ts ELSE t
Batch == [CacheKey -> UpTo(Quote, TradeLimit)]
Empty == [key \in CacheKey |-> Nothing]

StoreTypeOK ==
  /\ ticker \in UpTo(Quote, 1)
  /\ tickerHistory \in UpTo(Quote, HistoryLimit)
  /\ trades \in UpTo(Quote, TradeLimit)
  /\ trend \in UpTo(Quote, TrendLimit)
  /\ pending \in Batch /\ redis \in Batch
  /\ timer \in BOOLEAN
  /\ flight \in Seq(Batch) /\ Len(flight) <= MaxFlight
  /\ lost \subseteq CacheKey

StoreInit ==
  /\ ticker = Nothing /\ tickerHistory = Nothing
  /\ trades = Nothing /\ trend = Nothing
  /\ pending = Empty /\ redis = Empty
  /\ timer = FALSE
  /\ flight = <<>>
  /\ lost = {}

Newest(seq, n) == SubSeq(seq, IF Len(seq) > n THEN Len(seq) - n + 1 ELSE 1,
                         Len(seq))
Later(a, b) == IF a >= b THEN a ELSE b
Last(seq) == seq[Len(seq)]

-----------------------------------------------------------------------------
(* appendTickerHistory: equal observations are kept once.                  *)
Remembered(q) ==
  IF tickerHistory # Nothing /\ Last(tickerHistory) = q
  THEN tickerHistory ELSE Newest(Append(tickerHistory, q), HistoryLimit)

(* record: a point within the sampling interval updates the last one.      *)
Recorded(q, gap) ==
  IF trend = Nothing \/ Later(q.at - Last(trend).at, 0) >= gap
  THEN Newest(Append(trend, q), TrendLimit)
  ELSE [trend EXCEPT ![Len(trend)] =
          [price |-> q.price, at |-> Later(@.at, q.at)]]

(* Variant: a key that waits for the timer keeps its value.                *)
ScheduleFirst(keys, t, ts) ==
  /\ pending' = [k \in CacheKey |-> IF k \in keys /\ pending[k] = Nothing
                                    THEN Cached(k, t, ts) ELSE pending[k]]
  /\ timer' = TRUE
  /\ lost' = lost \ keys

(* schedulePersist: the newest value of a key wins.                        *)
Schedule(keys, t, ts) ==
  /\ pending' = [k \in CacheKey |-> IF k \in keys THEN Cached(k, t, ts)
                                                  ELSE pending[k]]
  /\ timer' = TRUE
  /\ lost' = lost \ keys

UpsertTicker(q) ==
  /\ ticker' = <<q>>
  /\ tickerHistory' = Remembered(q)
  /\ trend' = Recorded(q, TickerGap)
  /\ Schedule({"ticker"}, ticker', trades)
  /\ UNCHANGED <<trades, flight, redis>>

RefreshesTicker(q) == ticker # Nothing /\ q.at >= ticker[1].at

Newer(q, seq) ==
  SubSeq(<<q>> \o seq, 1, IF Len(seq) < TradeLimit THEN Len(seq) + 1
                                                   ELSE TradeLimit)

(* appendTrade and refreshTickerFromTrade.                                 *)
AppendTrade(q) ==
  /\ trades' = Newer(q, trades)
  /\ trend' = Recorded(q, TradeGap)
  /\ IF RefreshesTicker(q)
     THEN /\ ticker' = <<q>>
          /\ tickerHistory' = Remembered(q)
          /\ Schedule(CacheKey, ticker', trades')
     ELSE /\ UNCHANGED <<ticker, tickerHistory>>
          /\ Schedule({"trades"}, ticker, trades')
  /\ UNCHANGED <<flight, redis>>

(* flushPendingPersists up to its await: pipelines run in order.           *)
Flush ==
  /\ timer /\ timer' = FALSE
  /\ Len(flight) < MaxFlight
  /\ flight' = IF pending = Empty THEN flight ELSE Append(flight, pending)
  /\ pending' = Empty
  /\ UNCHANGED <<ticker, tickerHistory, trades, trend, redis, lost>>

(* The batches that will run after the first pipeline under way.           *)
Waiting == {pending} \cup {flight[i] : i \in 2 .. Len(flight)}

Stores(batch) ==
  [k \in CacheKey |-> IF batch[k] = Nothing THEN redis[k] ELSE batch[k]]

Exec ==
  /\ flight # <<>>
  /\ redis' = Stores(Head(flight)) /\ flight' = Tail(flight)
  /\ UNCHANGED <<ticker, tickerHistory, trades, trend, pending, timer, lost>>

(* Some or all commands of the pipeline fail; their values were taken from *)
(* pendingPersists before and are not tried again.                         *)
ExecFails ==
  /\ flight # <<>>
  /\ \E bad \in SUBSET {k \in CacheKey : Head(flight)[k] # Nothing} \ {{}} :
       /\ redis' = [k \in CacheKey |-> IF k \in bad THEN redis[k]
                                      ELSE Stores(Head(flight))[k]]
       /\ lost' = lost \cup
            {k \in bad : \A batch \in Waiting : batch[k] = Nothing}
  /\ flight' = Tail(flight)
  /\ UNCHANGED <<ticker, tickerHistory, trades, trend, pending, timer>>

StoreNext ==
  \/ \E q \in Quote : UpsertTicker(q) \/ AppendTrade(q)
  \/ Flush \/ Exec \/ ExecFails

StoreSpec == StoreInit /\ [][StoreNext]_storeVars

(* The timer fires, and a pipeline ends one way or the other.              *)
FairStoreSpec == StoreSpec /\ WF_storeVars(Flush) /\ WF_storeVars(Exec \/ ExecFails)

-----------------------------------------------------------------------------
(* The trend is a time series: its points are in order and at least the    *)
(* shorter sampling interval apart, whatever the order of arrival.         *)
TrendOrdered ==
  LET gap == IF TickerGap <= TradeGap THEN TickerGap ELSE TradeGap
  IN  \A i \in 1 .. Len(trend) - 1 : trend[i + 1].at - trend[i].at >= gap

(* What Redis holds and will hold, batch by batch.                         *)
Queue == <<redis>> \o flight \o <<pending>>

(* No update is forgotten: unless a pipeline failed with it, the newest    *)
(* value of a key is in Redis or on its way, behind any older one, and     *)
(* what waits has a timer.                                                 *)
NothingForgotten ==
  /\ \A k \in CacheKey \ lost :
       \E i \in DOMAIN Queue :
         /\ Queue[i][k] = Cached(k, ticker, trades)
         /\ i = 1 \/ Queue[i][k] # Nothing
         /\ \A j \in DOMAIN Queue : j > i => Queue[j][k] = Nothing
  /\ pending # Empty => timer

(* Redis catches up: once pipelines have ceased to fail, a value arrives   *)
(* unless it is replaced before, or was lost with an earlier pipeline.     *)
RedisCatchesUp ==
  <>[][~ExecFails]_storeVars =>
    \A q \in Quote :
      ticker = <<q>> ~> redis["ticker"] = <<q>> \/ ticker # <<q>>
                        \/ "ticker" \in lost
=============================================================================
