------------------------------ MODULE PartsProofs ------------------------------
(* Proofs about parts of the server that share a module with no other proof:  *)
(* what the end of the websocket servers leaves behind, for any number of     *)
(* connections (ServerLifecycle); the order of a trend and what is on its way *)
(* to Redis, for any quotes, sampling intervals and limits (MarketDataStore); *)
(* how long a call of the REST client takes, for any attempts and durations   *)
(* (RestClient); what the row of an exchange connection and the records of    *)
(* orders say, for any number of overlapping requests (PrivateOperations);    *)
(* what subscribers were shown, for any clients and markets (PublicFanout);   *)
(* what sums over sets are, and the books of paper orders, for any orders and *)
(* prices (PaperOrders).                                                      *)
EXTENDS ServerLifecycle, MarketDataStore, RestClient, PrivateOperations,
        FiniteSetTheorems, WellFoundedInduction, TLAPS

CONSTANTS Client, Market, Channel, MaxPublic, MaxMessages, MaxNumber
VARIABLES socket, count, subs, held, published, shown
FO == INSTANCE PublicFanout

-----------------------------------------------------------------------------
(* A server that is closing or closed has no open client, because it got   *)
(* there when the shutdown closed them all and it welcomes none since.     *)
ServerInv ==
  /\ ServerTypeOK
  /\ stage \in {"up", "collector"} => server = "running"
  /\ stage = "sockets" => server = "closing"
  /\ stage \in {"http", "database"} => server = "closed"
  /\ NoClientLeft /\ NoGhostClient

LEMMA StageNames ==
  {Stages[i] : i \in DOMAIN Stages}
    = {"up", "collector", "sockets", "http", "database", "exited"}
  BY DEF Stages

LEMMA ServerStarts == ServerInit => ServerInv
  BY DEF ServerInit, ServerInv, ServerTypeOK, Stages, Held, Upgraded,
         NoClientLeft, NoGhostClient

(* A client is welcomed by a running server only, so long before any of    *)
(* the servers has closed.                                                 *)
LEMMA WelcomeStep ==
  ASSUME ServerInv, NEW c \in Connection, Up, server = "running",
         Welcomed(c), UNCHANGED <<answers, ProcessVars>>,
         route' \in [Connection -> {"none", "market", "trading", "other"}]
  PROVE  ServerInv'
<1> USE DEF ServerInv, ServerTypeOK, Held, Upgraded, Welcomed,
            Becomes, ProcessVars
<1>1. ServerTypeOK'
  OBVIOUS
<1>2. stage \in {"up", "collector"}
  BY StageNames DEF Up
<1>3. NoGhostClient'
  BY DEF NoGhostClient
<1> QED
  BY <1>1, <1>2, <1>3 DEF NoClientLeft

(* The steps of one connection.                                            *)
LEMMA ConnectionStep ==
  ASSUME ServerInv, NEW c \in Connection,
         \/ RequestsUpgrade(c) \/ Verified(c) \/ Rejected(c)
         \/ Closed(c) \/ Leaves(c) \/ Hangs(c) \/ Pongs(c)
  PROVE  ServerInv'
<1> USE DEF ServerInv, ServerTypeOK, Held, Upgraded, NoClientLeft,
            NoGhostClient, Becomes, ProcessVars
<1>1. CASE RequestsUpgrade(c)
  <2>1. CASE Welcomed(c)
    BY <1>1, <2>1, WelcomeStep DEF RequestsUpgrade
  <2>2. CASE ~Welcomed(c)
    BY <1>1, <2>2 DEF RequestsUpgrade
  <2> QED
    BY <2>1, <2>2
<1>2. CASE Verified(c)
  <2>1. CASE server = "running"
    BY <1>2, <2>1, WelcomeStep DEF Verified
  <2>2. CASE server = "closing"
    BY <1>2, <2>2 DEF Verified
  <2>3. CASE server = "closed"
    BY <1>2, <2>3 DEF Verified
  <2> QED
    BY <1>2, <2>1, <2>2, <2>3 DEF Verified
<1>3. CASE Rejected(c)
  BY <1>3 DEF Rejected
<1>4. CASE Closed(c)
  BY <1>4 DEF Closed
<1>5. CASE Leaves(c)
  BY <1>5 DEF Leaves
<1>6. CASE Hangs(c)
  BY <1>6 DEF Hangs
<1>7. CASE Pongs(c)
  BY <1>7 DEF Pongs
<1> QED
  BY <1>1, <1>2, <1>3, <1>4, <1>5, <1>6, <1>7

LEMMA ServerStep == ASSUME ServerInv, [ServerNext]_serverVars PROVE ServerInv'
<1> USE DEF ServerInv, ServerTypeOK, Held, Upgraded, NoClientLeft,
            NoGhostClient, SocketVars, ProcessVars
<1>1. CASE HeartbeatFires
  BY <1>1 DEF HeartbeatFires
<1>2. CASE CollectorStarts \/ CollectorStops
  BY <1>2 DEF CollectorStarts, CollectorStops
<1>3. CASE ShutdownBegins
  BY <1>3, StageNames DEF ShutdownBegins
<1>4. CASE SocketsClose
  <2>1. /\ ServerTypeOK' /\ stage' = "sockets" /\ server' = "closing"
        /\ known' = {}
    BY <1>4, StageNames DEF SocketsClose
  <2> QED
    BY <2>1
<1>5. CASE ServersClosed
  BY <1>5, StageNames DEF ServersClosed
<1>6. CASE AppCloses
  BY <1>6, StageNames DEF AppCloses
<1>7. CASE Disconnects \/ ShutdownFails \/ Forced \/ Killed
  BY <1>7, StageNames
  DEF Disconnects, ShutdownFails, Forced, Killed, Exits
<1>8. CASE UNCHANGED serverVars
  BY <1>8 DEF serverVars
<1> QED
  BY <1>1, <1>2, <1>3, <1>4, <1>5, <1>6, <1>7, <1>8, ConnectionStep DEF ServerNext

(* When the websocket servers have closed no connection is left open, and  *)
(* their maps never hold a client whose socket is gone, however upgrades,  *)
(* heartbeats and clients interleave with the shutdown                     *)
(* (closeWebSocketServer).                                                 *)
THEOREM NobodyLeftOpenHolds ==
  ServerSpec => []NobodyLeftOpen
<1>1. ServerSpec => []ServerInv
  BY ServerStarts, ServerStep, PTL DEF ServerSpec
<1>2. ServerInv => NobodyLeftOpen
  BY DEF ServerInv, NobodyLeftOpen
<1> QED
  BY <1>1, <1>2, PTL

-----------------------------------------------------------------------------
(* Lists are sequences of at most a number of elements.                    *)
LEMMA UpToIsSeq ==
  ASSUME NEW S, NEW n \in Nat, NEW s
  PROVE  s \in UpTo(S, n) <=> s \in Seq(S) /\ Len(s) <= n
<1>1. ASSUME s \in UpTo(S, n) PROVE s \in Seq(S) /\ Len(s) <= n
  <2>1. PICK k \in 0 .. n : s \in [1 .. k -> S]
    BY <1>1 DEF UpTo
  <2> QED
    BY <2>1
<1>2. ASSUME s \in Seq(S), Len(s) <= n PROVE s \in UpTo(S, n)
  <2>1. s \in [1 .. Len(s) -> S] /\ Len(s) \in 0 .. n
    BY <1>2
  <2> QED
    BY <2>1 DEF UpTo
<1> QED
  BY <1>1, <1>2

(* What is kept of a list are its last elements, in their order.           *)
LEMMA NewestKept ==
  ASSUME NEW S, NEW n \in Nat \ {0}, NEW s \in Seq(S)
  PROVE  /\ Newest(s, n) \in Seq(S)
         /\ Len(Newest(s, n)) = IF Len(s) > n THEN n ELSE Len(s)
         /\ \A i \in 1 .. Len(Newest(s, n)) :
              Newest(s, n)[i]
                = s[i + (IF Len(s) > n THEN Len(s) - n ELSE 0)]
<1>1. CASE Len(s) > n
  <2> DEFINE first == Len(s) - n + 1
  <2>1. Newest(s, n) = SubSeq(s, first, Len(s))
    BY <1>1 DEF Newest
  <2>2. /\ SubSeq(s, first, Len(s)) \in Seq(S)
        /\ Len(SubSeq(s, first, Len(s))) = n
        /\ \A i \in 1 .. n : SubSeq(s, first, Len(s))[i] = s[i + Len(s) - n]
    BY <1>1
  <2> QED
    BY <1>1, <2>1, <2>2, SMT
<1>2. CASE ~(Len(s) > n)
  <2>1. Newest(s, n) = SubSeq(s, 1, Len(s))
    BY <1>2 DEF Newest
  <2>2. /\ SubSeq(s, 1, Len(s)) \in Seq(S)
        /\ Len(SubSeq(s, 1, Len(s))) = Len(s)
        /\ \A i \in 1 .. Len(s) : SubSeq(s, 1, Len(s))[i] = s[i]
    OBVIOUS
  <2> QED
    BY <1>2, <2>1, <2>2, SMT
<1> QED
  BY <1>1, <1>2

-----------------------------------------------------------------------------
(* record keeps a trend in order, and within its limit, whatever the time  *)
(* of the quote.                                                           *)
LEMMA RecordedOrdered ==
  ASSUME StoreAssumption, StoreTypeOK, TrendOrdered,
         NEW q \in Quote, NEW gap \in {TickerGap, TradeGap},
         trend' = Recorded(q, gap)
  PROVE  trend' \in UpTo(Quote, TrendLimit) /\ TrendOrdered'
<1> DEFINE least == IF TickerGap <= TradeGap THEN TickerGap ELSE TradeGap
<1>1. /\ TrendLimit \in Nat \ {0} /\ gap \in Nat \ {0}
      /\ least \in Nat \ {0} /\ least <= gap /\ MaxStamp \in Nat
  BY DEF StoreAssumption
<1>2. trend \in Seq(Quote) /\ Len(trend) <= TrendLimit
  BY <1>1, UpToIsSeq DEF StoreTypeOK
<1>3. q.at \in Int /\ \A i \in 1 .. Len(trend) : trend[i].at \in Int
  <2>1. \A p \in Quote : p.at \in Int
    BY <1>1 DEF Quote, Stamp
  <2>2. \A i \in 1 .. Len(trend) : trend[i] \in Quote
    BY <1>2
  <2> QED
    BY <2>1, <2>2
<1>4. \A i \in 1 .. Len(trend) - 1 : trend[i + 1].at - trend[i].at >= least
  BY DEF TrendOrdered
<1>5. ASSUME trend' \in Seq(Quote), Len(trend') <= TrendLimit,
             \A i \in 1 .. Len(trend') - 1 :
               trend'[i + 1].at - trend'[i].at >= least
      PROVE  trend' \in UpTo(Quote, TrendLimit) /\ TrendOrdered'
  BY <1>1, <1>5, UpToIsSeq DEF TrendOrdered
<1> DEFINE longer == Append(trend, q)
<1>6. CASE trend = Nothing
  <2>1. trend' = Newest(longer, TrendLimit) /\ longer = <<q>>
    BY <1>6 DEF Recorded, Nothing
  <2>2. longer \in Seq(Quote) /\ Len(longer) = 1
    BY <2>1
  <2> HIDE DEF longer
  <2>3. trend' \in Seq(Quote) /\ Len(trend') = 1
    <3>1. /\ Newest(longer, TrendLimit) \in Seq(Quote)
          /\ Len(Newest(longer, TrendLimit))
               = IF Len(longer) > TrendLimit THEN TrendLimit ELSE Len(longer)
      BY <1>1, <2>2, NewestKept
    <3> QED
      BY <1>1, <2>1, <2>2, <3>1
  <2> QED
    BY <1>1, <1>5, <2>3
<1>7. CASE trend # Nothing /\ Later(q.at - Last(trend).at, 0) >= gap
  <2>1. trend' = Newest(longer, TrendLimit)
    BY <1>7 DEF Recorded
  <2>2. longer \in Seq(Quote) /\ Len(longer) = Len(trend) + 1
    BY <1>2
  <2>3. Len(trend) > 0 /\ q.at - trend[Len(trend)].at >= gap
    BY <1>1, <1>2, <1>3, <1>7 DEF Later, Last, Nothing
  <2>4. \A i \in 1 .. Len(longer) - 1 : longer[i + 1].at - longer[i].at >= least
    BY <1>1, <1>2, <1>3, <1>4, <2>2, <2>3
  <2> HIDE DEF longer, least
  <2> DEFINE cut == IF Len(longer) > TrendLimit THEN Len(longer) - TrendLimit
                                                ELSE 0
  <2>5. /\ trend' \in Seq(Quote)
        /\ Len(trend') <= TrendLimit /\ Len(trend') + cut = Len(longer)
        /\ \A i \in 1 .. Len(trend') : trend'[i] = longer[i + cut]
    <3> DEFINE kept == Newest(longer, TrendLimit)
    <3>1. /\ kept \in Seq(Quote)
          /\ Len(kept) = IF Len(longer) > TrendLimit THEN TrendLimit
                                                     ELSE Len(longer)
          /\ \A i \in 1 .. Len(kept) : kept[i] = longer[i + cut]
      BY <1>1, <2>2, NewestKept
    <3> QED
      BY <1>1, <2>1, <2>2, <3>1
  <2>6. cut \in Nat
    BY <1>1, <2>2
  <2> HIDE DEF cut
  <2>7. ASSUME NEW i \in 1 .. Len(trend') - 1
        PROVE  trend'[i + 1].at - trend'[i].at >= least
    <3>1. i + cut \in 1 .. Len(longer) - 1 /\ (i + 1) + cut = (i + cut) + 1
      BY <2>5, <2>6, <2>2, <1>2
    <3> QED
      BY <2>4, <2>5, <3>1
  <2> QED
    BY <1>5, <2>5, <2>7
<1>8. CASE /\ trend # Nothing
           /\ ~(Later(q.at - Last(trend).at, 0) >= gap)
  <2> DEFINE n == Len(trend)
             point == [price |-> q.price, at |-> Later(trend[n].at, q.at)]
  <2>1. trend' = [trend EXCEPT ![n] = point] /\ n \in Nat \ {0}
    BY <1>2, <1>8 DEF Recorded, Nothing
  <2>2. /\ point \in Quote
        /\ point.at \in Int /\ point.at >= trend[n].at
    <3>1. trend[n] \in Quote /\ trend[n].at \in Int
      BY <1>2, <1>3, <2>1
    <3> QED
      BY <1>1, <1>3, <3>1 DEF Quote, Stamp, Later
  <2> HIDE DEF point, least
  <2>3. trend' \in Seq(Quote) /\ Len(trend') = n
    BY <1>2, <2>1, <2>2
  <2>4. \A i \in 1 .. n : trend'[i] = IF i = n THEN point ELSE trend[i]
    BY <1>2, <2>1
  <2>5. ASSUME NEW i \in 1 .. n - 1
        PROVE  trend'[i + 1].at - trend'[i].at >= least
    <3>1. /\ i \in 1 .. n /\ i + 1 \in 1 .. n /\ i # n
          /\ trend[i + 1].at - trend[i].at >= least
          /\ trend[i].at \in Int /\ trend[i + 1].at \in Int
      BY <1>2, <1>3, <1>4
    <3>2. trend'[i] = trend[i] /\ (i + 1 # n => trend'[i + 1] = trend[i + 1])
      BY <2>4, <3>1
    <3>3. CASE i + 1 = n
      BY <1>1, <2>2, <2>4, <3>1, <3>2, <3>3
    <3> QED
      BY <3>1, <3>2, <3>3
  <2> QED
    BY <1>2, <1>5, <2>3, <2>5
<1> QED
  BY <1>6, <1>7, <1>8

-----------------------------------------------------------------------------
StoreInv == StoreTypeOK /\ TrendOrdered /\ NothingForgotten

LEMMA Limits ==
  ASSUME StoreAssumption
  PROVE  /\ TradeLimit \in Nat \ {0} /\ HistoryLimit \in Nat \ {0}
         /\ TrendLimit \in Nat \ {0}
         /\ TickerGap \in Nat \ {0} /\ TradeGap \in Nat \ {0}
         /\ MaxStamp \in Nat /\ MaxFlight \in Nat
  BY DEF StoreAssumption

LEMMA ShortLists ==
  ASSUME NEW S, NEW n \in Nat
  PROVE  /\ Nothing \in UpTo(S, n)
         /\ n > 0 => \A q \in S : <<q>> \in UpTo(S, n)
<1>1. <<>> \in [1 .. 0 -> S]
  OBVIOUS
<1>2. \A q \in S : <<q>> \in [1 .. 1 -> S]
  OBVIOUS
<1>3. 0 \in 0 .. n /\ (n > 0 => 1 \in 0 .. n)
  OBVIOUS
<1> QED
  BY <1>1, <1>2, <1>3 DEF UpTo, Nothing

(* The queue is what Redis holds, the pipelines in order, what waits.      *)
LEMMA QueueIs ==
  ASSUME NEW B, NEW r \in B, NEW p \in B, NEW f \in Seq(B)
  PROVE  LET queue == <<r>> \o f \o <<p>>
         IN  /\ DOMAIN queue = 1 .. Len(f) + 2
             /\ queue[1] = r /\ queue[Len(f) + 2] = p
             /\ \A i \in 1 .. Len(f) : queue[i + 1] = f[i]
<1> DEFINE front == <<r>> \o f
<1>1. <<r>> \in Seq(B) /\ <<p>> \in Seq(B) /\ Len(<<r>>) = 1 /\ Len(<<p>>) = 1
  OBVIOUS
<1>2. /\ front \in Seq(B) /\ Len(front) = Len(f) + 1 /\ front[1] = r
      /\ \A i \in 1 .. Len(f) : front[i + 1] = f[i]
  BY <1>1
<1> HIDE DEF front
<1>3. /\ front \o <<p>> \in Seq(B) /\ Len(front \o <<p>>) = Len(f) + 2
      /\ \A i \in 1 .. Len(f) + 1 : (front \o <<p>>)[i] = front[i]
      /\ (front \o <<p>>)[Len(f) + 2] = p
  BY <1>1, <1>2
<1> QED
  BY <1>2, <1>3 DEF front

LEMMA StoreStarts == ASSUME StoreAssumption, StoreInit PROVE StoreInv
<1>1. Empty \in Batch
  BY Limits, ShortLists DEF Empty, Batch
<1>2. flight \in Seq(Batch) /\ Len(flight) = 0
  BY DEF StoreInit
<1>3. StoreTypeOK
  <2>1. /\ Nothing \in UpTo(Quote, 1)
        /\ Nothing \in UpTo(Quote, HistoryLimit)
        /\ Nothing \in UpTo(Quote, TradeLimit)
        /\ Nothing \in UpTo(Quote, TrendLimit)
    BY Limits, ShortLists
  <2>2. /\ ticker \in UpTo(Quote, 1)
        /\ tickerHistory \in UpTo(Quote, HistoryLimit)
        /\ trades \in UpTo(Quote, TradeLimit)
        /\ trend \in UpTo(Quote, TrendLimit)
    BY <2>1 DEF StoreInit
  <2>3. /\ pending \in Batch /\ redis \in Batch
        /\ timer \in BOOLEAN /\ lost \subseteq CacheKey
    BY <1>1 DEF StoreInit
  <2>4. Len(flight) <= MaxFlight
    BY <1>2, Limits
  <2> QED
    BY <1>2, <2>2, <2>3, <2>4 DEF StoreTypeOK
<1>4. TrendOrdered
  BY DEF StoreInit, TrendOrdered, Nothing
<1>5. NothingForgotten
  <2>1. /\ DOMAIN Queue = 1 .. 2
        /\ Queue[1] = Empty /\ Queue[2] = Empty
    <3>1. redis = Empty /\ pending = Empty
      BY DEF StoreInit
    <3> QED
      BY <1>1, <1>2, <3>1, QueueIs DEF Queue
  <2>2. ASSUME NEW k \in CacheKey
        PROVE  /\ Queue[1][k] = Cached(k, ticker, trades)
               /\ \A j \in DOMAIN Queue : Queue[j][k] = Nothing
    BY <2>1 DEF StoreInit, Empty, Cached
  <2> QED
    BY <2>1, <2>2 DEF NothingForgotten, StoreInit
<1> QED
  BY <1>3, <1>4, <1>5 DEF StoreInv

(* appendTickerHistory and appendTrade keep their lists within limits.     *)
LEMMA RememberedTyped ==
  ASSUME StoreAssumption, StoreTypeOK, NEW q \in Quote
  PROVE  Remembered(q) \in UpTo(Quote, HistoryLimit)
<1> DEFINE longer == Append(tickerHistory, q)
<1>1. tickerHistory \in Seq(Quote)
  BY Limits, UpToIsSeq DEF StoreTypeOK
<1>2. longer \in Seq(Quote)
  BY <1>1
<1> HIDE DEF longer
<1>3. /\ Newest(longer, HistoryLimit) \in Seq(Quote)
      /\ Len(Newest(longer, HistoryLimit)) <= HistoryLimit
  BY <1>2, Limits, NewestKept
<1>4. Newest(longer, HistoryLimit) \in UpTo(Quote, HistoryLimit)
  BY <1>3, Limits, UpToIsSeq
<1> QED
  BY <1>4 DEF Remembered, StoreTypeOK, longer

LEMMA NewerTyped ==
  ASSUME StoreAssumption, StoreTypeOK, NEW q \in Quote
  PROVE  /\ Newer(q, trades) \in UpTo(Quote, TradeLimit)
         /\ Newer(q, trades) # Nothing
<1> DEFINE longer == <<q>> \o trades
           n == IF Len(trades) < TradeLimit THEN Len(trades) + 1
                                            ELSE TradeLimit
<1>1. trades \in Seq(Quote) /\ Len(trades) <= TradeLimit
  BY Limits, UpToIsSeq DEF StoreTypeOK
<1>2. longer \in Seq(Quote) /\ Len(longer) = Len(trades) + 1
  BY <1>1
<1>3. n \in 1 .. Len(longer) /\ n <= TradeLimit
  BY <1>1, <1>2, Limits
<1> HIDE DEF longer, n
<1>4. SubSeq(longer, 1, n) \in Seq(Quote) /\ Len(SubSeq(longer, 1, n)) = n
  BY <1>2, <1>3
<1>5. SubSeq(longer, 1, n) \in UpTo(Quote, TradeLimit)
  BY <1>3, <1>4, Limits, UpToIsSeq
<1>6. SubSeq(longer, 1, n) # <<>>
  BY <1>3, <1>4
<1> QED
  BY <1>5, <1>6 DEF Newer, Nothing, longer, n

-----------------------------------------------------------------------------
(* What QueueIs says of the queue before and after a step.                 *)
LEMMA QueueNow ==
  ASSUME StoreTypeOK
  PROVE  /\ DOMAIN Queue = 1 .. Len(flight) + 2 /\ Len(flight) \in Nat
         /\ Queue[1] = redis /\ Queue[Len(flight) + 2] = pending
         /\ \A i \in 1 .. Len(flight) : Queue[i + 1] = flight[i]
  BY QueueIs DEF StoreTypeOK, Queue

LEMMA QueueNext ==
  ASSUME StoreTypeOK'
  PROVE  /\ DOMAIN Queue' = 1 .. Len(flight') + 2 /\ Len(flight') \in Nat
         /\ Queue'[1] = redis' /\ Queue'[Len(flight') + 2] = pending'
         /\ \A i \in 1 .. Len(flight') : Queue'[i + 1] = flight'[i]
  BY QueueIs DEF StoreTypeOK, Queue

(* The value of a key that counts: the last one in the queue, or Redis'.   *)
Counts(queue, k, i, value) ==
  /\ queue[i][k] = value /\ (i = 1 \/ queue[i][k] # Nothing)
  /\ \A j \in DOMAIN queue : j > i => queue[j][k] = Nothing

(* schedulePersist: the newest value of a key that is scheduled counts,    *)
(* and of the others what counted before.                                  *)
LEMMA ScheduleStep ==
  ASSUME StoreTypeOK, StoreTypeOK', NothingForgotten,
         NEW keys \in SUBSET CacheKey,
         Schedule(keys, ticker', trades'), UNCHANGED <<flight, redis>>,
         \A k \in CacheKey :
           IF k \in keys THEN Cached(k, ticker', trades') # Nothing
           ELSE Cached(k, ticker', trades') = Cached(k, ticker, trades)
  PROVE  NothingForgotten'
<1> DEFINE n == Len(flight) + 2
<1>1. /\ DOMAIN Queue = 1 .. n /\ DOMAIN Queue' = 1 .. n /\ n \in Nat \ {0}
      /\ Queue'[n] = pending' /\ Queue[n] = pending
      /\ \A i \in 1 .. n - 1 : Queue'[i] = Queue[i]
  <2>1. flight' = flight /\ redis' = redis
    OBVIOUS
  <2>2. ASSUME NEW i \in 1 .. n - 1 PROVE Queue'[i] = Queue[i]
    <3>1. CASE i = 1
      BY <2>1, <3>1, QueueNow, QueueNext
    <3>2. CASE i # 1
      <4>1. i - 1 \in 1 .. Len(flight) /\ (i - 1) + 1 = i
        BY <3>2, QueueNow
      <4> QED
        BY <2>1, <4>1, QueueNow, QueueNext
    <3> QED
      BY <3>1, <3>2
  <2> QED
    BY <2>1, <2>2, QueueNow, QueueNext
<1> HIDE DEF n
<1>2. ASSUME NEW k \in CacheKey \ lost'
      PROVE  \E i \in DOMAIN Queue' :
               Counts(Queue', k, i, Cached(k, ticker', trades'))
  <2>1. CASE k \in keys
    <3>1. pending'[k] = Cached(k, ticker', trades')
      BY <2>1 DEF Schedule
    <3>2. Counts(Queue', k, n, Cached(k, ticker', trades'))
      BY <1>1, <2>1, <3>1 DEF Counts
    <3> QED
      BY <1>1, <3>2
  <2>2. CASE k \notin keys
    <3>1. k \notin lost /\ pending'[k] = pending[k]
      BY <2>2, <1>2 DEF Schedule
    <3>2. PICK i \in DOMAIN Queue :
            Counts(Queue, k, i, Cached(k, ticker, trades))
      BY <3>1 DEF NothingForgotten, Counts
    <3>3. \A j \in 1 .. n : Queue'[j][k] = Queue[j][k]
      BY <1>1, <3>1
    <3>4. Counts(Queue', k, i, Cached(k, ticker', trades'))
      BY <1>1, <2>2, <3>2, <3>3 DEF Counts
    <3> QED
      BY <1>1, <3>4
  <2> QED
    BY <2>1, <2>2
<1> QED
  BY <1>2 DEF NothingForgotten, Schedule, Counts

LEMMA ScheduleTyped ==
  ASSUME StoreAssumption, StoreTypeOK, NEW keys \in SUBSET CacheKey,
         Schedule(keys, ticker', trades'),
         "ticker" \in keys =>
            \E q \in Quote : ticker' = <<q>>,
         trades' \in UpTo(Quote, TradeLimit)
  PROVE  pending' \in Batch /\ timer' \in BOOLEAN /\ lost' \subseteq CacheKey
<1>1. "ticker" \in keys => ticker' \in UpTo(Quote, TradeLimit)
  BY Limits, ShortLists
<1>2. \A k \in keys :
        Cached(k, ticker', trades') \in UpTo(Quote, TradeLimit)
  BY <1>1 DEF Cached, CacheKey
<1>3. pending' \in Batch
  BY <1>2 DEF Schedule, StoreTypeOK, Batch
<1> QED
  BY <1>3 DEF Schedule, StoreTypeOK

LEMMA UpsertStep ==
  ASSUME StoreAssumption, StoreInv, NEW q \in Quote, UpsertTicker(q)
  PROVE  StoreInv'
<1> USE DEF StoreInv
<1>1. /\ ticker' = <<q>> /\ tickerHistory' = Remembered(q)
      /\ trend' = Recorded(q, TickerGap)
      /\ Schedule({"ticker"}, ticker', trades')
      /\ UNCHANGED <<trades, flight, redis>>
  BY DEF UpsertTicker
<1>2. trend' \in UpTo(Quote, TrendLimit) /\ TrendOrdered'
  BY <1>1, RecordedOrdered
<1>3. StoreTypeOK'
  <2>1. ticker' \in UpTo(Quote, 1)
    BY <1>1, ShortLists
  <2>2. tickerHistory' \in UpTo(Quote, HistoryLimit)
    BY <1>1, RememberedTyped
  <2>3. pending' \in Batch /\ timer' \in BOOLEAN /\ lost' \subseteq CacheKey
    BY <1>1, ScheduleTyped DEF CacheKey, StoreTypeOK
  <2> QED
    BY <1>1, <1>2, <2>1, <2>2, <2>3 DEF StoreTypeOK
<1>4. NothingForgotten'
  <2>1. \A k \in CacheKey :
          IF k \in {"ticker"} THEN Cached(k, ticker', trades') # Nothing
          ELSE Cached(k, ticker', trades') = Cached(k, ticker, trades)
    BY <1>1 DEF Cached, Nothing, CacheKey
  <2> QED
    BY <1>1, <1>3, <2>1, ScheduleStep DEF CacheKey
<1> QED
  BY <1>2, <1>3, <1>4

LEMMA TradeStep ==
  ASSUME StoreAssumption, StoreInv, NEW q \in Quote, AppendTrade(q)
  PROVE  StoreInv'
<1> USE DEF StoreInv
<1> DEFINE keys == IF RefreshesTicker(q) THEN CacheKey ELSE {"trades"}
<1>1. /\ trades' = Newer(q, trades) /\ trend' = Recorded(q, TradeGap)
      /\ Schedule(keys, ticker', trades')
      /\ IF RefreshesTicker(q)
         THEN ticker' = <<q>> /\ tickerHistory' = Remembered(q)
         ELSE UNCHANGED <<ticker, tickerHistory>>
      /\ UNCHANGED <<flight, redis>>
  BY DEF AppendTrade
<1>2. trend' \in UpTo(Quote, TrendLimit) /\ TrendOrdered'
  BY <1>1, RecordedOrdered
<1>3. keys \in SUBSET CacheKey /\ "trades" \in keys
      /\ ("ticker" \in keys => RefreshesTicker(q))
  BY DEF CacheKey
<1> HIDE DEF keys
<1>4. trades' \in UpTo(Quote, TradeLimit) /\ trades' # Nothing
  BY <1>1, NewerTyped
<1>5. StoreTypeOK'
  <2>1. ticker' \in UpTo(Quote, 1)
    BY <1>1, ShortLists DEF StoreTypeOK
  <2>2. tickerHistory' \in UpTo(Quote, HistoryLimit)
    BY <1>1, RememberedTyped DEF StoreTypeOK
  <2>3. pending' \in Batch /\ timer' \in BOOLEAN /\ lost' \subseteq CacheKey
    BY <1>1, <1>3, <1>4, ScheduleTyped
  <2> QED
    BY <1>1, <1>2, <1>4, <2>1, <2>2, <2>3 DEF StoreTypeOK
<1>6. NothingForgotten'
  <2>1. ASSUME NEW k \in CacheKey
        PROVE  IF k \in keys THEN Cached(k, ticker', trades') # Nothing
               ELSE Cached(k, ticker', trades') = Cached(k, ticker, trades)
    <3>1. CASE k = "trades"
      BY <1>3, <1>4, <3>1 DEF Cached
    <3>2. CASE k = "ticker"
      BY <1>1, <1>3, <3>2 DEF Cached, Nothing, keys, CacheKey
    <3> QED
      BY <3>1, <3>2 DEF CacheKey
  <2> QED
    BY <1>1, <1>3, <1>5, <2>1, ScheduleStep
<1> QED
  BY <1>2, <1>5, <1>6

(* What waits is handed over behind the pipelines under way, and nothing   *)
(* waits behind it: what counted, counts.                                  *)
LEMMA FlushStep ==
  ASSUME StoreAssumption, StoreInv, Flush
  PROVE  StoreInv'
<1> USE DEF StoreInv
<1>1. Empty \in Batch
  BY Limits, ShortLists DEF Empty, Batch
<1>2. StoreTypeOK'
  <2>1. flight' \in Seq(Batch) /\ Len(flight') <= MaxFlight
    BY Limits DEF Flush, StoreTypeOK
  <2> QED
    BY <1>1, <2>1 DEF Flush, StoreTypeOK
<1>3. TrendOrdered'
  BY DEF Flush, TrendOrdered
<1>4. NothingForgotten'
  <2>1. CASE pending = Empty
    BY <2>1 DEF Flush, NothingForgotten, Queue
  <2>2. CASE pending # Empty
    <3> DEFINE n == Len(flight) + 2
    <3>1. flight' = Append(flight, pending) /\ pending' = Empty /\ redis' = redis
      BY <2>2 DEF Flush
    <3>2. /\ flight \in Seq(Batch) /\ Len(flight') = Len(flight) + 1
          /\ flight'[Len(flight) + 1] = pending
          /\ \A i \in 1 .. Len(flight) : flight'[i] = flight[i]
      BY <3>1 DEF StoreTypeOK
    <3>3. /\ n \in Nat \ {0} /\ DOMAIN Queue = 1 .. n
          /\ DOMAIN Queue' = 1 .. n + 1 /\ Queue'[n + 1] = Empty
      BY <1>2, <3>1, <3>2, QueueNow, QueueNext
    <3>4. ASSUME NEW i \in 1 .. n PROVE Queue'[i] = Queue[i]
      <4>1. CASE i = 1
        BY <1>2, <3>1, <4>1, QueueNow, QueueNext
      <4>2. CASE i # 1
        <5>1. i - 1 \in 1 .. Len(flight') /\ (i - 1) + 1 = i
          BY <3>2, <4>2
        <5>2. Queue'[i] = flight'[i - 1]
          BY <1>2, <5>1, QueueNext
        <5>3. CASE i = n
          BY <3>2, <5>2, <5>3, QueueNow
        <5>4. CASE i # n
          <6>1. i - 1 \in 1 .. Len(flight)
            BY <3>2, <4>2, <5>4
          <6> QED
            BY <3>2, <5>1, <5>2, <6>1, QueueNow
        <5> QED
          BY <5>3, <5>4
      <4> QED
        BY <4>1, <4>2
    <3> HIDE DEF n
    <3>5. ASSUME NEW k \in CacheKey \ lost'
          PROVE  \E i \in DOMAIN Queue' :
                   Counts(Queue', k, i, Cached(k, ticker', trades'))
      <4>1. PICK i \in 1 .. n : Counts(Queue, k, i, Cached(k, ticker, trades))
        BY <3>3 DEF NothingForgotten, Counts, Flush
      <4>2. Queue'[n + 1][k] = Nothing
        BY <3>3 DEF Empty
      <4>3. ASSUME NEW j \in DOMAIN Queue', j > i
            PROVE  Queue'[j][k] = Nothing
        BY <3>3, <3>4, <4>1, <4>2, <4>3 DEF Counts
      <4>4. Counts(Queue', k, i, Cached(k, ticker', trades'))
        BY <3>4, <4>1, <4>3 DEF Counts, Flush
      <4> QED
        BY <3>3, <4>4
    <3> QED
      BY <3>1, <3>5 DEF NothingForgotten, Counts
  <2> QED
    BY <2>1, <2>2
<1> QED
  BY <1>2, <1>3, <1>4

(* The queue after the first pipeline under way has ended.                 *)
LEMMA ShorterQueue ==
  ASSUME StoreTypeOK, StoreTypeOK', flight # <<>>, flight' = Tail(flight),
         UNCHANGED pending
  PROVE  /\ DOMAIN Queue = 1 .. Len(flight) + 2 /\ Len(flight) \in Nat \ {0}
         /\ DOMAIN Queue' = 1 .. Len(flight) + 1
         /\ Queue[1] = redis /\ Queue'[1] = redis'
         /\ Queue[2] = Head(flight)
         /\ \A i \in 2 .. Len(flight) + 1 : Queue'[i] = Queue[i + 1]
<1>1. /\ flight \in Seq(Batch) /\ Len(flight) \in Nat \ {0}
      /\ Len(flight') = Len(flight) - 1 /\ Head(flight) = flight[1]
      /\ \A i \in 1 .. Len(flight) - 1 : flight'[i] = flight[i + 1]
  BY DEF StoreTypeOK
<1>2. Queue[2] = Head(flight)
  <2>1. 1 \in 1 .. Len(flight) /\ 1 + 1 = 2
    BY <1>1
  <2> QED
    BY <1>1, <2>1, QueueNow
<1>3. ASSUME NEW i \in 2 .. Len(flight) + 1 PROVE Queue'[i] = Queue[i + 1]
  <2>1. CASE i = Len(flight) + 1
    BY <1>1, <2>1, QueueNow, QueueNext
  <2>2. CASE i # Len(flight) + 1
    <3>1. /\ i - 1 \in 1 .. Len(flight) - 1 /\ (i - 1) + 1 = i
          /\ i \in 1 .. Len(flight) /\ i - 1 \in 1 .. Len(flight')
      BY <1>1, <2>2
    <3>2. Queue'[i] = flight'[i - 1]
      BY <3>1, QueueNext
    <3>3. flight'[i - 1] = flight[i]
      BY <1>1, <3>1
    <3> QED
      BY <3>1, <3>2, <3>3, QueueNow
  <2> QED
    BY <2>1, <2>2
<1> QED
  BY <1>1, <1>2, <1>3, QueueNow, QueueNext

(* After the first pipeline, of a key whose command did not fail what      *)
(* counted, counts; of a key whose command failed a later value does,      *)
(* unless the key is lost.                                                 *)
LEMMA PipelineEnds ==
  ASSUME StoreTypeOK, StoreTypeOK', NothingForgotten, flight # <<>>,
         flight' = Tail(flight), UNCHANGED <<ticker, tickerHistory, trades, trend, pending, timer>>,
         lost \subseteq lost',
         NEW bad \in SUBSET CacheKey,
         redis' = [k \in CacheKey |-> IF k \in bad THEN redis[k]
                                         ELSE Stores(Head(flight))[k]],
         \A k \in bad \ lost' :
           \E batch \in Waiting : batch[k] # Nothing
  PROVE  NothingForgotten'
<1> DEFINE n == Len(flight) + 2
<1>1. /\ n \in Nat /\ n >= 3 /\ DOMAIN Queue = 1 .. n /\ DOMAIN Queue' = 1 .. n - 1
      /\ Queue[1] = redis /\ Queue'[1] = redis' /\ Queue[2] = Head(flight)
      /\ \A i \in 2 .. n - 1 : Queue'[i] = Queue[i + 1]
  BY ShorterQueue
<1>2. ASSUME NEW k \in bad \ lost'
      PROVE  \E j \in 3 .. n : Queue[j][k] # Nothing
  <2>1. PICK batch \in Waiting : batch[k] # Nothing
    BY <1>2
  <2>2. CASE batch = pending
    BY <1>1, <2>1, <2>2, QueueNow
  <2>3. CASE \E i \in 2 .. Len(flight) : batch = flight[i]
    <3>1. PICK i \in 2 .. Len(flight) : batch = flight[i]
      BY <2>3
    <3>2. i \in 1 .. Len(flight) /\ i + 1 \in 3 .. n
      BY <1>1, QueueNow
    <3> QED
      BY <2>1, <3>1, <3>2, QueueNow
  <2> QED
    BY <2>1, <2>2, <2>3 DEF Waiting
<1> HIDE DEF n
<1>3. ASSUME NEW k \in CacheKey \ lost'
      PROVE  \E i \in DOMAIN Queue' :
               Counts(Queue', k, i, Cached(k, ticker', trades'))
  <2> DEFINE value == Cached(k, ticker, trades)
  <2>1. PICK i \in 1 .. n : Counts(Queue, k, i, value)
    BY <1>1 DEF NothingForgotten, Counts
  <2>2. value = Cached(k, ticker', trades')
    BY DEF Cached
  <2>3. redis'[k] = IF k \in bad \/ Head(flight)[k] = Nothing
                    THEN redis[k] ELSE Head(flight)[k]
    BY DEF Stores
  <2> HIDE DEF value
  <2>4. CASE i > 2
    <3>1. i - 1 \in 2 .. n - 1 /\ (i - 1) + 1 = i
      BY <1>1, <2>4
    <3>2. Queue'[i - 1][k] = value /\ Queue'[i - 1][k] # Nothing
      BY <1>1, <2>1, <2>4, <3>1 DEF Counts
    <3>3. ASSUME NEW j \in DOMAIN Queue', j > i - 1
          PROVE  Queue'[j][k] = Nothing
      <4>1. /\ j \in 2 .. n - 1 /\ j + 1 \in 1 .. n /\ j + 1 > i
        BY <1>1, <2>4, <3>3
      <4> QED
        BY <1>1, <2>1, <4>1 DEF Counts
    <3>4. Counts(Queue', k, i - 1, value)
      BY <3>2, <3>3 DEF Counts
    <3>5. i - 1 \in DOMAIN Queue'
      BY <1>1, <3>1
    <3> QED
      BY <2>2, <3>4, <3>5
  <2>5. CASE i <= 2
    <3>1. \A j \in 3 .. n : Queue[j][k] = Nothing
      BY <1>1, <2>1, <2>5 DEF Counts
    <3>2. k \notin bad
      BY <1>2, <1>3, <3>1
    <3>3. redis'[k] = value
      <4>1. CASE i = 1
        <5>1. Queue[1][k] = value
          BY <2>1, <4>1 DEF Counts
        <5>2. 2 \in DOMAIN Queue /\ 2 > i
          BY <1>1, <4>1
        <5>3. Queue[2][k] = Nothing
          BY <2>1, <5>2 DEF Counts
        <5> QED
          BY <1>1, <2>3, <5>1, <5>3
      <4>2. CASE i = 2
        <5>1. Queue[2][k] = value /\ value # Nothing
          BY <2>1, <4>2 DEF Counts
        <5> QED
          BY <1>1, <2>3, <3>2, <5>1
      <4> QED
        BY <2>5, <4>1, <4>2
    <3>4. ASSUME NEW j \in DOMAIN Queue', j > 1
          PROVE  Queue'[j][k] = Nothing
      <4>1. j \in 2 .. n - 1 /\ j + 1 \in 3 .. n
        BY <1>1, <3>4
      <4> QED
        BY <1>1, <3>1, <4>1
    <3>5. Counts(Queue', k, 1, value)
      BY <1>1, <3>3, <3>4 DEF Counts
    <3> QED
      BY <1>1, <2>2, <3>5
  <2> QED
    BY <1>1, <2>4, <2>5
<1> QED
  BY <1>3 DEF NothingForgotten, Counts

LEMMA PipelineTyped ==
  ASSUME StoreAssumption, StoreTypeOK, flight # <<>>, flight' = Tail(flight),
         UNCHANGED <<ticker, tickerHistory, trades, trend, pending, timer>>,
         NEW bad \in SUBSET CacheKey, lost' \subseteq CacheKey,
         redis' = [k \in CacheKey |-> IF k \in bad THEN redis[k]
                                         ELSE Stores(Head(flight))[k]]
  PROVE  StoreTypeOK'
<1>1. Head(flight) \in Batch /\ flight' \in Seq(Batch) /\ Len(flight') <= MaxFlight
  BY Limits DEF StoreTypeOK
<1>2. redis' \in Batch
  BY <1>1 DEF StoreTypeOK, Batch, Stores
<1> QED
  BY <1>1, <1>2 DEF StoreTypeOK

LEMMA ExecStep ==
  ASSUME StoreAssumption, StoreInv, Exec \/ ExecFails
  PROVE  StoreInv'
<1> USE DEF StoreInv
<1>1. TrendOrdered'
  BY DEF Exec, ExecFails, TrendOrdered
<1>2. /\ flight # <<>> /\ flight' = Tail(flight)
      /\ UNCHANGED <<ticker, tickerHistory, trades, trend, pending, timer>>
  BY DEF Exec, ExecFails
<1>3. PICK bad \in SUBSET CacheKey :
        /\ lost \subseteq lost' /\ lost' \subseteq CacheKey
        /\ redis' = [k \in CacheKey |-> IF k \in bad THEN redis[k]
                                            ELSE Stores(Head(flight))[k]]
        /\ \A k \in bad \ lost' :
             \E batch \in Waiting : batch[k] # Nothing
  <2>1. CASE Exec
    <3>1. redis' = [k \in CacheKey |-> IF k \in {} THEN redis[k]
                                          ELSE Stores(Head(flight))[k]]
      BY <2>1 DEF Exec, Stores
    <3>2. lost' = lost /\ lost \subseteq CacheKey
      BY <2>1 DEF Exec, StoreTypeOK
    <3>3. {} \in SUBSET CacheKey /\ \A k \in {} \ lost' :
            \E batch \in Waiting : batch[k] # Nothing
      OBVIOUS
    <3> QED
      BY <3>1, <3>2, <3>3
  <2>2. CASE ExecFails
    <3>1. PICK bad \in SUBSET {k \in CacheKey : Head(flight)[k] # Nothing} :
            /\ redis' = [k \in CacheKey |-> IF k \in bad THEN redis[k]
                                                ELSE Stores(Head(flight))[k]]
            /\ lost' = lost \cup {k \in bad : \A batch \in Waiting :
                                                 batch[k] = Nothing}
      BY <2>2 DEF ExecFails
    <3>2. bad \in SUBSET CacheKey
      OBVIOUS
    <3>3. \A k \in bad \ lost' : \E batch \in Waiting : batch[k] # Nothing
      BY <3>1
    <3>4. lost \subseteq lost' /\ lost' \subseteq CacheKey
      BY <3>1, <3>2 DEF StoreTypeOK
    <3> QED
      BY <3>1, <3>2, <3>3, <3>4
  <2> QED
    BY <2>1, <2>2
<1>4. StoreTypeOK'
  BY <1>2, <1>3, PipelineTyped
<1>5. NothingForgotten'
  BY <1>2, <1>3, <1>4, PipelineEnds
<1> QED
  BY <1>1, <1>4, <1>5

LEMMA StoreStep ==
  ASSUME StoreAssumption, StoreInv, [StoreNext]_storeVars PROVE StoreInv'
<1>1. CASE UNCHANGED storeVars
  BY <1>1 DEF StoreInv, storeVars, StoreTypeOK, TrendOrdered,
              NothingForgotten, Queue
<1> QED
  BY <1>1, UpsertStep, TradeStep, FlushStep, ExecStep DEF StoreNext

LEMMA StoreInvariance == ASSUME StoreAssumption PROVE StoreSpec => []StoreInv
<1>1. StoreInit => StoreInv
  BY StoreStarts
<1>2. StoreInv /\ [StoreNext]_storeVars => StoreInv'
  BY StoreStep
<1> QED
  BY <1>1, <1>2, PTL DEF StoreSpec

(* The points of a trend are in order and at least the shorter sampling    *)
(* interval apart, whatever the order of the timestamps that tickers and   *)
(* trades arrive in (record of market-trend.projection.ts).                *)
THEOREM TrendOrderedHolds ==
  ASSUME StoreAssumption PROVE StoreSpec => [](StoreTypeOK /\ TrendOrdered)
<1>1. StoreInv => StoreTypeOK /\ TrendOrdered
  BY DEF StoreInv
<1> QED
  BY <1>1, StoreInvariance, PTL

(* The newest value of a key is in Redis or queued behind every older one, *)
(* however many pipelines are under way and whichever of their commands    *)
(* fail, but for the keys whose newest value failed                        *)
(* (schedulePersist, flushPendingPersists).                                *)
THEOREM NothingForgottenHolds ==
  ASSUME StoreAssumption PROVE StoreSpec => []NothingForgotten
<1>1. StoreInv => NothingForgotten
  BY DEF StoreInv
<1> QED
  BY <1>1, StoreInvariance, PTL

-----------------------------------------------------------------------------
(* The time that attempts of a call and the delays after them may take.    *)
Spent(attempts) == attempts * (TimeoutMs + MaxDelayMs)

RestTyped ==
  /\ now \in Nat /\ until \in Nat /\ attempt \in 1 .. MaxAttempts
  /\ pc \in {"send", "headers", "body", "delay", "ended"}
  /\ pc = "body" => status \in Status
  /\ unbounded \in BOOLEAN

(* A call is within the time of the attempts made so far, and what it has  *)
(* read in full asks for another attempt.                                  *)
RestInv ==
  /\ RestTyped
  /\ pc # "ended" => answered \subseteq {"retryable"}
  /\ ~unbounded =>
       /\ pc = "send" => now <= Spent(attempt - 1)
       /\ pc = "headers" => now <= until /\ until <= Spent(attempt - 1) + TimeoutMs
       /\ pc = "body" => now <= Spent(attempt - 1) + TimeoutMs
       /\ pc = "delay" => now <= until /\ until <= Spent(attempt)
       /\ pc = "ended" => now <= Budget
  /\ pc = "delay" => attempt < MaxAttempts

LEMMA TimesGrow ==
  ASSUME NEW a \in Nat, NEW b \in Nat, NEW c \in Nat, a <= b
  PROVE  a * c <= b * c
<1>1. PICK d \in Nat : b = a + d
  <2>1. b - a \in Nat /\ b = a + (b - a)
    OBVIOUS
  <2> QED
    BY <2>1
<1>2. b * c = a * c + d * c
  BY <1>1
<1>3. d * c \in Nat /\ a * c \in Nat
  OBVIOUS
<1> QED
  BY <1>2, <1>3

LEMMA SpentInAttempts ==
  ASSUME RestAssumption, NEW a \in 1 .. MaxAttempts
  PROVE  /\ Spent(a - 1) \in Nat /\ Spent(a) \in Nat
         /\ Spent(a) = Spent(a - 1) + TimeoutMs + MaxDelayMs
         /\ Spent(a - 1) + TimeoutMs <= Budget
<1> USE DEF RestAssumption
<1> DEFINE step == TimeoutMs + MaxDelayMs
<1>1. /\ step \in Nat /\ a - 1 \in Nat /\ a \in Nat
      /\ MaxAttempts - 1 \in Nat /\ a - 1 <= MaxAttempts - 1
  OBVIOUS
<1>2. (a - 1) * step <= (MaxAttempts - 1) * step
  BY <1>1, TimesGrow
<1>3. (a - 1) * step \in Nat /\ a * step \in Nat /\ (MaxAttempts - 1) * step \in Nat
  BY <1>1
<1>4. a * step = (a - 1) * step + step
  BY <1>1
<1>5. Budget = (MaxAttempts - 1) * step + TimeoutMs
  BY DEF Budget
<1> QED
  BY <1>2, <1>3, <1>4, <1>5 DEF Spent

LEMMA RetryDelayBound ==
  ASSUME RestAssumption, attempt \in 1 .. MaxAttempts
  PROVE  RetryDelay \in 0 .. MaxDelayMs
<1>1. Backoff(attempt) \in Nat
  BY DEF RestAssumption, Backoff
<1> QED
  BY <1>1 DEF RestAssumption, RetryDelay

LEMMA RestStarts == RestAssumption /\ RestInit => RestInv
<1> SUFFICES ASSUME RestAssumption, RestInit PROVE RestInv
  OBVIOUS
<1>1. 1 \in 1 .. MaxAttempts
  BY DEF RestAssumption
<1>2. Spent(1 - 1) \in Nat
  BY <1>1, SpentInAttempts
<1>3. attempt = 1 /\ now = 0
  BY DEF RestInit
<1>4. now <= Spent(attempt - 1)
  BY <1>2, <1>3
<1> QED
  BY <1>1, <1>4 DEF RestInit, RestInv, RestTyped

(* An attempt that fails within its time ends the call in its budget or    *)
(* waits for no more than the longest delay.                               *)
LEMMA FailsInTime ==
  ASSUME RestAssumption, RestTyped, NEW with, Fails(with),
         UNCHANGED <<now, answered, unbounded>>, pc \in {"headers", "body"},
         ~unbounded => now <= Spent(attempt - 1) + TimeoutMs,
         answered \subseteq {"retryable"}
  PROVE  RestInv'
<1>1. /\ Spent(attempt - 1) \in Nat /\ Spent(attempt) \in Nat
      /\ Spent(attempt) = Spent(attempt - 1) + TimeoutMs + MaxDelayMs
      /\ Spent(attempt - 1) + TimeoutMs <= Budget
  BY SpentInAttempts DEF RestTyped
<1>2. RetryDelay \in 0 .. MaxDelayMs
  BY RetryDelayBound DEF RestTyped
<1>3. TimeoutMs \in Nat /\ MaxDelayMs \in Nat /\ MaxAttempts \in Nat /\ Budget \in Int
  BY DEF RestAssumption, Budget
<1>4. CASE Ends(with)
  BY <1>1, <1>3, <1>4 DEF Ends, RestInv, RestTyped, Budget
<1>5. CASE attempt < MaxAttempts /\ WaitsFor(RetryDelay)
  BY <1>1, <1>2, <1>3, <1>5 DEF WaitsFor, RestInv, RestTyped
<1> QED
  BY <1>3, <1>4, <1>5 DEF Fails, RestTyped

LEMMA BodyInTime ==
  ASSUME RestAssumption, RestInv, BodyArrives
  PROVE  RestInv'
<1> USE DEF RestInv
<1>1. /\ pc = "body" /\ status \in Status /\ now' = now
      /\ answered' = answered \cup {status} /\ answered \subseteq {"retryable"}
      /\ TimeoutMs \in Nat /\ MaxDelayMs \in Nat /\ MaxAttempts \in Nat
      /\ Budget \in Int
  BY DEF BodyArrives, RestTyped, RestAssumption, Budget
<1>2. /\ Spent(attempt - 1) \in Nat /\ Spent(attempt) \in Nat
      /\ Spent(attempt) = Spent(attempt - 1) + TimeoutMs + MaxDelayMs
      /\ Spent(attempt - 1) + TimeoutMs <= Budget
  BY SpentInAttempts DEF RestTyped
<1>3. CASE pc' = "ended" /\ UNCHANGED <<attempt, until, unbounded>>
  BY <1>1, <1>2, <1>3 DEF RestTyped
<1>4. ASSUME status = "retryable", attempt < MaxAttempts,
             NEW d \in Nat, WaitsFor(d),
             \/ d <= MaxDelayMs /\ unbounded' = unbounded
             \/ unbounded' = TRUE
      PROVE  RestInv'
  <2>1. /\ pc' = "delay" /\ until' = now + d /\ attempt' = attempt
        /\ answered' \subseteq {"retryable"} /\ unbounded' \in BOOLEAN
    BY <1>1, <1>4 DEF RestTyped, WaitsFor
  <2>2. now' \in Nat /\ until' \in Nat /\ now' <= until'
    BY <1>1, <2>1 DEF RestTyped
  <2>3. ~unbounded' => until' <= Spent(attempt')
    BY <1>1, <1>2, <1>4, <2>1 DEF RestTyped
  <2> QED
    BY <1>4, <2>1, <2>2, <2>3 DEF RestTyped
<1>5. CASE status = "retryable" /\ attempt < MaxAttempts
  <2>1. RetryDelay \in 0 .. MaxDelayMs
    BY RetryDelayBound DEF RestTyped
  <2>2. \/ WaitsFor(RetryDelay) /\ unbounded' = unbounded
        \/ \E d \in RetryAfter : WaitsFor(d) /\ unbounded' = TRUE
    BY <1>5 DEF BodyArrives
  <2> QED
    <3>1. CASE WaitsFor(RetryDelay) /\ unbounded' = unbounded
      <4>1. RetryDelay \in Nat /\ RetryDelay <= MaxDelayMs
        BY <1>1, <2>1
      <4> QED
        BY <1>4, <1>5, <3>1, <4>1
    <3>2. CASE \E d \in RetryAfter : WaitsFor(d) /\ unbounded' = TRUE
      <4>1. PICK d \in Nat : WaitsFor(d) /\ unbounded' = TRUE
        BY <3>2 DEF RestAssumption
      <4> QED
        BY <1>4, <1>5, <4>1
    <3> QED
      BY <2>2, <3>1, <3>2
<1>6. CASE status # "retryable" \/ ~(attempt < MaxAttempts)
  BY <1>1, <1>3, <1>6 DEF BodyArrives, Status, Fails, Ends, RestTyped
<1> QED
  BY <1>5, <1>6

LEMMA RestStep ==
  ASSUME RestAssumption, RestInv, [RestNext]_restVars
  PROVE  RestInv'
<1> USE DEF RestInv, RestTyped
<1>1. /\ Spent(attempt - 1) \in Nat /\ Spent(attempt) \in Nat
      /\ Spent(attempt) = Spent(attempt - 1) + TimeoutMs + MaxDelayMs
      /\ Spent(attempt - 1) + TimeoutMs <= Budget
      /\ TimeoutMs \in Nat /\ MaxDelayMs \in Nat /\ MaxAttempts \in Nat
  BY SpentInAttempts DEF RestAssumption
<1>2. CASE Send
  BY <1>1, <1>2 DEF Send
<1>3. CASE ServicePerforms
  BY <1>3 DEF ServicePerforms
<1>4. CASE HeadersArrive
  BY <1>1, <1>4 DEF HeadersArrive, Status
<1>5. CASE BodyStalls
  BY <1>5 DEF BodyStalls
<1>6. CASE BodyArrives
  BY <1>6, BodyInTime
<1>7. CASE NetworkFails
  <2>1. /\ Fails("network") /\ UNCHANGED <<now, answered, unbounded>>
        /\ pc \in {"headers", "body"} /\ answered \subseteq {"retryable"}
    BY <1>7 DEF NetworkFails
  <2>2. ~unbounded => now <= Spent(attempt - 1) + TimeoutMs
    BY <1>1, <2>1
  <2> QED
    BY <2>1, <2>2, FailsInTime
<1>8. CASE TimerAborts
  <2>1. /\ Fails("timeout") /\ UNCHANGED <<now, answered, unbounded>>
        /\ pc \in {"headers", "body"} /\ answered \subseteq {"retryable"}
    BY <1>8 DEF TimerAborts
  <2>2. ~unbounded => now <= Spent(attempt - 1) + TimeoutMs
    BY <1>1, <2>1
  <2> QED
    BY <2>1, <2>2, FailsInTime
<1>9. CASE DelayEnds
  BY <1>1, <1>9 DEF DelayEnds
<1>10. CASE Tick
  BY <1>1, <1>10 DEF Tick
<1>11. CASE UNCHANGED restVars
  BY <1>11 DEF restVars, Status, Budget
<1> QED
  BY <1>2, <1>3, <1>4, <1>5, <1>6, <1>7, <1>8, <1>9, <1>10, <1>11 DEF RestNext

(* Unless a body stalls or the service asks for more time, a call ends     *)
(* within the timeouts and capped delays of its attempts, whatever fails,  *)
(* and nothing is sent again once an answer settled the request            *)
(* (requestDetailed, for any number of attempts and any durations).        *)
THEOREM CallsAreBoundedHolds ==
  ASSUME RestAssumption
  PROVE  RestSpec => []CallsAreBounded
<1>1. RestInv => CallsAreBounded
  <2> SUFFICES ASSUME RestInv PROVE CallsAreBounded
    OBVIOUS
  <2>1. /\ Spent(attempt - 1) \in Nat /\ Spent(attempt) \in Nat
        /\ Spent(attempt) = Spent(attempt - 1) + TimeoutMs + MaxDelayMs
        /\ Spent(attempt - 1) + TimeoutMs <= Budget
    BY SpentInAttempts DEF RestInv, RestTyped
  <2>2. attempt < MaxAttempts => Spent(attempt) + TimeoutMs <= Budget
    <3>1. attempt < MaxAttempts =>
            attempt + 1 \in 1 .. MaxAttempts /\ (attempt + 1) - 1 = attempt
      BY DEF RestInv, RestTyped, RestAssumption
    <3> QED
      BY <3>1, SpentInAttempts
  <2>3. /\ TimeoutMs \in Nat /\ MaxDelayMs \in Nat /\ MaxAttempts \in Nat
        /\ Budget \in Int
    BY DEF RestAssumption, Budget
  <2>4. ~unbounded => now <= Budget
    BY <2>1, <2>2, <2>3 DEF RestInv, RestTyped
  <2> QED
    BY <2>4 DEF RestInv, CallsAreBounded
<1> QED
  BY <1>1, RestStarts, RestStep, PTL DEF RestSpec

-----------------------------------------------------------------------------
(* Rows, requests and operations have the fields of their records.         *)
Statuses == {"active", "invalid_credentials", "insufficient_scope",
             "ip_not_allowed", "temporarily_unreachable",
             "verification_failed", "reauth_required"}
Row == [id : Nat \ {0}, api : ApiKeys, secret : Secrets, mask : ApiKeys,
        purpose : Purposes, code : Codes, canUse : BOOLEAN,
        status : Statuses]
Request == [stage : Stage,
            kind : {"none", "create", "update", "validate", "test", "order",
                    "portfolio", "trading"},
            read : Row \cup {NoRow},
            pair : Pairs \cup {<<None, None>>},
            mask : ApiKeys \cup {None}, tainted : BOOLEAN,
            purpose : Purposes, code : Codes]
AFailure == [kind : {"none", "request", "auth", "error", "app"},
             status : Nat, word : Words]
Operation == [conn : Nat, keys : Pairs \cup {<<None, None>>},
              failure : AFailure, lost : BOOLEAN]

RecordsTyped ==
  /\ row \in Row \cup {NoRow}
  /\ req \in [Requests -> Request]
  /\ op \in [Requests -> Operation]
  /\ overtaken \in BOOLEAN

LEMMA CodesOfFailures ==
  ASSUME NEW e \in AFailure
  PROVE  Classify(e) \in Codes \ {"verified", NoVerdict}
  BY DEF Classify, ClassifyRequest, ClassifyAuth, ClassifyOther,
         Codes, KnownCodes, TransientCodes, KeyCodes, NoVerdict

LEMMA ARowIsNone ==
  ASSUME row \in Row \cup {NoRow}
  PROVE  /\ Exists => row \in Row /\ row.id # None
         /\ ~Exists => row = NoRow
         /\ NoRow \notin Row
  BY DEF Exists, NoRow, Row, None

LEMMA RowIsTyped ==
  ASSUME NEW id \in Nat \ {0}, NEW api \in ApiKeys, NEW secret \in Secrets,
         NEW mask \in ApiKeys, NEW purpose \in Purposes, NEW code \in Codes
  PROVE  /\ RowOf(id, api, secret, mask, purpose, code) \in Row
         /\ RowOf(id, api, secret, mask, purpose, code).status # "reauth_required"
  BY DEF RowOf, Row, Statuses, OperationalStatus, TransientCodes,
         KeyCodes

(* A request goes on to its next stage, and forgets all when it is done.   *)
LEMMA Goes ==
  ASSUME req \in [Requests -> Request], NEW r \in Requests, NEW st \in Stage,
         Goto(r, st)
  PROVE  /\ req' \in [Requests -> Request] /\ req'[r].stage = st
         /\ st # "done" =>
              /\ req'[r].kind = req[r].kind /\ req'[r].read = req[r].read
              /\ req'[r].pair = req[r].pair /\ req'[r].mask = req[r].mask
              /\ req'[r].tainted = req[r].tainted
              /\ req'[r].purpose = req[r].purpose /\ req'[r].code = req[r].code
         /\ \A q \in Requests \ {r} : req'[q] = req[q]
<1>1. IdleReq \in Request
  BY DEF IdleReq, Request, Stage, Purposes, Codes
<1>2. CASE st = "done"
  BY <1>1, <1>2 DEF Goto, Request
<1>3. CASE st # "done"
  BY <1>3 DEF Goto, Request
<1> QED
  BY <1>2, <1>3

(* A request that awaits the verdict on a pair of keys.                    *)
LEMMA AwaitsVerdict ==
  ASSUME RecordsTyped, NEW r \in Requests,
         NEW kind \in {"create", "update", "validate", "test"},
         NEW pair \in Pairs, NEW mask \in ApiKeys, NEW purpose \in Purposes,
         Awaits(r, kind, pair, mask, purpose)
  PROVE  /\ req' \in [Requests -> Request]
         /\ req'[r] = [stage |-> "validating", kind |-> kind, read |-> row,
                       pair |-> pair, mask |-> mask,
                       tainted |-> overtaken /\ Exists /\ mask = row.mask,
                       purpose |-> purpose, code |-> NoVerdict]
         /\ \A q \in Requests \ {r} : req'[q] = req[q]
<1> DEFINE record == [stage |-> "validating", kind |-> kind, read |-> row,
                      pair |-> pair, mask |-> mask,
                      tainted |-> overtaken /\ Exists /\ mask = row.mask,
                      purpose |-> purpose, code |-> NoVerdict]
<1>0. (overtaken /\ Exists /\ mask = row.mask) \in BOOLEAN
  OBVIOUS
<1>1. record \in Request
  BY <1>0 DEF Request, RecordsTyped, Stage, Codes
<1>2. req' = [req EXCEPT ![r] = record]
  BY DEF Awaits
<1> HIDE DEF record
<1>3. /\ req' \in [Requests -> Request] /\ req'[r] = record
      /\ \A q \in Requests \ {r} : req'[q] = req[q]
  BY <1>1, <1>2 DEF RecordsTyped
<1> QED
  BY <1>3 DEF record

-----------------------------------------------------------------------------
(* A connection that an operation has read is there or was removed.        *)
Known(id) == id \in removed \/ (Exists /\ row.id = id)

(* What explains that an accepted order is not on record as submitted.     *)
Accounted(r) ==
  \/ [req |-> r, status |-> "submitted"] \in orders
  \/ op[r].lost \/ op[r].conn \in removed \/ faults > 0

(* What a request knows at its stage: the mask goes with the pair that is  *)
(* validated, or was read from a row whose mask is not that of its key; a  *)
(* failed operation has sent its keys, unless this server refused it; an   *)
(* accepted order is on its way to its record or accounted for.            *)
RequestInv(r) ==
  /\ req[r].stage \in {"validating", "commit"} =>
       /\ req[r].kind \in {"create", "update", "validate", "test"}
       /\ req[r].pair \in Pairs /\ req[r].mask \in ApiKeys
       /\ req[r].mask = req[r].pair[1] \/ (req[r].kind = "update" /\ req[r].tainted)
       /\ req[r].kind = "validate" =>
            req[r].read \in Row /\ req[r].pair = KeysOf(req[r].read)
  /\ req[r].stage = "commit" /\ req[r].code = "verified" => req[r].pair \in verified
  /\ req[r].stage \in {"context", "calling", "mark", "record"} /\ req[r].kind = "order"
       => Known(op[r].conn)
  /\ req[r].stage = "calling" => op[r].keys \in Pairs
  /\ req[r].stage = "mark" =>
       \/ op[r].failure = NoFailure \/ op[r].failure.kind = "app"
       \/ op[r].keys \in used
  /\ req[r].stage = "mark" /\ req[r].kind = "order" /\ op[r].failure = NoFailure
       => r \in placed
  /\ req[r].stage = "record" => r \in placed
  /\ r \in placed =>
       /\ req[r].stage \in {"mark", "record", "reject", "done"}
       /\ req[r].stage \in {"mark", "record"} => req[r].kind = "order"
       /\ req[r].stage = "mark" => op[r].failure = NoFailure \/ op[r].lost
       /\ req[r].stage \in {"reject", "done"} => Accounted(r)
  /\ (\E o \in orders : o.req = r) => req[r].stage = "done"

(* Whoever made the user sign in again has met the refusal and is past its *)
(* mark, so that it stays as it is.                                        *)
Refused(r) ==
  /\ req[r].stage \in {"record", "reject", "done"}
  /\ op[r].failure # NoFailure
  /\ Classify(op[r].failure) \in KeyCodes
  /\ op[r].keys \in used

RowInv ==
  /\ HistoryExplainsRow /\ VerdictOfKeys
  /\ Exists /\ row.status = "reauth_required" => \E r \in Requests : Refused(r)

(* Connections are numbered, and every removed one was by a request.       *)
Finished == {r \in Requests : req[r].stage = "done"}

IdsInv ==
  \E n \in Nat : /\ removed = 1 .. n /\ n <= Cardinality(Finished)
                 /\ Exists => row.id = n + 1

BooksInv ==
  /\ used \cup verified \subseteq Pairs
  /\ placed \subseteq Requests
  /\ orders \subseteq [req : Requests, status : {"submitted", "rejected"}]
  /\ faults \in 0 .. MaxFaults
  /\ \A a, b \in orders : a.req = b.req => a = b
  /\ \A o \in orders : o.status = "submitted" => o.req \in placed

PrivateInv ==
  /\ RecordsTyped /\ BooksInv /\ RowInv /\ IdsInv
  /\ \A r \in Requests : RequestInv(r)

(* What every step of a request leaves alone.                              *)
StepOf(r) ==
  /\ \A q \in Requests \ {r} : req'[q] = req[q] /\ op'[q] = op[q]
  /\ verified \subseteq verified' /\ used \subseteq used'
  /\ removed \subseteq removed' /\ orders \subseteq orders'
  /\ placed \subseteq placed' /\ placed' \subseteq placed \cup {r}
  /\ \A o \in orders' \ orders : o.req = r
  /\ faults <= faults'
  /\ req[r].stage # "done"
  /\ req[r].stage \in {"record", "reject"} =>
       op'[r] = op[r] /\ req'[r].stage \in {"reject", "done"}

KeepsIds ==
  \/ removed' = removed /\ (Exists => Exists' /\ row'.id = row.id)
  \/ removed' = removed \cup {row.id} /\ Exists

LEMMA KnownStays ==
  ASSUME KeepsIds, NEW id, Known(id)
  PROVE  Known(id)'
  BY DEF KeepsIds, Known

LEMMA OthersStay ==
  ASSUME NEW r \in Requests, StepOf(r), KeepsIds, NEW q \in Requests \ {r},
         RequestInv(q), faults \in Nat, faults' \in Nat
  PROVE  RequestInv(q)'
<1>1. /\ req'[q] = req[q] /\ op'[q] = op[q]
      /\ verified \subseteq verified' /\ used \subseteq used'
      /\ removed \subseteq removed' /\ orders \subseteq orders'
      /\ q \in placed <=> q \in placed'
      /\ (\E o \in orders' : o.req = q) => \E o \in orders : o.req = q
      /\ faults <= faults'
  BY DEF StepOf
<1>2. Known(op[q].conn) => Known(op[q].conn)'
  <2>1. PICK id : id = op[q].conn
    OBVIOUS
  <2>2. Known(id) => Known(id)'
    BY KnownStays
  <2> QED
    BY <1>1, <2>1, <2>2 DEF Known
<1>3. Accounted(q) => Accounted(q)'
  BY <1>1 DEF Accounted
<1> QED
  BY <1>1, <1>2, <1>3 DEF RequestInv

LEMMA RefusedStays ==
  ASSUME NEW r \in Requests, StepOf(r), NEW q \in Requests, Refused(q)
  PROVE  Refused(q)'
<1>1. CASE q = r
  BY <1>1 DEF StepOf, Refused
<1>2. CASE q # r
  BY <1>2 DEF StepOf, Refused
<1> QED
  BY <1>1, <1>2

LEMMA FinishedGrows ==
  ASSUME OpAssumption, NEW r \in Requests, StepOf(r)
  PROVE  /\ IsFiniteSet(Finished) /\ IsFiniteSet(Finished')
         /\ Cardinality(Finished) \in Nat /\ Cardinality(Finished') \in Nat
         /\ Cardinality(Finished) <= Cardinality(Finished')
         /\ req'[r].stage = "done" =>
              Cardinality(Finished) + 1 <= Cardinality(Finished')
<1>1. Finished \subseteq Requests /\ Finished' \subseteq Requests
  BY DEF Finished
<1>2. IsFiniteSet(Finished) /\ IsFiniteSet(Finished')
  <2>1. IsFiniteSet(Requests)
    BY DEF OpAssumption, IsFiniteSet, IsFiniteSet
  <2> QED
    BY <1>1, <2>1, FS_Subset
<1>3. Finished \subseteq Finished' /\ r \notin Finished
  BY DEF Finished, StepOf
<1>4. Cardinality(Finished) \in Nat /\ Cardinality(Finished') \in Nat
  BY <1>2, FS_CardinalityType
<1>5. Cardinality(Finished) <= Cardinality(Finished')
  BY <1>2, <1>3, FS_Subset
<1>6. ASSUME req'[r].stage = "done"
      PROVE  Cardinality(Finished) + 1 <= Cardinality(Finished')
  <2>1. Finished \cup {r} \subseteq Finished'
    BY <1>3, <1>6 DEF Finished
  <2>2. Cardinality(Finished \cup {r}) = Cardinality(Finished) + 1
    BY <1>2, <1>3, FS_AddElement
  <2> QED
    BY <1>2, <2>1, <2>2, FS_Subset
<1> QED
  BY <1>2, <1>4, <1>5, <1>6

(* The steps that leave the row as it is.                                  *)
LEMMA RowUntouched ==
  ASSUME OpAssumption, PrivateInv, NEW r \in Requests, StepOf(r),
         UNCHANGED <<row, removed, overtaken>>, history \subseteq history',
         RecordsTyped', BooksInv', RequestInv(r)'
  PROVE  PrivateInv'
<1> USE DEF PrivateInv
<1>1. KeepsIds
  BY DEF KeepsIds, Exists
<1>2. \A q \in Requests : RequestInv(q)'
  BY <1>1, OthersStay DEF BooksInv, OpAssumption
<1>3. RowInv'
  <2>1. Exists' = Exists /\ verified \subseteq verified'
    BY DEF Exists, StepOf
  <2>2. HistoryExplainsRow'
    BY <2>1 DEF RowInv, HistoryExplainsRow
  <2>3. VerdictOfKeys'
    BY <2>1 DEF RowInv, VerdictOfKeys, KeysOf
  <2>4. Exists' /\ row'.status = "reauth_required" =>
          \E q \in Requests : Refused(q)'
    BY <2>1, RefusedStays DEF RowInv
  <2> QED
    BY <2>2, <2>3, <2>4 DEF RowInv
<1>4. IdsInv'
  <2>1. PICK n \in Nat : /\ removed = 1 .. n /\ n <= Cardinality(Finished)
                         /\ Exists => row.id = n + 1
    BY DEF IdsInv
  <2>2. n <= Cardinality(Finished')
    BY <2>1, FinishedGrows
  <2> QED
    BY <2>1, <2>2 DEF IdsInv, Exists
<1> QED
  BY <1>2, <1>3, <1>4

(* A step of a request that neither works with the exchange nor finishes   *)
(* its work there changes nothing of the operations.                       *)
LEMMA NoOperation ==
  ASSUME PrivateInv, NEW r \in Requests, req' \in [Requests -> Request],
         \A q \in Requests \ {r} : req'[q] = req[q],
         UNCHANGED <<op, placed, orders, used, faults>>,
         verified \subseteq verified', removed \subseteq removed',
         req[r].stage \in {"idle", "validating", "commit", "label", "remove"}
  PROVE  /\ StepOf(r) /\ r \notin placed'
         /\ ~ \E o \in orders' : o.req = r
<1>1. RequestInv(r) /\ BooksInv
  BY DEF PrivateInv
<1>2. r \notin placed /\ ~ \E o \in orders : o.req = r
  BY <1>1 DEF RequestInv
<1>3. faults <= faults'
  BY <1>1 DEF BooksInv, OpAssumption
<1> QED
  BY <1>2, <1>3 DEF StepOf

(* A request that is done, or writes or deletes next, holds nothing that   *)
(* RequestInv speaks of.                                                   *)
LEMMA Aside ==
  ASSUME NEW r \in Requests, r \notin placed', ~ \E o \in orders' : o.req = r,
         req'[r].stage \in {"idle", "label", "remove", "done"}
  PROVE  RequestInv(r)'
  BY DEF RequestInv

(* A request that has read the row and writes or deletes next.             *)
LEMMA ReadsRow ==
  ASSUME RecordsTyped, NEW r \in Requests, NEW st \in {"label", "remove", "done"},
         req' = [req EXCEPT ![r].stage = st, ![r].read = row]
  PROVE  /\ req' \in [Requests -> Request] /\ req'[r].stage = st
         /\ \A q \in Requests \ {r} : req'[q] = req[q]
<1>1. st \in Stage
  BY DEF Stage
<1>2. [req[r] EXCEPT !.stage = st, !.read = row] \in Request
  BY <1>1 DEF RecordsTyped, Request
<1>3. req' = [req EXCEPT ![r] = [req[r] EXCEPT !.stage = st, !.read = row]]
  BY DEF RecordsTyped, Request
<1>4. [req[r] EXCEPT !.stage = st, !.read = row].stage = st
  BY DEF RecordsTyped, Request
<1> QED
  BY <1>2, <1>3, <1>4 DEF RecordsTyped

LEMMA BeginAwait ==
  ASSUME OpAssumption, PrivateInv, NEW r \in Requests,
         NEW kind \in {"create", "update", "validate", "test"},
         NEW pair \in Pairs, NEW mask \in ApiKeys, NEW purpose \in Purposes,
         Awaits(r, kind, pair, mask, purpose), req[r].stage = "idle",
         UNCHANGED <<row, removed, history, verified, overtaken>>,
         UNCHANGED <<op, placed, orders, used, faults>>,
         \/ mask = pair[1]
         \/ kind = "update" /\ overtaken /\ Exists /\ mask = row.mask,
         kind = "validate" => row \in Row /\ pair = KeysOf(row)
  PROVE  PrivateInv'
<1>1. /\ req' \in [Requests -> Request]
      /\ req'[r].stage = "validating" /\ req'[r].kind = kind
      /\ req'[r].pair = pair /\ req'[r].mask = mask /\ req'[r].read = row
      /\ req'[r].tainted = (overtaken /\ Exists /\ mask = row.mask)
      /\ \A q \in Requests \ {r} : req'[q] = req[q]
  <2>1. RecordsTyped
    BY DEF PrivateInv
  <2>2. /\ req' \in [Requests -> Request]
        /\ req'[r] = [stage |-> "validating", kind |-> kind, read |-> row,
                       pair |-> pair, mask |-> mask,
                       tainted |-> overtaken /\ Exists /\ mask = row.mask,
                       purpose |-> purpose, code |-> NoVerdict]
        /\ \A q \in Requests \ {r} : req'[q] = req[q]
    BY <2>1, AwaitsVerdict
  <2> QED
    BY <2>2
<1>2. StepOf(r) /\ r \notin placed' /\ ~ \E o \in orders' : o.req = r
  BY <1>1, NoOperation
<1>3. RequestInv(r)'
  BY <1>1, <1>2 DEF RequestInv
<1>4. RecordsTyped' /\ BooksInv'
  BY <1>1 DEF PrivateInv, RecordsTyped, BooksInv
<1> QED
  BY <1>2, <1>3, <1>4, RowUntouched

LEMMA BeginAside ==
  ASSUME OpAssumption, PrivateInv, NEW r \in Requests,
         req' \in [Requests -> Request],
         \A q \in Requests \ {r} : req'[q] = req[q],
         req[r].stage \in {"idle", "validating", "commit", "label", "remove"},
         req'[r].stage \in {"idle", "label", "remove", "done"},
         UNCHANGED <<row, removed, verified, overtaken>>, history \subseteq history',
         UNCHANGED <<op, placed, orders, used, faults>>
  PROVE  PrivateInv'
<1>1. StepOf(r) /\ r \notin placed' /\ ~ \E o \in orders' : o.req = r
  BY NoOperation
<1>2. RequestInv(r)'
  BY <1>1, Aside
<1>3. RecordsTyped' /\ BooksInv'
  BY DEF PrivateInv, RecordsTyped, BooksInv
<1> QED
  BY <1>1, <1>2, <1>3, RowUntouched

LEMMA GoesAside ==
  ASSUME OpAssumption, PrivateInv, NEW r \in Requests, Goto(r, "done"),
         req[r].stage \in {"idle", "validating", "commit", "label", "remove"},
         UNCHANGED <<row, removed, verified, overtaken>>, history \subseteq history',
         UNCHANGED <<op, placed, orders, used, faults>>
  PROVE  PrivateInv'
<1>1. /\ req' \in [Requests -> Request] /\ req'[r].stage = "done"
      /\ \A q \in Requests \ {r} : req'[q] = req[q]
  BY Goes DEF PrivateInv, RecordsTyped, Stage
<1> QED
  BY <1>1, BeginAside

(* createExchangeConnection and testExchangeConnection up to their await.  *)
LEMMA BeginCreateStep ==
  ASSUME OpAssumption, PrivateInv, NEW r \in Requests,
         NEW pair \in Pairs, NEW purpose \in Purposes,
         BeginCreate(r, pair, purpose) \/ BeginTest(r, pair, purpose),
         UNCHANGED opVars
  PROVE  PrivateInv'
<1>1. /\ req[r].stage = "idle" /\ pair[1] \in ApiKeys
      /\ UNCHANGED <<row, removed, history, verified, overtaken>>
      /\ UNCHANGED <<op, placed, orders, used, faults>>
  BY DEF BeginCreate, BeginTest, opVars, Pairs
<1>2. \/ Goto(r, "done")
      \/ \E kind \in {"create", "test"} : Awaits(r, kind, pair, pair[1], purpose)
  BY DEF BeginCreate, BeginTest
<1>3. CASE Goto(r, "done")
  BY <1>1, <1>3, GoesAside
<1>4. ASSUME NEW kind \in {"create", "test"}, Awaits(r, kind, pair, pair[1], purpose)
      PROVE  PrivateInv'
  BY <1>1, <1>4, BeginAwait
<1> QED
  BY <1>2, <1>3, <1>4

(* A pair that an update would store: submitted keys, and stored ones for  *)
(* those left out.                                                         *)
LEMMA MergedPair ==
  ASSUME OpAssumption, row \in Row, NEW input \in Submissions
  PROVE  /\ Merged(input, KeysOf(row)) \in Pairs
         /\ MaskWritten(input) \in ApiKeys
         /\ \/ MaskWritten(input) = Merged(input, KeysOf(row))[1]
            \/ /\ MaskWritten(input) = row.mask
               /\ Merged(input, KeysOf(row))[1] = row.api
<1>1. /\ input[1] \in ApiKeys \cup {None} /\ input[2] \in Secrets \cup {None}
  BY DEF OpAssumption
<1>2. row.api \in ApiKeys /\ row.secret \in Secrets /\ row.mask \in ApiKeys
  BY DEF Row
<1> QED
  BY <1>1, <1>2 DEF Merged, KeysOf, MaskWritten, Pairs

LEMMA BeginUpdateStep ==
  ASSUME OpAssumption, PrivateInv, NEW r \in Requests,
         NEW input \in Submissions, NEW purpose \in Purposes,
         BeginUpdate(r, input, purpose), UNCHANGED opVars
  PROVE  PrivateInv'
<1>1. /\ req[r].stage = "idle"
      /\ UNCHANGED <<row, removed, history, verified, overtaken>>
      /\ UNCHANGED <<op, placed, orders, used, faults>>
  BY DEF BeginUpdate, opVars
<1>2. \/ Goto(r, "done")
      \/ Exists /\ req' = [req EXCEPT ![r].stage = "label", ![r].read = row]
      \/ /\ Exists
         /\ Awaits(r, "update", Merged(input, KeysOf(row)),
                      MaskWritten(input), purpose)
  BY DEF BeginUpdate
<1>3. CASE Goto(r, "done")
  BY <1>1, <1>3, GoesAside
<1>4. CASE Exists /\ req' = [req EXCEPT ![r].stage = "label", ![r].read = row]
  <2>1. /\ req' \in [Requests -> Request] /\ req'[r].stage = "label"
        /\ \A q \in Requests \ {r} : req'[q] = req[q]
    BY <1>4, ReadsRow DEF PrivateInv
  <2> QED
    BY <1>1, <2>1, BeginAside
<1>5. CASE /\ Exists
           /\ Awaits(r, "update", Merged(input, KeysOf(row)),
                        MaskWritten(input), purpose)
  <2> DEFINE pair == Merged(input, KeysOf(row))
             mask == MaskWritten(input)
  <2>1. row \in Row
    BY <1>5, ARowIsNone DEF PrivateInv, RecordsTyped
  <2>2. /\ pair \in Pairs /\ mask \in ApiKeys
        /\ mask = pair[1] \/ (mask = row.mask /\ pair[1] = row.api)
    BY <2>1, MergedPair
  <2>3. ~overtaken => row.mask = row.api
    BY <1>5 DEF PrivateInv, RowInv, VerdictOfKeys
  <2>4. overtaken \in BOOLEAN
    BY DEF PrivateInv, RecordsTyped
  <2>5. mask = pair[1] \/ (overtaken /\ mask = row.mask)
    BY <2>2, <2>3, <2>4
  <2> HIDE DEF pair, mask
  <2>6. Awaits(r, "update", pair, mask, purpose)
    BY <1>5 DEF pair, mask
  <2> QED
    BY <1>1, <1>5, <2>2, <2>5, <2>6, BeginAwait
<1> QED
  BY <1>2, <1>3, <1>4, <1>5

(* validateStoredExchangeConnection up to its await.                       *)
LEMMA BeginValidateStep ==
  ASSUME OpAssumption, PrivateInv, NEW r \in Requests, BeginValidate(r),
         UNCHANGED opVars
  PROVE  PrivateInv'
<1>1. /\ req[r].stage = "idle"
      /\ UNCHANGED <<row, removed, history, verified, overtaken>>
      /\ UNCHANGED <<op, placed, orders, used, faults>>
  BY DEF BeginValidate, opVars
<1>2. \/ Goto(r, "done")
      \/ /\ Exists
         /\ Awaits(r, "validate", KeysOf(row), row.api, row.purpose)
  BY DEF BeginValidate
<1>3. CASE Goto(r, "done")
  BY <1>1, <1>3, GoesAside
<1>4. CASE /\ Exists
           /\ Awaits(r, "validate", KeysOf(row), row.api, row.purpose)
  <2>1. row \in Row
    BY <1>4, ARowIsNone DEF PrivateInv, RecordsTyped
  <2>2. /\ KeysOf(row) \in Pairs /\ KeysOf(row)[1] = row.api
        /\ row.api \in ApiKeys /\ row.purpose \in Purposes
    BY <2>1 DEF Row, KeysOf, Pairs
  <2>3. ASSUME NEW pair \in Pairs, NEW mask \in ApiKeys, NEW purpose \in Purposes,
               pair = KeysOf(row), mask = row.api, purpose = row.purpose
        PROVE  PrivateInv'
    BY <1>1, <1>4, <2>1, <2>2, <2>3, BeginAwait
  <2> QED
    BY <2>2, <2>3
<1> QED
  BY <1>2, <1>3, <1>4

LEMMA BeginRemoveStep ==
  ASSUME OpAssumption, PrivateInv, NEW r \in Requests, BeginRemove(r),
         UNCHANGED opVars
  PROVE  PrivateInv'
<1>1. /\ req[r].stage = "idle"
      /\ UNCHANGED <<row, removed, history, verified, overtaken>>
      /\ UNCHANGED <<op, placed, orders, used, faults>>
      /\ row \in Row \cup {NoRow}
  BY DEF BeginRemove, opVars, PrivateInv, RecordsTyped
<1>2. /\ req' \in [Requests -> Request] /\ req'[r].stage \in {"remove", "done"}
      /\ \A q \in Requests \ {r} : req'[q] = req[q]
  <2>1. RecordsTyped
    BY DEF PrivateInv
  <2>2. PICK st \in {"remove", "done"} :
          req' = [req EXCEPT ![r].stage = st, ![r].read = row]
    BY DEF BeginRemove
  <2> QED
    BY <2>1, <2>2, ReadsRow
<1> QED
  BY <1>1, <1>2, BeginAside

(* The verdict of the exchange, remembered for the pair it was asked for.  *)
LEMMA VerdictCodes ==
  ASSUME OpAssumption, NEW pair, NEW code \in Verdicts(pair)
  PROVE  code \in Codes
<1>1. \A f \in UpstreamFailures : f \in AFailure
  BY DEF OpAssumption, AFailure
<1>2. Failure("request", 400, "signature") \in AFailure
  BY DEF Failure, AFailure, Words
<1>3. "verified" \in Codes
  BY DEF Codes
<1>4. \/ \E f \in UpstreamFailures : code = Classify(f)
      \/ code = "verified"
      \/ code = Classify(Failure("request", 400, "signature"))
  BY DEF Verdicts
<1> QED
  BY <1>1, <1>2, <1>3, <1>4, CodesOfFailures

LEMMA ExchangeAnswersStep ==
  ASSUME OpAssumption, PrivateInv, NEW r \in Requests, ExchangeAnswers(r),
         UNCHANGED opVars
  PROVE  PrivateInv'
<1>1. /\ req[r].stage = "validating"
      /\ UNCHANGED <<row, removed, history, overtaken>>
      /\ UNCHANGED <<op, placed, orders, used, faults>>
  BY DEF ExchangeAnswers, opVars
<1>2. RequestInv(r) /\ RecordsTyped /\ BooksInv
  BY DEF PrivateInv
<1>3. PICK code \in Verdicts(req[r].pair) :
        /\ req' = [req EXCEPT ![r].stage = "commit", ![r].code = code]
        /\ verified' = verified \cup IF code = "verified" THEN {req[r].pair} ELSE {}
  BY DEF ExchangeAnswers
<1>4. code \in Codes
  BY VerdictCodes
<1>5. /\ req' \in [Requests -> Request]
      /\ req'[r].stage = "commit" /\ req'[r].code = code
      /\ req'[r].kind = req[r].kind /\ req'[r].pair = req[r].pair
      /\ req'[r].mask = req[r].mask /\ req'[r].read = req[r].read
      /\ req'[r].tainted = req[r].tainted
      /\ \A q \in Requests \ {r} : req'[q] = req[q]
  <2>1. "commit" \in Stage
    BY DEF Stage
  <2> QED
    BY <1>2, <1>3, <1>4, <2>1 DEF RecordsTyped, Request
<1>6. /\ req[r].pair \in Pairs /\ verified \subseteq verified'
      /\ verified' \subseteq verified \cup {req[r].pair}
      /\ code = "verified" => req[r].pair \in verified'
  BY <1>1, <1>2, <1>3 DEF RequestInv
<1>7. StepOf(r) /\ r \notin placed' /\ ~ \E o \in orders' : o.req = r
  BY <1>1, <1>5, <1>6, NoOperation
<1>8. RequestInv(r)'
  BY <1>1, <1>2, <1>5, <1>6, <1>7 DEF RequestInv
<1>9. RecordsTyped' /\ BooksInv'
  BY <1>1, <1>2, <1>5, <1>6 DEF RecordsTyped, BooksInv
<1> QED
  BY <1>1, <1>7, <1>8, <1>9, RowUntouched

(* The steps that write a row that was validated.  The new row is usable   *)
(* only with a verified pair, shows the mask of its key unless overtaken,  *)
(* and its verdict is remembered.                                          *)
LEMMA RowWritten ==
  ASSUME OpAssumption, PrivateInv, NEW r \in Requests, Goto(r, "done"),
         req[r].stage = "commit", UNCHANGED <<removed, verified>>,
         UNCHANGED <<op, placed, orders, used, faults>>,
         NEW id \in Nat \ {0}, NEW api \in ApiKeys, NEW secret \in Secrets,
         row' = RowOf(id, api, secret, req[r].mask, req[r].purpose, req[r].code),
         Remembers(id, r), overtaken' \in BOOLEAN,
         IF Exists THEN id = row.id ELSE id = NextId,
         ~overtaken' => /\ req[r].mask = api
                        /\ req[r].pair = <<api, secret>>
  PROVE  PrivateInv'
<1>1. RequestInv(r) /\ RecordsTyped /\ BooksInv /\ IdsInv
  BY DEF PrivateInv
<1>2. /\ req' \in [Requests -> Request] /\ req'[r].stage = "done"
      /\ \A q \in Requests \ {r} : req'[q] = req[q]
  BY <1>1, Goes DEF RecordsTyped, Stage
<1>3. /\ req[r].mask \in ApiKeys /\ req[r].purpose \in Purposes
      /\ req[r].code \in Codes
  BY <1>1 DEF RequestInv, RecordsTyped, Request
<1>4. /\ row' \in Row /\ row'.status # "reauth_required"
  BY <1>3, RowIsTyped
<1>5. /\ row'.id = id /\ row'.api = api /\ row'.secret = secret
      /\ row'.mask = req[r].mask /\ row'.purpose = req[r].purpose
      /\ row'.code = req[r].code /\ row'.canUse = (req[r].code = "verified")
  BY DEF RowOf
<1>6. Exists'
  BY <1>4 DEF Exists, NoRow, Row, None
<1>7. StepOf(r) /\ r \notin placed' /\ ~ \E o \in orders' : o.req = r
  BY <1>2, NoOperation
<1>8. KeepsIds
  BY <1>5, <1>6 DEF KeepsIds
<1>9. \A q \in Requests : RequestInv(q)'
  <2>1. RequestInv(r)'
    BY <1>2, <1>7, Aside
  <2> QED
    BY <1>1, <1>7, <1>8, <2>1, OthersStay DEF PrivateInv, BooksInv, OpAssumption
<1>10. RecordsTyped' /\ BooksInv'
  BY <1>1, <1>2, <1>4 DEF RecordsTyped, BooksInv
<1>11. RowInv'
  <2>1. HistoryExplainsRow'
    <3> DEFINE h == [conn |-> id, code |-> req[r].code, purpose |-> req[r].purpose]
    <3>1. h \in history' /\ h.conn = row'.id /\ h.code = row'.code
          /\ h.purpose = row'.purpose
      BY <1>5 DEF Remembers
    <3> QED
      BY <3>1 DEF HistoryExplainsRow
  <2>2. VerdictOfKeys'
    <3>1. ~overtaken' => row'.mask = row'.api
      BY <1>5
    <3>2. ~overtaken' /\ row'.canUse => KeysOf(row)' \in verified'
      BY <1>1, <1>5 DEF KeysOf, RequestInv
    <3> QED
      BY <3>1, <3>2 DEF VerdictOfKeys
  <2> QED
    BY <1>4, <2>1, <2>2 DEF RowInv
<1>12. IdsInv'
  <2>1. PICK n \in Nat : /\ removed = 1 .. n /\ n <= Cardinality(Finished)
                         /\ Exists => row.id = n + 1
    BY <1>1 DEF IdsInv
  <2>2. n <= Cardinality(Finished')
    BY <1>7, <2>1, FinishedGrows
  <2>3. NextId = n + 1
    <3>1. Cardinality(1 .. n) = n
      BY FS_Interval
    <3> QED
      BY <2>1, <3>1 DEF NextId
  <2>4. row'.id = n + 1
    BY <1>5, <2>1, <2>3
  <2> QED
    BY <2>1, <2>2, <2>4 DEF IdsInv
<1> QED
  BY <1>9, <1>10, <1>11, <1>12 DEF PrivateInv

LEMMA CommitCreateStep ==
  ASSUME OpAssumption, PrivateInv, NEW r \in Requests, CommitCreate(r),
         UNCHANGED opVars
  PROVE  PrivateInv'
<1>1. /\ req[r].stage = "commit" /\ req[r].kind = "create"
      /\ Goto(r, "done") /\ UNCHANGED <<removed, verified>>
      /\ UNCHANGED <<op, placed, orders, used, faults>>
  BY DEF CommitCreate, opVars
<1>2. CASE Exists
  BY <1>1, <1>2, GoesAside DEF CommitCreate
<1>3. CASE ~Exists
  <2>1. /\ row' = RowOf(NextId, req[r].pair[1], req[r].pair[2], req[r].mask,
                           req[r].purpose, req[r].code)
        /\ Remembers(NextId, r) /\ overtaken' = FALSE
    BY <1>3 DEF CommitCreate
  <2>2. /\ req[r].pair \in Pairs /\ req[r].mask = req[r].pair[1]
    BY <1>1 DEF PrivateInv, RequestInv
  <2>3. NextId \in Nat \ {0}
    <3>1. PICK n \in Nat : removed = 1 .. n
      BY DEF PrivateInv, IdsInv
    <3>2. Cardinality(1 .. n) = n
      BY FS_Interval
    <3> QED
      BY <3>1, <3>2 DEF NextId
  <2>4. /\ req[r].pair[1] \in ApiKeys /\ req[r].pair[2] \in Secrets
        /\ req[r].pair = <<req[r].pair[1], req[r].pair[2]>>
    BY <2>2 DEF Pairs
  <2>5. ASSUME NEW id \in Nat \ {0}, id = NextId, NEW api \in ApiKeys,
               NEW secret \in Secrets, api = req[r].pair[1], secret = req[r].pair[2]
        PROVE  PrivateInv'
    BY <1>1, <1>3, <2>1, <2>2, <2>4, <2>5, RowWritten
  <2> QED
    BY <2>3, <2>4, <2>5
<1> QED
  BY <1>2, <1>3

LEMMA CommitUpdateStep ==
  ASSUME OpAssumption, PrivateInv, NEW r \in Requests, CommitUpdate(r),
         UNCHANGED opVars
  PROVE  PrivateInv'
<1>1. /\ req[r].stage = "commit" /\ req[r].kind = "update"
      /\ Goto(r, "done") /\ UNCHANGED <<removed, verified>>
      /\ UNCHANGED <<op, placed, orders, used, faults>>
  BY DEF CommitUpdate, opVars
<1>2. CASE ~SameId(r)
  BY <1>1, <1>2, GoesAside DEF CommitUpdate
<1>3. CASE SameId(r)
  <2>1. /\ row' = RowOf(row.id, req[r].pair[1], req[r].pair[2], req[r].mask,
                           req[r].purpose, req[r].code)
        /\ Remembers(row.id, r) /\ overtaken' = req[r].tainted
        /\ Exists
    BY <1>3 DEF CommitUpdate, SameId
  <2>2. /\ req[r].pair \in Pairs
        /\ req[r].mask = req[r].pair[1] \/ req[r].tainted
        /\ req[r].tainted \in BOOLEAN
    BY <1>1 DEF PrivateInv, RequestInv, RecordsTyped, Request
  <2>3. row.id \in Nat \ {0}
    BY <2>1, ARowIsNone DEF PrivateInv, RecordsTyped, Row
  <2>4. /\ req[r].pair[1] \in ApiKeys /\ req[r].pair[2] \in Secrets
        /\ req[r].pair = <<req[r].pair[1], req[r].pair[2]>>
    BY <2>2 DEF Pairs
  <2>5. ASSUME NEW id \in Nat \ {0}, id = row.id, NEW api \in ApiKeys,
               NEW secret \in Secrets, api = req[r].pair[1], secret = req[r].pair[2]
        PROVE  PrivateInv'
    BY <1>1, <2>1, <2>2, <2>4, <2>5, RowWritten
  <2> QED
    BY <2>3, <2>4, <2>5
<1> QED
  BY <1>2, <1>3

LEMMA CommitValidateStep ==
  ASSUME OpAssumption, PrivateInv, NEW r \in Requests, CommitValidate(r),
         UNCHANGED opVars
  PROVE  PrivateInv'
<1>1. /\ req[r].stage = "commit" /\ req[r].kind = "validate"
      /\ Goto(r, "done") /\ UNCHANGED <<removed, verified>>
      /\ UNCHANGED <<op, placed, orders, used, faults>>
  BY DEF CommitValidate, opVars
<1>2. CASE ~SameId(r)
  BY <1>1, <1>2, GoesAside DEF CommitValidate
<1>3. CASE SameId(r)
  <2>1. /\ row' = RowOf(row.id, row.api, row.secret, req[r].mask,
                           req[r].purpose, req[r].code)
        /\ Remembers(row.id, r)
        /\ overtaken' = (overtaken \/ KeysReplaced(r))
        /\ Exists
    BY <1>3 DEF CommitValidate, SameId
  <2>2. /\ req[r].mask = req[r].pair[1]
        /\ req[r].pair = KeysOf(req[r].read)
    BY <1>1 DEF PrivateInv, RequestInv
  <2>3. /\ row.id \in Nat \ {0} /\ row.api \in ApiKeys /\ row.secret \in Secrets
    BY <2>1, ARowIsNone DEF PrivateInv, RecordsTyped, Row
  <2>4. ~overtaken' => /\ req[r].mask = row.api
                       /\ req[r].pair = <<row.api, row.secret>>
    <3>1. ASSUME ~overtaken'
          PROVE  KeysOf(row) = KeysOf(req[r].read)
      BY <2>1, <3>1 DEF KeysReplaced
    <3>2. KeysOf(row) = <<row.api, row.secret>> /\ KeysOf(row)[1] = row.api
      BY DEF KeysOf
    <3> QED
      BY <2>2, <3>1, <3>2
  <2>5. overtaken' \in BOOLEAN
    BY <2>1
  <2>6. ASSUME NEW id \in Nat \ {0}, id = row.id, NEW api \in ApiKeys,
               NEW secret \in Secrets, api = row.api, secret = row.secret
        PROVE  PrivateInv'
    BY <1>1, <2>1, <2>4, <2>5, <2>6, RowWritten
  <2> QED
    BY <2>3, <2>6
<1> QED
  BY <1>2, <1>3

(* The delete by id: the number of a row that goes is never used again.    *)
LEMMA CommitRemoveStep ==
  ASSUME OpAssumption, PrivateInv, NEW r \in Requests, CommitRemove(r),
         UNCHANGED opVars
  PROVE  PrivateInv'
<1>1. /\ req[r].stage = "remove"
      /\ Goto(r, "done") /\ UNCHANGED <<verified, overtaken>>
      /\ UNCHANGED <<op, placed, orders, used, faults>>
  BY DEF CommitRemove, opVars
<1>2. CASE ~SameId(r)
  BY <1>1, <1>2, GoesAside DEF CommitRemove
<1>3. CASE SameId(r)
  <2>1. row' = NoRow /\ removed' = removed \cup {row.id} /\ Exists
    BY <1>3 DEF CommitRemove, SameId
  <2>2. RecordsTyped /\ BooksInv /\ IdsInv
    BY DEF PrivateInv
  <2>3. /\ req' \in [Requests -> Request] /\ req'[r].stage = "done"
        /\ \A q \in Requests \ {r} : req'[q] = req[q]
    BY <1>1, <2>2, Goes DEF RecordsTyped, Stage
  <2>4. StepOf(r) /\ r \notin placed' /\ ~ \E o \in orders' : o.req = r
    BY <1>1, <2>1, <2>3, NoOperation
  <2>5. KeepsIds /\ ~Exists'
    BY <2>1 DEF KeepsIds, Exists
  <2>6. \A q \in Requests : RequestInv(q)'
    <3>1. RequestInv(r)'
      BY <2>3, <2>4, Aside
    <3>2. faults \in Nat /\ faults' \in Nat
      BY <1>1, <2>2 DEF BooksInv, OpAssumption
    <3>3. ASSUME NEW q \in Requests \ {r} PROVE RequestInv(q)'
      BY <2>4, <2>5, <3>2, OthersStay DEF PrivateInv
    <3> QED
      BY <3>1, <3>3
  <2>7. RecordsTyped' /\ BooksInv'
    BY <1>1, <2>1, <2>2, <2>3 DEF RecordsTyped, BooksInv
  <2>8. RowInv'
    BY <2>5 DEF RowInv, HistoryExplainsRow, VerdictOfKeys
  <2>9. IdsInv'
    <3>1. PICK n \in Nat : /\ removed = 1 .. n /\ n <= Cardinality(Finished)
                           /\ row.id = n + 1
      BY <2>1, <2>2 DEF IdsInv
    <3>2. n + 1 <= Cardinality(Finished')
      BY <2>3, <2>4, <3>1, FinishedGrows
    <3>3. removed' = 1 .. n + 1 /\ n + 1 \in Nat
      BY <2>1, <3>1
    <3> QED
      BY <2>5, <3>2, <3>3 DEF IdsInv
  <2> QED
    BY <2>6, <2>7, <2>8, <2>9 DEF PrivateInv
<1> QED
  BY <1>2, <1>3

-----------------------------------------------------------------------------
(* Operations: what is known of their keys and failures.                   *)
LEMMA CredentialFailures ==
  ASSUME RecordsTyped, NEW trade
  PROVE  /\ CredentialFailure(trade) \in AFailure
         /\ CredentialFailure(trade) = NoFailure =>
              Exists /\ KeysOf(row) \in Pairs
         /\ CredentialFailure(trade) # NoFailure =>
              CredentialFailure(trade).kind = "app"
<1>1. Exists => KeysOf(row) \in Pairs
  BY ARowIsNone DEF RecordsTyped, Row, KeysOf, Pairs
<1>2. \A http \in Nat, word \in Words :
        /\ AppError(http, word) \in AFailure
        /\ AppError(http, word) # NoFailure
        /\ AppError(http, word).kind = "app"
  BY DEF AppError, Failure, AFailure, NoFailure
<1>3. NoFailure \in AFailure
  BY DEF NoFailure, Failure, AFailure, Words
<1>4. {"not_connected", "must_be_verified", "permission"} \subseteq Words
  BY DEF Words
<1>5. \/ CredentialFailure(trade) = NoFailure /\ Exists
      \/ \E http \in {400, 403, 404},
            word \in {"not_connected", "must_be_verified", "permission"} :
           CredentialFailure(trade) = AppError(http, word)
  BY DEF CredentialFailure
<1> QED
  BY <1>1, <1>2, <1>3, <1>4, <1>5

(* An operation starts.                                                    *)
LEMMA Starts ==
  ASSUME RecordsTyped, NEW r \in Requests,
         NEW kind \in {"order", "portfolio", "trading"},
         NEW st \in {"context", "calling", "mark", "done"},
         req' = [req EXCEPT ![r].kind = kind, ![r].stage = st]
  PROVE  /\ req' \in [Requests -> Request]
         /\ req'[r].stage = st /\ req'[r].kind = kind
         /\ \A q \in Requests \ {r} : req'[q] = req[q]
<1> DEFINE started == [req[r] EXCEPT !.kind = kind, !.stage = st]
<1>1. st \in Stage
  BY DEF Stage
<1>2. started \in Request /\ started.stage = st /\ started.kind = kind
  BY <1>1 DEF RecordsTyped, Request
<1>3. req' = [req EXCEPT ![r] = started]
  BY DEF RecordsTyped, Request
<1> HIDE DEF started
<1> QED
  BY <1>2, <1>3 DEF RecordsTyped

LEMMA BeginOrderStep ==
  ASSUME OpAssumption, PrivateInv, NEW r \in Requests, BeginOrder(r)
  PROVE  PrivateInv'
<1>1. /\ req[r].stage = "idle"
      /\ UNCHANGED <<row, removed, history, verified, overtaken, placed, orders,
                     used, faults>>
  BY DEF BeginOrder
<1>2. RequestInv(r) /\ RecordsTyped /\ BooksInv
  BY DEF PrivateInv
<1>3. PICK st \in {"context", "done"} :
        /\ req' = [req EXCEPT ![r].kind = "order", ![r].stage = st]
        /\ st = "context" => Exists
  BY DEF BeginOrder
<1>4. /\ req' \in [Requests -> Request]
      /\ req'[r].stage = st /\ req'[r].kind = "order"
      /\ \A q \in Requests \ {r} : req'[q] = req[q]
  BY <1>2, <1>3, Starts
<1>5. PICK id : id = IF Exists THEN row.id ELSE None
  OBVIOUS
<1>6. id \in Nat
  BY <1>2, <1>5, ARowIsNone DEF RecordsTyped, Row, None
<1>7. op' = [op EXCEPT ![r].conn = id]
  BY <1>5 DEF BeginOrder
<1>8. /\ op' \in [Requests -> Operation] /\ op'[r].conn = id
      /\ \A q \in Requests \ {r} : op'[q] = op[q]
  BY <1>2, <1>6, <1>7 DEF RecordsTyped, Operation
<1>9. r \notin placed' /\ ~ \E o \in orders' : o.req = r
  BY <1>1, <1>2 DEF RequestInv
<1>10. StepOf(r)
  BY <1>1, <1>2, <1>4, <1>8 DEF StepOf, BooksInv, OpAssumption
<1>11. RequestInv(r)'
  <2>1. st = "context" => Known(op[r].conn)'
    BY <1>1, <1>3, <1>5, <1>8 DEF Known, Exists
  <2> QED
    BY <1>4, <1>9, <2>1 DEF RequestInv
<1>12. RecordsTyped' /\ BooksInv'
  BY <1>1, <1>2, <1>4, <1>8 DEF RecordsTyped, BooksInv
<1> QED
  BY <1>1, <1>10, <1>11, <1>12, RowUntouched

LEMMA OrderKeysStep ==
  ASSUME OpAssumption, PrivateInv, NEW r \in Requests, OrderKeys(r)
  PROVE  PrivateInv'
<1>1. /\ req[r].stage = "context"
      /\ UNCHANGED <<row, removed, history, verified, overtaken, placed, orders,
                     used, faults>>
  BY DEF OrderKeys
<1>2. RequestInv(r) /\ RecordsTyped /\ BooksInv
  BY DEF PrivateInv
<1>3. r \notin placed' /\ ~ \E o \in orders' : o.req = r
  BY <1>1, <1>2 DEF RequestInv
<1>4. ASSUME NEW st \in {"calling", "done"}, Goto(r, st),
             op' \in [Requests -> Operation], op'[r].conn = op[r].conn,
             \A q \in Requests \ {r} : op'[q] = op[q],
             st = "calling" => op'[r].keys \in Pairs
      PROVE  PrivateInv'
  <2>1. /\ req' \in [Requests -> Request] /\ req'[r].stage = st
        /\ st # "done" => req'[r].kind = req[r].kind
        /\ \A q \in Requests \ {r} : req'[q] = req[q]
    BY <1>2, <1>4, Goes DEF RecordsTyped, Stage
  <2>2. StepOf(r)
    BY <1>1, <1>2, <1>4, <2>1 DEF StepOf, BooksInv, OpAssumption
  <2>3. req[r].kind = "order" => Known(op[r].conn)'
    BY <1>1, <1>2, <1>4 DEF RequestInv, Known, Exists
  <2>4. RequestInv(r)'
    BY <1>3, <1>4, <2>1, <2>3 DEF RequestInv
  <2>5. RecordsTyped' /\ BooksInv'
    BY <1>1, <1>2, <1>4, <2>1 DEF RecordsTyped, BooksInv
  <2> QED
    BY <1>1, <2>2, <2>4, <2>5, RowUntouched
<1>5. CASE CredentialFailure(TRUE) = NoFailure
  <2>1. op' = [op EXCEPT ![r].keys = KeysOf(row)] /\ Goto(r, "calling")
    BY <1>5 DEF OrderKeys
  <2>2. KeysOf(row) \in Pairs
    BY <1>2, <1>5, CredentialFailures
  <2>3. /\ op' \in [Requests -> Operation] /\ op'[r].conn = op[r].conn
        /\ op'[r].keys \in Pairs
        /\ \A q \in Requests \ {r} : op'[q] = op[q]
    BY <1>2, <2>1, <2>2 DEF RecordsTyped, Operation
  <2> QED
    BY <1>4, <2>1, <2>3
<1>6. CASE CredentialFailure(TRUE) # NoFailure
  <2>1. /\ op' = [op EXCEPT ![r].failure = CredentialFailure(TRUE)]
        /\ Goto(r, "done")
    BY <1>6 DEF OrderKeys
  <2>2. CredentialFailure(TRUE) \in AFailure
    BY <1>2, CredentialFailures
  <2>3. /\ op' \in [Requests -> Operation] /\ op'[r].conn = op[r].conn
        /\ \A q \in Requests \ {r} : op'[q] = op[q]
    BY <1>2, <2>1, <2>2 DEF RecordsTyped, Operation
  <2> QED
    BY <1>4, <2>1, <2>3
<1> QED
  BY <1>5, <1>6

LEMMA BeginReadStep ==
  ASSUME OpAssumption, PrivateInv, NEW r \in Requests,
         NEW kind \in {"portfolio", "trading"}, BeginRead(r, kind)
  PROVE  PrivateInv'
<1>1. /\ req[r].stage = "idle"
      /\ UNCHANGED <<row, removed, history, verified, overtaken, placed, orders,
                     used, faults>>
  BY DEF BeginRead
<1>2. RequestInv(r) /\ RecordsTyped /\ BooksInv
  BY DEF PrivateInv
<1>3. r \notin placed' /\ ~ \E o \in orders' : o.req = r
  BY <1>1, <1>2 DEF RequestInv
<1>4. ASSUME NEW st \in {"calling", "mark"},
             req' = [req EXCEPT ![r].kind = kind, ![r].stage = st],
             op' \in [Requests -> Operation],
             \A q \in Requests \ {r} : op'[q] = op[q],
             st = "calling" => op'[r].keys \in Pairs,
             st = "mark" => op'[r].failure.kind = "app"
      PROVE  PrivateInv'
  <2>1. /\ req' \in [Requests -> Request]
        /\ req'[r].stage = st /\ req'[r].kind = kind
        /\ \A q \in Requests \ {r} : req'[q] = req[q]
    BY <1>2, <1>4, Starts
  <2>2. StepOf(r)
    BY <1>1, <1>2, <1>4, <2>1 DEF StepOf, BooksInv, OpAssumption
  <2>3. RequestInv(r)'
    BY <1>3, <1>4, <2>1 DEF RequestInv
  <2>4. RecordsTyped' /\ BooksInv'
    BY <1>1, <1>2, <1>4, <2>1 DEF RecordsTyped, BooksInv
  <2> QED
    BY <1>1, <2>2, <2>3, <2>4, RowUntouched
<1>5. CASE CredentialFailure(FALSE) = NoFailure
  <2>1. /\ op' = [op EXCEPT ![r].keys = KeysOf(row)]
        /\ req' = [req EXCEPT ![r].kind = kind, ![r].stage = "calling"]
    BY <1>5 DEF BeginRead
  <2>2. KeysOf(row) \in Pairs
    BY <1>2, <1>5, CredentialFailures
  <2>3. /\ op' \in [Requests -> Operation] /\ op'[r].keys \in Pairs
        /\ \A q \in Requests \ {r} : op'[q] = op[q]
    BY <1>2, <2>1, <2>2 DEF RecordsTyped, Operation
  <2> QED
    BY <1>4, <2>1, <2>3
<1>6. CASE CredentialFailure(FALSE) # NoFailure
  <2>1. /\ op' = [op EXCEPT ![r].failure = CredentialFailure(FALSE)]
        /\ req' = [req EXCEPT ![r].kind = kind, ![r].stage = "mark"]
    BY <1>6 DEF BeginRead
  <2>2. /\ CredentialFailure(FALSE) \in AFailure
        /\ CredentialFailure(FALSE).kind = "app"
    BY <1>2, <1>6, CredentialFailures
  <2>3. /\ op' \in [Requests -> Operation] /\ op'[r].failure.kind = "app"
        /\ \A q \in Requests \ {r} : op'[q] = op[q]
    BY <1>2, <2>1, <2>2 DEF RecordsTyped, Operation
  <2> QED
    BY <1>4, <2>1, <2>3
<1> QED
  BY <1>5, <1>6

(* The exchange gets the keys, and an order it accepts is placed whether   *)
(* or not its answer arrives.                                              *)
LEMMA ProviderCallStep ==
  ASSUME OpAssumption, PrivateInv, NEW r \in Requests, ProviderCall(r)
  PROVE  PrivateInv'
<1>1. /\ req[r].stage = "calling" /\ Goto(r, "mark")
      /\ used' = used \cup {op[r].keys}
      /\ UNCHANGED <<row, removed, history, verified, overtaken, orders, faults>>
  BY DEF ProviderCall
<1>2. RequestInv(r) /\ RecordsTyped /\ BooksInv
  BY DEF PrivateInv
<1>3. r \notin placed /\ ~ \E o \in orders : o.req = r
  BY <1>1, <1>2 DEF RequestInv
<1>4. PICK failure \in AFailure, accepts \in BOOLEAN :
        /\ Answers(r, failure, accepts)
        /\ accepts => req[r].kind = "order"
        /\ failure = NoFailure /\ req[r].kind = "order" => accepts
  <2>1. NoFailure \in AFailure
    BY DEF NoFailure, Failure, AFailure, Words
  <2>2. \A f \in UpstreamFailures : f \in AFailure /\ f # NoFailure
    BY DEF OpAssumption, AFailure, NoFailure, Failure
  <2>3. /\ Failure("request", 400, "signature") \in AFailure
        /\ Failure("request", 400, "signature") # NoFailure
    BY DEF NoFailure, Failure, AFailure, Words
  <2>4. \/ Answers(r, NoFailure, req[r].kind = "order")
        \/ \E f \in UpstreamFailures, accepts \in BOOLEAN :
             (accepts => req[r].kind = "order") /\ Answers(r, f, accepts)
        \/ Answers(r, Failure("request", 400, "signature"), FALSE)
    BY DEF ProviderCall
  <2>5. CASE Answers(r, NoFailure, req[r].kind = "order")
    <3>1. (req[r].kind = "order") \in BOOLEAN
      OBVIOUS
    <3> QED
      BY <2>1, <2>5, <3>1
  <2>6. CASE \E f \in UpstreamFailures, accepts \in BOOLEAN :
               (accepts => req[r].kind = "order") /\ Answers(r, f, accepts)
    BY <2>2, <2>6
  <2>7. CASE Answers(r, Failure("request", 400, "signature"), FALSE)
    BY <2>3, <2>7
  <2> QED
    BY <2>4, <2>5, <2>6, <2>7
<1>5. /\ req' \in [Requests -> Request] /\ req'[r].stage = "mark"
      /\ req'[r].kind = req[r].kind
      /\ \A q \in Requests \ {r} : req'[q] = req[q]
  BY <1>1, <1>2, Goes DEF RecordsTyped, Stage
<1>6. /\ op' \in [Requests -> Operation] /\ op'[r].conn = op[r].conn
      /\ op'[r].keys = op[r].keys /\ op'[r].failure = failure
      /\ op'[r].lost = (accepts /\ failure # NoFailure)
      /\ \A q \in Requests \ {r} : op'[q] = op[q]
  <2>1. PICK missed \in BOOLEAN : missed = (accepts /\ failure # NoFailure)
    OBVIOUS
  <2>2. op' = [op EXCEPT ![r].failure = failure, ![r].lost = missed]
    BY <1>4, <2>1 DEF Answers
  <2> QED
    BY <1>2, <2>1, <2>2 DEF RecordsTyped, Operation
<1>7. /\ placed \subseteq placed' /\ placed' \subseteq placed \cup {r}
      /\ r \in placed' <=> accepts
  BY <1>3, <1>4 DEF Answers
<1>8. StepOf(r)
  BY <1>1, <1>2, <1>5, <1>6, <1>7 DEF StepOf, BooksInv, OpAssumption
<1>9. RequestInv(r)'
  <2>1. req[r].kind = "order" => Known(op[r].conn)'
    BY <1>1, <1>2, <1>6 DEF RequestInv, Known, Exists
  <2>2. op'[r].keys \in used'
    BY <1>1, <1>6
  <2>3. req[r].kind = "order" /\ op'[r].failure = NoFailure => r \in placed'
    BY <1>4, <1>6, <1>7
  <2>4. r \in placed' => /\ req'[r].kind = "order"
                         /\ op'[r].failure = NoFailure \/ op'[r].lost
    BY <1>4, <1>5, <1>6, <1>7
  <2>5. ~ \E o \in orders' : o.req = r
    BY <1>1, <1>3
  <2> QED
    BY <1>5, <2>1, <2>2, <2>3, <2>4, <2>5 DEF RequestInv
<1>10. RecordsTyped' /\ BooksInv'
  <2>1. op[r].keys \in Pairs
    BY <1>1, <1>2 DEF RequestInv
  <2> QED
    BY <1>1, <1>2, <1>5, <1>6, <1>7, <2>1 DEF RecordsTyped, BooksInv
<1> QED
  BY <1>1, <1>8, <1>9, <1>10, RowUntouched

(* Only the portfolio service hands on a code that sends the user to       *)
(* sign in again, and it is a refusal of the keys.                         *)
LEMMA ReauthByRefusal ==
  ASSUME RecordsTyped, NEW r \in Requests,
         RuntimeFailureStatus(NormalizeFailureCode(MarkCode(r)))
           = "reauth_required"
  PROVE  /\ Classify(op[r].failure) \in KeyCodes
         /\ op[r].failure.kind # "app"
<1>1. NormalizeFailureCode(MarkCode(r)) \in KeyCodes
  BY DEF RuntimeFailureStatus, TransientCodes, KeyCodes
<1>2. MarkCode(r) \in KeyCodes
  BY <1>1 DEF NormalizeFailureCode, KnownCodes, TransientCodes, KeyCodes
<1>3. TradingCode(op[r].failure) \notin KeyCodes
  <2>1. NormalizeAppError(op[r].failure) \notin KeyCodes
    BY DEF NormalizeAppError, KeyCodes
  <2> QED
    BY <2>1 DEF TradingCode, KeyCodes
<1>4. PortfolioCode(op[r].failure) \in KeyCodes
  BY <1>2, <1>3 DEF MarkCode
<1> QED
  BY <1>4 DEF PortfolioCode, KeyCodes

LEMMA MarkStatuses ==
  ASSUME NEW code
  PROVE  RuntimeFailureStatus(code) \in Statuses
  BY DEF RuntimeFailureStatus, Statuses, TransientCodes, KeyCodes

LEMMA MarkSyncStep ==
  ASSUME OpAssumption, PrivateInv, NEW r \in Requests, MarkSync(r)
  PROVE  PrivateInv'
<1>1. /\ req[r].stage = "mark"
      /\ UNCHANGED <<removed, history, verified, overtaken>>
      /\ UNCHANGED <<op, placed, orders, used, faults>>
  BY DEF MarkSync, opVars
<1>2. RequestInv(r) /\ RecordsTyped /\ BooksInv
  BY DEF PrivateInv
<1>3. PICK st \in {"done", "record", "reject"} :
        /\ Goto(r, st)
        /\ st = "done" <=> req[r].kind # "order"
        /\ st = "record" => op[r].failure = NoFailure
        /\ st = "reject" => op[r].failure # NoFailure
  <2>1. PICK st : st = IF req[r].kind # "order" THEN "done"
                       ELSE IF op[r].failure = NoFailure THEN "record" ELSE "reject"
    OBVIOUS
  <2>2. Goto(r, st)
    BY <2>1, Zenon DEF MarkSync
  <2> QED
    BY <2>1, <2>2
<1>4. /\ req' \in [Requests -> Request] /\ req'[r].stage = st
      /\ st # "done" => req'[r].kind = req[r].kind
      /\ \A q \in Requests \ {r} : req'[q] = req[q]
  BY <1>2, <1>3, Goes DEF RecordsTyped, Stage
<1>5. PICK mark \in Statuses :
        /\ row' = IF ~Exists THEN NoRow ELSE [row EXCEPT !.status = mark]
        /\ mark = "reauth_required" =>
             /\ op[r].failure # NoFailure /\ op[r].failure.kind # "app"
             /\ Classify(op[r].failure) \in KeyCodes
  <2>1. CASE op[r].failure = NoFailure
    <3>1. row' = IF ~Exists THEN NoRow ELSE [row EXCEPT !.status = "active"]
      BY <2>1 DEF MarkSync
    <3> QED
      BY <3>1 DEF Statuses
  <2>2. CASE op[r].failure # NoFailure
    <3>1. PICK mark : mark = RuntimeFailureStatus(NormalizeFailureCode(MarkCode(r)))
      OBVIOUS
    <3>2. row' = IF ~Exists THEN NoRow ELSE [row EXCEPT !.status = mark]
      BY <2>2, <3>1 DEF MarkSync
    <3>3. mark \in Statuses
      BY <3>1, MarkStatuses
    <3>4. mark = "reauth_required" =>
            /\ op[r].failure.kind # "app"
            /\ Classify(op[r].failure) \in KeyCodes
      BY <1>2, <3>1, ReauthByRefusal
    <3> QED
      BY <2>2, <3>2, <3>3, <3>4
  <2> QED
    BY <2>1, <2>2
<1>6. /\ row' \in Row \cup {NoRow} /\ Exists' = Exists
      /\ Exists => /\ row'.id = row.id /\ row'.api = row.api
                      /\ row'.secret = row.secret /\ row'.mask = row.mask
                      /\ row'.purpose = row.purpose /\ row'.code = row.code
                      /\ row'.canUse = row.canUse /\ row'.status = mark
  <2>1. CASE Exists
    <3>1. row \in Row /\ row' = [row EXCEPT !.status = mark]
      BY <1>2, <1>5, <2>1, ARowIsNone DEF RecordsTyped
    <3>2. /\ row' \in Row
          /\ row'.id = row.id /\ row'.api = row.api
          /\ row'.secret = row.secret /\ row'.mask = row.mask
          /\ row'.purpose = row.purpose /\ row'.code = row.code
          /\ row'.canUse = row.canUse /\ row'.status = mark
      BY <3>1 DEF Row
    <3>3. NoRow \notin Row
      BY DEF Row, NoRow, None
    <3> QED
      BY <2>1, <3>2, <3>3 DEF Exists
  <2>2. CASE ~Exists
    BY <1>5, <2>2 DEF Exists
  <2> QED
    BY <2>1, <2>2
<1>7. StepOf(r)
  BY <1>1, <1>2, <1>4 DEF StepOf, BooksInv, OpAssumption
<1>8. KeepsIds
  BY <1>1, <1>6 DEF KeepsIds
<1>9. \A q \in Requests : RequestInv(q)'
  <2>1. RequestInv(r)'
    <3>1. st = "record" => r \in placed /\ req'[r].kind = "order"
      BY <1>1, <1>2, <1>3, <1>4 DEF RequestInv
    <3>2. st = "record" => Known(op[r].conn)'
      <4>1. PICK id : id = op[r].conn /\ op'[r].conn = id
        BY <1>1
      <4>2. st = "record" => Known(id)
        BY <1>1, <1>2, <1>3, <4>1 DEF RequestInv
      <4>3. Known(id) => Known(id)'
        BY <1>8, KnownStays
      <4> QED
        BY <4>1, <4>2, <4>3 DEF Known
    <3>3. r \in placed => st # "done" /\ (st = "reject" => op[r].lost)
      BY <1>1, <1>2, <1>3 DEF RequestInv
    <3>4. ~ \E o \in orders' : o.req = r
      BY <1>1, <1>2 DEF RequestInv
    <3>5. op'[r] = op[r] /\ placed' = placed
      BY <1>1
    <3> QED
      BY <1>3, <1>4, <3>1, <3>2, <3>3, <3>4, <3>5 DEF RequestInv, Accounted
  <2>2. faults \in Nat /\ faults' \in Nat
    BY <1>1, <1>2 DEF BooksInv, OpAssumption
  <2>3. ASSUME NEW q \in Requests \ {r} PROVE RequestInv(q)'
    BY <1>7, <1>8, <2>2, OthersStay DEF PrivateInv
  <2> QED
    BY <2>1, <2>3
<1>10. RecordsTyped' /\ BooksInv'
  BY <1>1, <1>2, <1>4, <1>6 DEF RecordsTyped, BooksInv
<1>11. RowInv'
  <2>1. HistoryExplainsRow' /\ VerdictOfKeys'
    <3>1. HistoryExplainsRow /\ VerdictOfKeys
      BY DEF PrivateInv, RowInv
    <3>2. HistoryExplainsRow'
      BY <1>1, <1>6, <3>1 DEF HistoryExplainsRow
    <3>3. VerdictOfKeys'
      BY <1>1, <1>6, <3>1 DEF VerdictOfKeys, KeysOf
    <3> QED
      BY <3>2, <3>3
  <2>2. Exists' /\ row'.status = "reauth_required" => Refused(r)'
    <3>1. mark = "reauth_required" => op[r].keys \in used
      BY <1>1, <1>2, <1>5 DEF RequestInv
    <3> QED
      BY <1>1, <1>4, <1>5, <1>6, <3>1 DEF Refused
  <2> QED
    BY <2>1, <2>2 DEF RowInv
<1>12. IdsInv'
  <2>1. PICK n \in Nat : /\ removed = 1 .. n /\ n <= Cardinality(Finished)
                         /\ Exists => row.id = n + 1
    BY DEF PrivateInv, IdsInv
  <2>2. n <= Cardinality(Finished')
    BY <1>7, <2>1, FinishedGrows
  <2> QED
    BY <1>1, <1>6, <2>1, <2>2 DEF IdsInv
<1> QED
  BY <1>9, <1>10, <1>11, <1>12 DEF PrivateInv

(* The record of an order: inserted once, or refused because the           *)
(* connection is gone or the database fails.                               *)
LEMMA RecordStep ==
  ASSUME OpAssumption, PrivateInv, NEW r \in Requests,
         RecordSubmitted(r) \/ RecordRejected(r)
  PROVE  PrivateInv'
<1>1. /\ UNCHANGED <<row, removed, history, verified, overtaken, placed, used, op>>
      /\ req[r].stage \in {"record", "reject"}
  BY DEF RecordSubmitted, RecordRejected, Inserts, InsertFails
<1>2. RequestInv(r) /\ RecordsTyped /\ BooksInv
  BY DEF PrivateInv
<1>3. ~ \E o \in orders : o.req = r
  BY <1>1, <1>2 DEF RequestInv
<1>4. ASSUME NEW st \in {"reject", "done"}, Goto(r, st),
             orders \subseteq orders', faults <= faults', faults' \in 0 .. MaxFaults,
             st = "reject" => orders' = orders,
             r \in placed => Accounted(r)',
             \/ orders' = orders
             \/ \E entry \in {"submitted", "rejected"} :
                  /\ orders' = orders \cup {[req |-> r, status |-> entry]}
                  /\ entry = "submitted" => r \in placed
      PROVE  PrivateInv'
  <2>1. /\ req' \in [Requests -> Request] /\ req'[r].stage = st
        /\ \A q \in Requests \ {r} : req'[q] = req[q]
    BY <1>2, <1>4, Goes DEF RecordsTyped, Stage
  <2>2. /\ \A o \in orders' \ orders : o.req = r
        /\ orders' \subseteq [req : Requests, status : {"submitted", "rejected"}]
        /\ \A a, b \in orders' : a.req = b.req => a = b
        /\ \A o \in orders' : o.status = "submitted" => o.req \in placed
    <3>1. /\ orders \subseteq [req : Requests, status : {"submitted", "rejected"}]
          /\ \A a, b \in orders : a.req = b.req => a = b
          /\ \A o \in orders : o.status = "submitted" => o.req \in placed
      BY <1>2 DEF BooksInv
    <3>2. ASSUME NEW entry \in {"submitted", "rejected"},
                 orders' = orders \cup {[req |-> r, status |-> entry]},
                 entry = "submitted" => r \in placed
          PROVE  /\ \A o \in orders' \ orders : o.req = r
                 /\ orders' \subseteq [req : Requests, status : {"submitted", "rejected"}]
                 /\ \A a, b \in orders' : a.req = b.req => a = b
                 /\ \A o \in orders' : o.status = "submitted" => o.req \in placed
      <4> DEFINE new == [req |-> r, status |-> entry]
      <4>1. /\ new.req = r /\ new.status = entry
            /\ new \in [req : Requests, status : {"submitted", "rejected"}]
            /\ orders' = orders \cup {new}
        BY <3>2
      <4> HIDE DEF new
      <4> QED
        BY <1>3, <3>1, <3>2, <4>1
    <3> QED
      BY <1>4, <3>1, <3>2
  <2>3. StepOf(r)
    BY <1>1, <1>2, <1>4, <2>1, <2>2 DEF StepOf
  <2>4. RequestInv(r)'
    BY <1>1, <1>3, <1>4, <2>1 DEF RequestInv
  <2>5. RecordsTyped' /\ BooksInv'
    BY <1>1, <1>2, <1>4, <2>1, <2>2 DEF RecordsTyped, BooksInv
  <2> QED
    BY <1>1, <2>3, <2>4, <2>5, RowUntouched
<1>5. faults \in 0 .. MaxFaults /\ MaxFaults \in Nat
  BY <1>2 DEF BooksInv, OpAssumption
<1>6. ASSUME NEW st \in {"reject", "done"}, InsertFails(r, st),
             st = "reject" => req[r].stage = "record",
             st = "done" => req[r].stage = "reject"
      PROVE  PrivateInv'
  <2>1. /\ orders' = orders /\ Goto(r, st) /\ faults' \in 0 .. MaxFaults
        /\ faults <= faults'
        /\ \/ ~(Exists /\ row.id = op[r].conn)
           \/ faults' > 0
    BY <1>5, <1>6 DEF InsertFails
  <2>2. r \in placed => Accounted(r)'
    <3>1. CASE st = "reject"
      <4>1. r \in placed => Known(op[r].conn)
        BY <1>2, <1>6, <3>1 DEF RequestInv
      <4> QED
        BY <1>1, <2>1, <4>1 DEF Known, Accounted
    <3>2. CASE st = "done"
      <4>1. r \in placed => Accounted(r)
        BY <1>2, <1>6, <3>2 DEF RequestInv
      <4> QED
        BY <1>1, <1>5, <2>1, <4>1 DEF Accounted
    <3> QED
      BY <3>1, <3>2
  <2> QED
    BY <1>4, <2>1, <2>2
<1>7. CASE RecordSubmitted(r)
  <2>1. CASE Inserts(r, "submitted")
    <3>1. /\ orders' = orders \cup {[req |-> r, status |-> "submitted"]}
          /\ Goto(r, "done") /\ faults' = faults
      BY <2>1 DEF Inserts
    <3>2. r \in placed
      BY <1>2, <1>7 DEF RecordSubmitted, RequestInv
    <3>3. Accounted(r)'
      BY <3>1 DEF Accounted
    <3> QED
      BY <1>4, <1>5, <3>1, <3>2, <3>3
  <2>2. CASE InsertFails(r, "reject")
    BY <1>6, <1>7, <2>2 DEF RecordSubmitted
  <2> QED
    BY <1>7, <2>1, <2>2 DEF RecordSubmitted
<1>8. CASE RecordRejected(r)
  <2>1. CASE Inserts(r, "rejected")
    <3>1. /\ orders' = orders \cup {[req |-> r, status |-> "rejected"]}
          /\ Goto(r, "done") /\ faults' = faults
      BY <2>1 DEF Inserts
    <3>2. r \in placed => Accounted(r)
      BY <1>2, <1>8 DEF RecordRejected, RequestInv
    <3>3. r \in placed => Accounted(r)'
      BY <1>1, <3>1, <3>2 DEF Accounted
    <3> QED
      BY <1>4, <1>5, <3>1, <3>3
  <2>2. CASE InsertFails(r, "done")
    BY <1>6, <1>8, <2>2 DEF RecordRejected
  <2> QED
    BY <1>8, <2>1, <2>2 DEF RecordRejected
<1> QED
  BY <1>7, <1>8

-----------------------------------------------------------------------------
LEMMA PrivateInitially == OpAssumption /\ OpInit => PrivateInv
<1> SUFFICES ASSUME OpAssumption, OpInit PROVE PrivateInv
  OBVIOUS
<1>1. /\ req = [r \in Requests |-> IdleReq]
      /\ op = [r \in Requests |-> IdleOp]
      /\ placed = {} /\ orders = {} /\ used = {} /\ faults = 0
      /\ removed = {} /\ overtaken = FALSE
  BY DEF OpInit, Init
<1>2. IdleReq \in Request /\ IdleReq.stage = "idle"
  BY DEF IdleReq, Request, Stage, Purposes, Codes
<1>3. IdleOp \in Operation
  BY DEF IdleOp, Operation, NoFailure, Failure, AFailure, Words, None
<1>4. \/ /\ row = NoRow /\ ~Exists /\ verified = {}
      \/ /\ \E p \in Pairs : row = RowOf(1, p[1], p[2], p[1], "trading", "verified")
         /\ history = IF Exists
                      THEN {[conn |-> 1, code |-> "verified", purpose |-> "trading"]} ELSE {}
         /\ verified = IF Exists THEN {KeysOf(row)} ELSE {}
  BY DEF OpInit, Init, OpAssumption, Exists
<1>5. /\ row \in Row \cup {NoRow} /\ verified \subseteq Pairs
      /\ Exists => row.id = 1
      /\ RowInv
  <2>1. CASE row = NoRow /\ ~Exists /\ verified = {}
    BY <2>1 DEF RowInv, HistoryExplainsRow, VerdictOfKeys
  <2>2. ASSUME NEW p \in Pairs,
               row = RowOf(1, p[1], p[2], p[1], "trading", "verified"),
               history = IF Exists
                         THEN {[conn |-> 1, code |-> "verified", purpose |-> "trading"]}
                         ELSE {},
               verified = IF Exists THEN {KeysOf(row)} ELSE {}
        PROVE  /\ row \in Row \cup {NoRow} /\ verified \subseteq Pairs
               /\ Exists => row.id = 1
               /\ RowInv
    <3>1. /\ p[1] \in ApiKeys /\ p[2] \in Secrets
          /\ "trading" \in Purposes /\ "verified" \in Codes
      BY DEF Pairs, Purposes, Codes
    <3>2. row \in Row /\ row.status # "reauth_required"
      BY <2>2, <3>1, RowIsTyped
    <3>3. /\ row.id = 1 /\ row.api = p[1] /\ row.secret = p[2] /\ row.mask = p[1]
          /\ row.purpose = "trading" /\ row.code = "verified"
      BY <2>2 DEF RowOf
    <3>4. Exists
      BY <3>2, ARowIsNone DEF Exists
    <3>5. KeysOf(row) \in Pairs /\ verified = {KeysOf(row)}
      BY <2>2, <3>1, <3>3, <3>4 DEF KeysOf, Pairs
    <3>6. HistoryExplainsRow
      <4> DEFINE h == [conn |-> 1, code |-> "verified", purpose |-> "trading"]
      <4>1. h \in history /\ h.conn = row.id /\ h.code = row.code
            /\ h.purpose = row.purpose
        BY <2>2, <3>3, <3>4
      <4> QED
        BY <4>1 DEF HistoryExplainsRow
    <3>7. VerdictOfKeys
      BY <3>3, <3>5 DEF VerdictOfKeys
    <3> QED
      BY <3>2, <3>3, <3>5, <3>6, <3>7 DEF RowInv
  <2> QED
    BY <1>4, <2>1, <2>2
<1>6. RecordsTyped
  BY <1>1, <1>2, <1>3, <1>5 DEF RecordsTyped
<1>7. BooksInv
  BY <1>1, <1>5 DEF BooksInv, OpAssumption
<1>8. IdsInv
  <2>1. Finished = {}
    BY <1>1, <1>2 DEF Finished
  <2>2. Cardinality(Finished) = 0 /\ 1 .. 0 = {}
    BY <2>1, FS_EmptySet
  <2> QED
    BY <1>1, <1>5, <2>2 DEF IdsInv
<1>9. \A r \in Requests : RequestInv(r)
  BY <1>1, <1>2 DEF RequestInv
<1> QED
  BY <1>5, <1>6, <1>7, <1>8, <1>9 DEF PrivateInv

LEMMA PrivateStep ==
  ASSUME OpAssumption, PrivateInv, [OpNext]_vars
  PROVE  PrivateInv'
<1>1. ASSUME NEW r \in Requests, RequestStep(r), UNCHANGED opVars
      PROVE  PrivateInv'
  <2>1. CASE CommitTest(r) \/ CommitLabel(r)
    <3>1. /\ Goto(r, "done") /\ req[r].stage \in {"commit", "label"}
          /\ UNCHANGED <<row, removed, verified, overtaken>> /\ history \subseteq history'
          /\ UNCHANGED <<op, placed, orders, used, faults>>
      BY <1>1, <2>1 DEF CommitTest, CommitLabel, Remembers, opVars
    <3> QED
      BY <3>1, GoesAside
  <2>2. CASE \E pair \in Submissions \cap Pairs, purpose \in Purposes :
               BeginCreate(r, pair, purpose) \/ BeginTest(r, pair, purpose)
    BY <1>1, <2>2, BeginCreateStep
  <2>3. CASE \E input \in Submissions, purpose \in Purposes :
               BeginUpdate(r, input, purpose)
    BY <1>1, <2>3, BeginUpdateStep
  <2> QED
    BY <1>1, <2>1, <2>2, <2>3, BeginValidateStep, BeginRemoveStep,
       ExchangeAnswersStep, CommitCreateStep, CommitUpdateStep,
       CommitValidateStep, CommitRemoveStep DEF RequestStep
<1>2. CASE UNCHANGED vars
  BY <1>2 DEF vars, connVars, opVars, PrivateInv, RecordsTyped, BooksInv,
              RowInv, IdsInv, RequestInv, Refused, Accounted, Known, Finished,
              Exists, HistoryExplainsRow, VerdictOfKeys, KeysOf
<1> QED
  BY <1>1, <1>2, BeginOrderStep, OrderKeysStep, BeginReadStep, ProviderCallStep,
     MarkSyncStep, RecordStep DEF OpNext

LEMMA PrivateInvariance ==
  ASSUME OpAssumption
  PROVE  OpSpec => []PrivateInv
  BY PrivateInitially, PrivateStep, PTL DEF OpSpec

(* So many connections as there are requests are made at most.             *)
LEMMA PrivateTyped == ASSUME OpAssumption, PrivateInv PROVE TypeOK
<1>1. RecordsTyped /\ BooksInv
  BY DEF PrivateInv
<1>2. PICK n \in Nat : /\ removed = 1 .. n /\ n <= Cardinality(Finished)
                       /\ Exists => row.id = n + 1
  BY DEF PrivateInv, IdsInv
<1>3. /\ Cardinality(Requests) \in Nat
      /\ Cardinality(Finished) <= Cardinality(Requests)
      /\ Cardinality(Finished) \in Nat
  <2>1. IsFiniteSet(Requests) /\ Finished \subseteq Requests
    BY DEF OpAssumption, Finished
  <2> QED
    BY <2>1, FS_Subset, FS_CardinalityType
<1>4. Ids = 1 .. Cardinality(Requests) + 1
  BY DEF Ids
<1>5. removed \subseteq Ids /\ (Exists => row.id \in Ids)
  BY <1>2, <1>3, <1>4
<1>6. Exists => /\ KeysOf(row) \in Pairs /\ row.mask \in ApiKeys
                   /\ row.purpose \in Purposes /\ row.code \in Codes
  BY <1>1, ARowIsNone DEF RecordsTyped, Row, KeysOf, Pairs
<1>7. \A r \in Requests : req[r].stage \in Stage
  BY <1>1 DEF RecordsTyped, Request
<1> QED
  BY <1>1, <1>5, <1>6, <1>7 DEF TypeOK, BooksInv

(* The rows, the requests and the records of orders keep their types, and  *)
(* so many connections as there are requests are made at most.             *)
THEOREM OperationsTyped ==
  ASSUME OpAssumption
  PROVE  OpSpec => []TypeOK
  BY PrivateTyped, PrivateInvariance, PTL

(* However requests on one connection overlap, what its row says was       *)
(* verified of the keys that it holds, unless keys were replaced while     *)
(* they were validated; the history of verifications explains it; and one  *)
(* is told to sign in again only by an exchange that refused the keys      *)
(* (exchange-connections.service.ts, markExchangeConnectionSync).          *)
THEOREM VerdictOfStoredKeysHolds ==
  ASSUME OpAssumption
  PROVE  OpSpec => []VerdictOfStoredKeys
<1>1. PrivateInv => VerdictOfStoredKeys
  BY PrivateTyped DEF PrivateInv, RowInv, Refused, ReauthMeansRefused,
                      VerdictOfStoredKeys
<1> QED
  BY <1>1, PrivateInvariance, PTL

(* Every order an exchange accepted is on its way to its record, or on     *)
(* record as submitted, or its answer was lost, its connection removed or  *)
(* the database failed (createTradingOrder, recordOrderRequest).           *)
THEOREM OrderLedgerHolds ==
  ASSUME OpAssumption
  PROVE  OpSpec => []OrderLedger
<1>1. PrivateInv => OrderLedger
  <2> SUFFICES ASSUME PrivateInv PROVE OrderLedger
    OBVIOUS
  <2>1. BooksInv
    BY DEF PrivateInv
  <2>2. ASSUME NEW r \in placed
        PROVE  req[r].stage \in {"mark", "record"} \/ Accounted(r)
    <3>1. r \in Requests
      BY <2>1 DEF BooksInv
    <3>2. RequestInv(r)
      BY <3>1 DEF PrivateInv
    <3> QED
      BY <2>2, <3>2 DEF RequestInv
  <2> QED
    BY <2>1, <2>2 DEF OrderLedger, BooksInv, Accounted
<1> QED
  BY <1>1, PrivateInvariance, PTL

-----------------------------------------------------------------------------
(* What was published of a topic is never newer than what the store holds, *)
(* which a snapshot is taken from; and who is yet to connect subscribes to *)
(* nothing.                                                                *)
FanoutInv ==
  /\ socket \in [Client -> {"none", "open", "closing", "gone"}]
  /\ subs \in [Client -> SUBSET FO!Topic]
  /\ held \in [FO!Topic -> Nat] /\ published \in [FO!Topic -> Nat]
  /\ shown \in [Client -> [FO!Topic -> Nat]]
  /\ \A t \in FO!Topic : published[t] <= held[t]
  /\ \A c \in Client : socket[c] = "none" => subs[c] = {}
  /\ FO!SubscribersUpToDate

LEMMA FanoutStarts == FO!Init => FanoutInv
  BY DEF FO!Init, FanoutInv, FO!SubscribersUpToDate

(* Whoever is still open after a message went out was sent it.             *)
LEMMA SendsToOpen ==
  ASSUME FanoutInv, NEW clients \in SUBSET Client,
         NEW topics \in SUBSET FO!Topic, NEW values \in [FO!Topic -> Nat],
         FO!Sends(clients, topics, values)
  PROVE  /\ socket' \in [Client -> {"none", "open", "closing", "gone"}]
         /\ shown' \in [Client -> [FO!Topic -> Nat]]
         /\ \A c \in Client : socket'[c] = "open" =>
              /\ socket[c] = "open"
              /\ \A t \in FO!Topic :
                   shown'[c][t] = IF c \in clients /\ t \in topics
                                  THEN values[t] ELSE shown[c][t]
         /\ \A c \in Client : socket'[c] = "none" => socket[c] = "none"
<1>1. PICK slow \in SUBSET {c \in clients : socket[c] = "open"} :
        /\ socket' = [c \in Client |-> IF c \in slow THEN "closing" ELSE socket[c]]
        /\ shown' = [c \in Client |-> [t \in FO!Topic |->
             IF c \in clients \ slow /\ socket[c] = "open" /\ t \in topics
             THEN values[t] ELSE shown[c][t]]]
  BY DEF FO!Sends
<1> QED
  BY <1>1 DEF FanoutInv

(* A request for topics is answered with what the store holds of them.     *)
LEMMA SubscribesStep ==
  ASSUME FanoutInv, NEW c \in Client, FO!Subscribes(c) PROVE FanoutInv'
<1>1. PICK channel \in Channel, markets \in SUBSET Market :
        /\ subs' = [subs EXCEPT ![c] = @ \cup FO!Topics(channel, markets)]
        /\ FO!Sends({c}, {t \in FO!Topics(channel, markets) : held[t] > 0}, held)
        /\ UNCHANGED <<held, published>> /\ socket[c] = "open"
  BY DEF FO!Subscribes, FO!Consumes
<1> DEFINE asked == FO!Topics(channel, markets)
           sent  == {t \in asked : held[t] > 0}
<1>2. asked \subseteq FO!Topic
  BY DEF FO!Topics, FO!Topic
<1> HIDE DEF asked
<1>3. /\ socket' \in [Client -> {"none", "open", "closing", "gone"}]
      /\ shown' \in [Client -> [FO!Topic -> Nat]]
      /\ \A d \in Client : socket'[d] = "open" =>
           /\ socket[d] = "open"
           /\ \A t \in FO!Topic : shown'[d][t] = IF d \in {c} /\ t \in sent
                                                THEN held[t] ELSE shown[d][t]
      /\ \A d \in Client : socket'[d] = "none" => socket[d] = "none"
  BY <1>1, <1>2, SendsToOpen DEF FanoutInv, asked
<1>4. subs' = [subs EXCEPT ![c] = @ \cup asked]
  BY <1>1 DEF asked
<1>5. subs' \in [Client -> SUBSET FO!Topic]
  BY <1>2, <1>4 DEF FanoutInv
<1>6. FO!SubscribersUpToDate'
  <2> SUFFICES ASSUME NEW d \in Client, socket'[d] = "open", NEW t \in subs'[d]
               PROVE  shown'[d][t] >= published'[t]
    BY DEF FO!SubscribersUpToDate
  <2>1. /\ t \in FO!Topic /\ socket[d] = "open" /\ published'[t] = published[t]
        /\ published[t] \in Nat /\ held[t] \in Nat /\ shown[d][t] \in Nat
        /\ published[t] <= held[t]
    BY <1>1, <1>3, <1>5 DEF FanoutInv
  <2>2. CASE d = c /\ t \in sent
    BY <1>3, <2>1, <2>2
  <2>3. CASE ~(d = c /\ t \in sent)
    <3>1. shown'[d][t] = shown[d][t]
      BY <1>3, <2>1, <2>3
    <3>2. CASE t \in subs[d]
      BY <2>1, <3>1, <3>2 DEF FanoutInv, FO!SubscribersUpToDate
    <3>3. CASE t \notin subs[d]
      <4>1. d = c /\ t \in asked
        BY <1>4, <3>3 DEF FanoutInv
      <4>2. ~(held[t] > 0)
        BY <2>3, <4>1
      <4> QED
        BY <2>1, <3>1, <4>2
    <3> QED
      BY <3>2, <3>3
  <2> QED
    BY <2>2, <2>3
<1>7. \A d \in Client : socket'[d] = "none" => subs'[d] = {}
  BY <1>1, <1>3, <1>4 DEF FanoutInv
<1> QED
  BY <1>1, <1>3, <1>5, <1>6, <1>7 DEF FanoutInv

(* What is published goes to all that subscribe to it, and a value that    *)
(* the store takes without a word was not published.                       *)
LEMMA PublishesStep ==
  ASSUME FanoutInv, NEW topic \in FO!Topic, FO!Publishes(topic)
  PROVE  FanoutInv'
<1> DEFINE silent == {t \in {<<"tickers", topic[2]>>} \cap FO!Topic :
                        topic[1] = "trades" /\ held[t] > 0}
           moved  == [t \in FO!Topic |-> IF t = topic \/ t \in silent
                                        THEN held[t] + 1 ELSE held[t]]
<1>1. /\ held' = moved
      /\ published' = [published EXCEPT ![topic] = moved[topic]]
      /\ FO!Sends(FO!Subscribers(topic), {topic}, moved)
      /\ UNCHANGED <<count, subs>>
  BY DEF FO!Publishes
<1>2. /\ moved \in [FO!Topic -> Nat]
      /\ \A t \in FO!Topic : held[t] <= moved[t]
  BY DEF FanoutInv
<1> HIDE DEF moved
<1>3. FO!Subscribers(topic) \subseteq Client
  BY DEF FO!Subscribers
<1>4. /\ socket' \in [Client -> {"none", "open", "closing", "gone"}]
      /\ shown' \in [Client -> [FO!Topic -> Nat]]
      /\ \A c \in Client : socket'[c] = "open" =>
           /\ socket[c] = "open"
           /\ \A t \in FO!Topic :
                shown'[c][t] = IF c \in FO!Subscribers(topic) /\ t \in {topic}
                               THEN moved[t] ELSE shown[c][t]
      /\ \A c \in Client : socket'[c] = "none" => socket[c] = "none"
  BY <1>1, <1>2, <1>3, SendsToOpen
<1>5. /\ published' \in [FO!Topic -> Nat]
      /\ \A t \in FO!Topic : published'[t] <= held'[t]
  <2>1. \A t \in FO!Topic :
          /\ published'[t] = IF t = topic THEN moved[t] ELSE published[t]
          /\ published[t] \in Nat /\ held[t] \in Nat /\ moved[t] \in Nat
          /\ published[t] <= held[t] /\ held[t] <= moved[t]
    BY <1>1, <1>2 DEF FanoutInv
  <2>2. published' \in [FO!Topic -> Nat]
    BY <1>1, <1>2 DEF FanoutInv
  <2> QED
    BY <1>1, <2>1, <2>2
<1>6. FO!SubscribersUpToDate'
  <2> SUFFICES ASSUME NEW c \in Client, socket'[c] = "open", NEW t \in subs'[c]
               PROVE  shown'[c][t] >= published'[t]
    BY DEF FO!SubscribersUpToDate
  <2>1. t \in FO!Topic /\ t \in subs[c] /\ socket[c] = "open"
    BY <1>1, <1>4 DEF FanoutInv
  <2>2. CASE t = topic
    <3>1. c \in FO!Subscribers(topic)
      BY <2>1, <2>2 DEF FO!Subscribers
    <3>2. shown'[c][t] = moved[t] /\ published'[t] = moved[t] /\ moved[t] \in Nat
      BY <1>1, <1>2, <1>4, <2>1, <2>2, <3>1 DEF FanoutInv
    <3> QED
      BY <3>2
  <2>3. CASE t # topic
    <3>1. shown'[c][t] = shown[c][t] /\ published'[t] = published[t]
      BY <1>1, <1>4, <2>1, <2>3 DEF FanoutInv
    <3> QED
      BY <2>1, <3>1 DEF FanoutInv, FO!SubscribersUpToDate
  <2> QED
    BY <2>2, <2>3
<1> QED
  BY <1>1, <1>2, <1>4, <1>5, <1>6 DEF FanoutInv

(* Nothing else sends, or adds to a subscription.                          *)
LEMMA FanoutStep ==
  ASSUME FanoutInv, [FO!Next]_(FO!vars) PROVE FanoutInv'
<1>1. ASSUME NEW c \in Client, FO!Connects(c) PROVE FanoutInv'
  BY <1>1 DEF FO!Connects, FanoutInv, FO!SubscribersUpToDate
<1>2. ASSUME NEW c \in Client, FO!Cut(c) PROVE FanoutInv'
  BY <1>2 DEF FO!Cut, FanoutInv, FO!SubscribersUpToDate
<1>3. ASSUME NEW c \in Client, FO!WindowEnds(c) \/ FO!Trifles(c) PROVE FanoutInv'
  BY <1>3 DEF FO!WindowEnds, FO!Trifles, FanoutInv, FO!SubscribersUpToDate
<1>4. ASSUME NEW c \in Client, FO!Unsubscribes(c) PROVE FanoutInv'
  <2>1. PICK channel \in Channel, markets \in (SUBSET Market) \ {{}} :
          /\ subs' = [subs EXCEPT ![c] = @ \ FO!Topics(channel, markets)]
          /\ UNCHANGED <<socket, held, published, shown>>
    BY <1>4 DEF FO!Unsubscribes
  <2>2. /\ \A d \in Client : subs'[d] \subseteq subs[d]
        /\ subs' \in [Client -> SUBSET FO!Topic]
    BY <2>1 DEF FanoutInv
  <2> QED
    BY <2>1, <2>2 DEF FanoutInv, FO!SubscribersUpToDate
<1>5. ASSUME NEW c \in Client, FO!Closed(c) PROVE FanoutInv'
  BY <1>5 DEF FO!Closed, FanoutInv, FO!SubscribersUpToDate
<1>6. CASE UNCHANGED FO!vars
  BY <1>6 DEF FO!vars, FanoutInv, FO!SubscribersUpToDate
<1> QED
  BY <1>1, <1>2, <1>3, <1>4, <1>5, <1>6, SubscribesStep, PublishesStep DEF FO!Next

(* An open client has been shown, of every topic it subscribes to, what    *)
(* was published last or something newer, for any number of clients,       *)
(* markets and channels (handleKeyedSubscription and the event bus).       *)
THEOREM SubscribersUpToDateHold ==
  FO!Spec => []FO!SubscribersUpToDate
<1>1. FanoutInv => FO!SubscribersUpToDate
  BY DEF FanoutInv
<1> QED
  BY <1>1, FanoutStarts, FanoutStep, PTL DEF FO!Spec

-----------------------------------------------------------------------------
(* Induction by the least counterexample: a set of numbers has a least one.*)
LEMMA Least ==
  ASSUME NEW T, T \subseteq Nat, T # {}
  PROVE  \E n \in T : \A m \in T : n <= m
<1> DEFINE R == OpToRel(<, Nat)
<1>1. IsWellFoundedOn(R, Nat)
  BY NatLessThanWellFounded
<1>2. \A m, n \in Nat : m < n => <<m, n>> \in R
  BY DEF OpToRel
<1> HIDE DEF R
<1>3. PICK n \in T : \A m \in T : ~(<<m, n>> \in R)
  BY <1>1, WFMin
<1>4. n \in Nat /\ \A m \in T : m \in Nat /\ ~(m < n)
  BY <1>2, <1>3
<1> QED
  BY <1>3, <1>4

(* A set of finite sets that is not empty has a smallest member.           *)
LEMMA Smallest ==
  ASSUME NEW S, IsFiniteSet(S), NEW B, B \subseteq SUBSET S, B # {}
  PROVE  \E s \in B : \A t \in B : Cardinality(s) <= Cardinality(t)
<1> DEFINE T == {Cardinality(s) : s \in B}
<1>1. \A s \in B : Cardinality(s) \in Nat
  BY FS_Subset, FS_CardinalityType
<1>2. T \subseteq Nat /\ T # {}
  BY <1>1
<1> HIDE DEF T
<1>3. PICK n \in T : \A m \in T : n <= m
  BY <1>2, Least
<1> QED
  BY <1>3 DEF T

(* What MapThenSumSet unfolds to: the sums of f over the subsets of S.     *)
First(s) == CHOOSE x \in s : TRUE

SumsOf(g, f, S) ==
  [s \in SUBSET S |-> IF s = {} THEN 0 ELSE f[First(s)] + g[s \ {First(s)}]]

IsSum(g, f, S) == g = SumsOf(g, f, S)

LEMMA FirstIsIn ==
  \A s : s # {} => First(s) \in s
BY DEF First

LEMMA LessIsSmaller ==
  ASSUME NEW S, IsFiniteSet(S), NEW s, s \subseteq S, NEW x \in s
  PROVE  /\ s \ {x} \subseteq S /\ Cardinality(s) \in Nat
         /\ Cardinality(s \ {x}) = Cardinality(s) - 1
<1>1. IsFiniteSet(s)
  BY FS_Subset
<1> QED
  BY <1>1, FS_RemoveElement, FS_CardinalityType

(* Such sums exist, as they do over the subsets of every size.             *)
LEMMA SumExists ==
  ASSUME NEW S, IsFiniteSet(S), NEW f
  PROVE  \E g : IsSum(g, f, S)
<1> DEFINE Upto(n) == {s \in SUBSET S : Cardinality(s) <= n}
           Sums(g, n) == [s \in Upto(n) |-> IF s = {} THEN 0
                                          ELSE f[First(s)] + g[s \ {First(s)}]]
           Lacking == {n \in Nat : ~ \E g : g = Sums(g, n)}
<1>1. Lacking = {}
  <2> SUFFICES ASSUME Lacking # {}
               PROVE  FALSE
    OBVIOUS
  <2>1. PICK n \in Lacking : \A m \in Lacking : n <= m
    BY Least
  <2>2. n # 0
    <3> DEFINE g == [s \in Upto(0) |-> 0]
    <3>1. \A s \in Upto(0) : s = {}
      BY FS_Subset, FS_EmptySet, FS_CardinalityType
    <3>2. g = Sums(g, 0)
      BY <3>1
    <3> HIDE DEF g, Sums
    <3> QED
      BY <3>2
  <2>3. n \in Nat /\ n - 1 \in Nat /\ n - 1 \notin Lacking
    <3>1. n \in Nat
      OBVIOUS
    <3> HIDE DEF Lacking
    <3> QED
      BY <2>1, <2>2, <3>1
  <2>4. PICK g : g = Sums(g, n - 1)
    BY <2>3
  <2> DEFINE h == Sums(g, n)
  <2>5. \A s \in Upto(n) : s # {} => s \ {First(s)} \in Upto(n - 1) \cap Upto(n)
    BY <2>3, FirstIsIn, LessIsSmaller
  <2>6. \A s \in Upto(n - 1) : h[s] = g[s] /\ s \in Upto(n)
    <3> TAKE s \in Upto(n - 1)
    <3>1. s \in Upto(n)
      BY <2>3, FS_Subset, FS_CardinalityType
    <3>2. g[s] = IF s = {} THEN 0 ELSE f[First(s)] + g[s \ {First(s)}]
      BY <2>4
    <3> HIDE DEF Upto
    <3> QED
      BY <3>1, <3>2
  <2>7. \A s \in Upto(n) : s # {} => h[s \ {First(s)}] = g[s \ {First(s)}]
    BY <2>5, <2>6
  <2>8. h = Sums(h, n)
    <3> HIDE DEF Upto
    <3>1. \A s \in Upto(n) : h[s] = IF s = {} THEN 0 ELSE f[First(s)] + h[s \ {First(s)}]
      BY <2>7
    <3> QED
      BY <3>1
  <2> HIDE DEF h, Sums
  <2> QED
    BY <2>1, <2>8
<1>2. Cardinality(S) \in Nat /\ Upto(Cardinality(S)) = SUBSET S
  BY FS_Subset, FS_CardinalityType
<1>3. PICK g : g = Sums(g, Cardinality(S))
  BY <1>1, <1>2
<1> QED
  BY <1>2, <1>3 DEF IsSum, SumsOf

LEMMA SumType ==
  ASSUME NEW S, IsFiniteSet(S), NEW f, \A x \in S : f[x] \in Int, NEW g, IsSum(g, f, S)
  PROVE  \A s \in SUBSET S : g[s] \in Int
<1> DEFINE B == {s \in SUBSET S : g[s] \notin Int}
<1> SUFFICES ASSUME B # {}
             PROVE  FALSE
  OBVIOUS
<1>1. PICK s \in B : \A t \in B : Cardinality(s) <= Cardinality(t)
  BY Smallest
<1>2. g[s] = IF s = {} THEN 0 ELSE f[First(s)] + g[s \ {First(s)}]
  BY DEF IsSum, SumsOf
<1>3. s # {} /\ First(s) \in s
  BY <1>2, FirstIsIn
<1>4. Cardinality(s) \in Nat /\ Cardinality(s \ {First(s)}) = Cardinality(s) - 1
  BY <1>3, LessIsSmaller
<1>5. s \ {First(s)} \notin B
  BY <1>1, <1>4
<1> QED
  BY <1>2, <1>3, <1>5

(* The sum over a set is that over what is left without one of it, and it. *)
LEMMA SumWithout ==
  ASSUME NEW S, IsFiniteSet(S), NEW f, \A x \in S : f[x] \in Int, NEW g, IsSum(g, f, S)
  PROVE  \A s \in SUBSET S : \A x \in s : g[s] = f[x] + g[s \ {x}]
<1> DEFINE B == {s \in SUBSET S : ~ \A x \in s : g[s] = f[x] + g[s \ {x}]}
<1> SUFFICES ASSUME B # {}
             PROVE  FALSE
  OBVIOUS
<1>1. PICK s \in B : \A t \in B : Cardinality(s) <= Cardinality(t)
  BY Smallest
<1>2. PICK x \in s : g[s] # f[x] + g[s \ {x}]
  OBVIOUS
<1> DEFINE c == First(s)
<1>3. c \in s /\ g[s] = f[c] + g[s \ {c}]
  BY FirstIsIn DEF IsSum, SumsOf
<1>4. c # x
  BY <1>2, <1>3
<1> HIDE DEF c
<1>5. /\ Cardinality(s) \in Nat
      /\ Cardinality(s \ {c}) = Cardinality(s) - 1
      /\ Cardinality(s \ {x}) = Cardinality(s) - 1
  BY <1>3, LessIsSmaller
<1> DEFINE rest == (s \ {c}) \ {x}
<1>6. s \ {c} \notin B /\ s \ {x} \notin B
  <2> HIDE DEF B
  <2> QED
    BY <1>1, <1>5
<1>7. g[s \ {c}] = f[x] + g[rest] /\ g[s \ {x}] = f[c] + g[rest]
  <2>1. rest = (s \ {x}) \ {c}
    OBVIOUS
  <2>2. x \in s \ {c} /\ c \in s \ {x}
    BY <1>3, <1>4
  <2> HIDE DEF rest
  <2> QED
    BY <1>6, <2>1, <2>2 DEF rest
<1>8. f[x] \in Int /\ f[c] \in Int /\ g[rest] \in Int
  BY <1>3, SumType
<1> HIDE DEF rest
<1> QED
  BY <1>2, <1>3, <1>7, <1>8

(* The sum over a set depends on what is summed of its members only.       *)
LEMMA SumsAgree ==
  ASSUME NEW S, IsFiniteSet(S), NEW f, NEW g, IsSum(g, f, S),
         NEW R, NEW e, NEW h, IsSum(h, e, R),
         NEW s, s \subseteq S, s \subseteq R, \A x \in s : f[x] = e[x]
  PROVE  g[s] = h[s]
<1> DEFINE B == {t \in SUBSET s : g[t] # h[t]}
<1> SUFFICES ASSUME B # {}
             PROVE  FALSE
  OBVIOUS
<1>1. IsFiniteSet(s)
  BY FS_Subset
<1>2. PICK t \in B : \A u \in B : Cardinality(t) <= Cardinality(u)
  BY <1>1, Smallest
<1>3. /\ g[t] = IF t = {} THEN 0 ELSE f[First(t)] + g[t \ {First(t)}]
      /\ h[t] = IF t = {} THEN 0 ELSE e[First(t)] + h[t \ {First(t)}]
  BY DEF IsSum, SumsOf
<1>4. t # {} /\ First(t) \in t
  BY <1>3, FirstIsIn
<1>5. Cardinality(t) \in Nat /\ Cardinality(t \ {First(t)}) = Cardinality(t) - 1
  BY <1>1, <1>4, LessIsSmaller
<1>6. t \ {First(t)} \notin B
  BY <1>2, <1>5
<1> QED
  BY <1>3, <1>4, <1>6

(* The sum of f over S.                                                    *)
SumOver(f, S) == LET sums == CHOOSE g : IsSum(g, f, S) IN sums[S]

LEMMA SumOverIs ==
  ASSUME NEW S, IsFiniteSet(S), NEW f, NEW g, IsSum(g, f, S), NEW s, s \subseteq S
  PROVE  SumOver(f, s) = g[s]
<1>1. IsFiniteSet(s)
  BY FS_Subset
<1> DEFINE h == CHOOSE e : IsSum(e, f, s)
<1>2. IsSum(h, f, s)
  BY <1>1, SumExists
<1> HIDE DEF h
<1>3. h[s] = g[s]
  BY <1>1, <1>2, SumsAgree
<1> QED
  BY <1>3 DEF SumOver, h

LEMMA SumOverFacts ==
  ASSUME NEW S, IsFiniteSet(S), NEW f, \A x \in S : f[x] \in Int
  PROVE  /\ SumOver(f, S) \in Int
         /\ SumOver(f, {}) = 0
         /\ \A x \in S : SumOver(f, S) = f[x] + SumOver(f, S \ {x})
<1>1. PICK g : IsSum(g, f, S)
  BY SumExists
<1>2. \A s \in SUBSET S : SumOver(f, s) = g[s]
  BY <1>1, SumOverIs
<1>3. S \in SUBSET S /\ {} \in SUBSET S /\ \A x \in S : S \ {x} \in SUBSET S
  OBVIOUS
<1>4. g[{}] = 0
  BY <1>1, <1>3 DEF IsSum, SumsOf
<1>5. g[S] \in Int
  BY <1>1, <1>3, SumType
<1>6. \A x \in S : g[S] = f[x] + g[S \ {x}]
  BY <1>1, <1>3, SumWithout
<1> QED
  BY <1>2, <1>3, <1>4, <1>5, <1>6

LEMMA SumOverSame ==
  ASSUME NEW S, IsFiniteSet(S), NEW f, NEW e, \A x \in S : f[x] = e[x]
  PROVE  SumOver(f, S) = SumOver(e, S)
<1>1. PICK g : IsSum(g, f, S)
  BY SumExists
<1>2. PICK h : IsSum(h, e, S)
  BY SumExists
<1>3. SumOver(f, S) = g[S]
  BY <1>1, SumOverIs
<1>4. SumOver(e, S) = h[S]
  BY <1>2, SumOverIs
<1> QED
  BY <1>1, <1>2, <1>3, <1>4, SumsAgree

-----------------------------------------------------------------------------
(* The books of the paper orders (PaperOrders).                            *)
CONSTANTS Order, Nobody, Coin, Quantity, StartCash
VARIABLES flags, cash, holding, rebuilt, lock, tx, apart
PO == INSTANCE PaperOrders WITH row <- rebuilt

(* What the calls in T have spent and what they have bought of a coin.     *)
SignedIn(T, o) == IF T[o].side = "buy" THEN T[o].total ELSE - T[o].total
GainIn(T, o) == IF T[o].side = "buy" THEN T[o].quantity ELSE - T[o].quantity
FilledIn(T, c) == {o \in Order : T[o].pc = "filled" /\ T[o].coin = c}
AllFilled(T) == UNION {FilledIn(T, c) : c \in Coin}

SpentIn(T) == SumOver([o \in Order |-> SignedIn(T, o)], AllFilled(T))
BoughtIn(T, c) == SumOver([o \in Order |-> GainIn(T, o)], FilledIn(T, c))

(* What the model adds up is what the lemmas above are about.              *)
LEMMA SpentIs ==
  ASSUME IsFiniteSet(Order), NEW T
  PROVE  PO!MapThenSumSet(LAMBDA o : SignedIn(T, o), AllFilled(T)) = SpentIn(T)
<1> DEFINE X == AllFilled(T)
           f == [o \in Order |-> SignedIn(T, o)]
           It(g) == [s \in SUBSET X |-> IF s = {} THEN 0
                                      ELSE SignedIn(T, First(s)) + g[s \ {First(s)}]]
           iter == CHOOSE g : g = It(g)
<1>1. X \subseteq Order /\ IsFiniteSet(X)
  <2>1. X \subseteq Order
    BY DEF AllFilled, FilledIn
  <2> QED
    BY <2>1, FS_Subset
<1>2. PO!MapThenSumSet(LAMBDA o : SignedIn(T, o), X) = iter[X]
  BY DEF PO!MapThenSumSet, PO!MapThenFoldSet, First
<1> HIDE DEF X
<1>3. \A g : It(g) = SumsOf(g, f, X)
  BY <1>1, FirstIsIn DEF SumsOf
<1>4. PICK h : IsSum(h, f, X)
  BY <1>1, SumExists
<1>5. iter = It(iter)
  <2>1. h = It(h)
    BY <1>3, <1>4 DEF IsSum
  <2> HIDE DEF It
  <2> QED
    BY <2>1
<1>6. IsSum(iter, f, X)
  BY <1>3, <1>5 DEF IsSum
<1> HIDE DEF iter, f
<1>7. SumOver(f, X) = iter[X]
  BY <1>1, <1>6, SumOverIs
<1> QED
  BY <1>2, <1>7 DEF SpentIn, f, X

LEMMA BoughtIs ==
  ASSUME IsFiniteSet(Order), NEW T, NEW c
  PROVE  PO!MapThenSumSet(LAMBDA o : GainIn(T, o), FilledIn(T, c)) = BoughtIn(T, c)
<1> DEFINE X == FilledIn(T, c)
           f == [o \in Order |-> GainIn(T, o)]
           It(g) == [s \in SUBSET X |-> IF s = {} THEN 0
                                      ELSE GainIn(T, First(s)) + g[s \ {First(s)}]]
           iter == CHOOSE g : g = It(g)
<1>1. X \subseteq Order /\ IsFiniteSet(X)
  <2>1. X \subseteq Order
    BY DEF FilledIn
  <2> QED
    BY <2>1, FS_Subset
<1>2. PO!MapThenSumSet(LAMBDA o : GainIn(T, o), X) = iter[X]
  BY DEF PO!MapThenSumSet, PO!MapThenFoldSet, First
<1> HIDE DEF X
<1>3. \A g : It(g) = SumsOf(g, f, X)
  BY <1>1, FirstIsIn DEF SumsOf
<1>4. PICK h : IsSum(h, f, X)
  BY <1>1, SumExists
<1>5. iter = It(iter)
  <2>1. h = It(h)
    BY <1>3, <1>4 DEF IsSum
  <2> HIDE DEF It
  <2> QED
    BY <2>1
<1>6. IsSum(iter, f, X)
  BY <1>3, <1>5 DEF IsSum
<1> HIDE DEF iter, f
<1>7. SumOver(f, X) = iter[X]
  BY <1>1, <1>6, SumOverIs
<1> QED
  BY <1>2, <1>7 DEF BoughtIn, f, X

(* The books as the model states them.                                     *)
LEMMA BooksIn ==
  ASSUME IsFiniteSet(Order)
  PROVE  /\ PO!Spent = SpentIn(tx)
         /\ \A c \in Coin : PO!Bought(c) = BoughtIn(tx, c)
<1>1. PO!Spent = SpentIn(tx)
  <2>1. PO!Spent = PO!MapThenSumSet(LAMBDA o : SignedIn(tx, o), AllFilled(tx))
    BY DEF PO!Spent, PO!MapThenSumSet, PO!MapThenFoldSet, SignedIn, AllFilled, FilledIn,
           PO!Filled, PO!Signed
  <2> QED
    BY <2>1, SpentIs
<1>2. ASSUME NEW c \in Coin
      PROVE  PO!Bought(c) = BoughtIn(tx, c)
  <2>1. PO!Bought(c) = PO!MapThenSumSet(LAMBDA o : GainIn(tx, o), FilledIn(tx, c))
    BY DEF PO!Bought, PO!MapThenSumSet, PO!MapThenFoldSet, GainIn, FilledIn, PO!Filled
  <2> QED
    BY <2>1, BoughtIs
<1> QED
  BY <1>1, <1>2

PaperStages == {"new", "refused", "priced", "read", "checked", "locked", "filled", "failed"}
Calls == [pc : PaperStages, side : {"buy", "sell"}, coin : Coin, quantity : Int, total : Int,
          cash : Int, held : Int, row : Int]

(* What is true of a call r of an order o, given who holds the user's row. *)
PaperCallOk(o, r, holder) ==
  /\ r.pc = "locked" <=> holder = o
  /\ r.pc \in {"priced", "read", "checked", "locked"} => r.quantity > 0 /\ r.total > 0
  /\ r.pc = "read" => r.side = "sell"
  /\ r.pc \in {"read", "checked", "locked"} => r.cash >= 0
  /\ r.pc \in {"checked", "locked"} =>
       IF r.side = "buy" THEN r.total <= r.cash ELSE r.quantity <= r.held

(* As long as no two orders overlapped, what the one under way has read is *)
(* what is committed.                                                      *)
ReadIsCommitted(r) ==
  /\ r.pc \in {"read", "checked", "locked"} => r.cash = cash
  /\ r.pc \in {"checked", "locked"} /\ r.side = "sell" => r.held = holding[r.coin]

BooksAddUp ==
  /\ cash = StartCash - SpentIn(tx)
  /\ \A c \in Coin : holding[c] = BoughtIn(tx, c)

PaperInv ==
  /\ tx \in [Order -> Calls] /\ cash \in Nat /\ holding \in [Coin -> Nat]
  /\ rebuilt \in [Coin -> Nat] /\ lock \in Order \cup {Nobody} /\ apart \in BOOLEAN
  /\ \A o \in Order : PaperCallOk(o, tx[o], lock)
  /\ apart =>
       /\ \A o, p \in Order : PO!InTransaction(o) /\ PO!InTransaction(p) => o = p
       /\ \A o \in Order : ReadIsCommitted(tx[o])
       /\ BooksAddUp

(* Orders that are not filled are in no book.                              *)
LEMMA BooksStay ==
  ASSUME PO!PaperAssumption, NEW T, NEW U, NEW o \in Order,
         \A p \in Order \ {o} : U[p] = T[p], T[o].pc # "filled", U[o].pc # "filled"
  PROVE  SpentIn(U) = SpentIn(T) /\ \A c \in Coin : BoughtIn(U, c) = BoughtIn(T, c)
<1>1. /\ AllFilled(U) = AllFilled(T) /\ AllFilled(T) \subseteq Order \ {o}
      /\ \A c \in Coin : FilledIn(U, c) = FilledIn(T, c) /\ FilledIn(T, c) \subseteq Order \ {o}
  BY DEF AllFilled, FilledIn
<1>2. IsFiniteSet(Order)
  BY DEF PO!PaperAssumption, PO!IsFiniteSet, IsFiniteSet
<1>3. SpentIn(U) = SpentIn(T)
  <2> DEFINE f == [p \in Order |-> SignedIn(U, p)]
             e == [p \in Order |-> SignedIn(T, p)]
  <2>1. \A p \in AllFilled(T) : f[p] = e[p]
    BY <1>1 DEF SignedIn
  <2>2. IsFiniteSet(AllFilled(T))
    BY <1>1, <1>2, FS_Subset
  <2> HIDE DEF f, e
  <2>3. SumOver(f, AllFilled(T)) = SumOver(e, AllFilled(T))
    BY <2>1, <2>2, SumOverSame
  <2> QED
    BY <1>1, <2>3 DEF SpentIn, f, e
<1>4. ASSUME NEW c \in Coin
      PROVE  BoughtIn(U, c) = BoughtIn(T, c)
  <2> DEFINE f == [p \in Order |-> GainIn(U, p)]
             e == [p \in Order |-> GainIn(T, p)]
  <2>1. \A p \in FilledIn(T, c) : f[p] = e[p]
    BY <1>1 DEF GainIn
  <2>2. IsFiniteSet(FilledIn(T, c))
    BY <1>1, <1>2, FS_Subset
  <2> HIDE DEF f, e
  <2>3. SumOver(f, FilledIn(T, c)) = SumOver(e, FilledIn(T, c))
    BY <2>1, <2>2, SumOverSame
  <2> QED
    BY <1>1, <2>3 DEF BoughtIn, f, e
<1> QED
  BY <1>3, <1>4

(* An order that is filled is added to both.                               *)
LEMMA BooksGrow ==
  ASSUME PO!PaperAssumption, NEW T, NEW U, NEW o \in Order, NEW c \in Coin,
         \A p \in Order \ {o} : U[p] = T[p], T[o].pc # "filled",
         U \in [Order -> Calls], U[o].pc = "filled", U[o].coin = c
  PROVE  /\ SpentIn(U) = SpentIn(T) + SignedIn(U, o) /\ SpentIn(T) \in Int
         /\ \A d \in Coin : BoughtIn(U, d) = BoughtIn(T, d) + IF d = c THEN GainIn(U, o) ELSE 0
         /\ \A d \in Coin : BoughtIn(T, d) \in Int
<1>1. /\ AllFilled(U) = AllFilled(T) \cup {o} /\ AllFilled(T) \subseteq Order \ {o}
      /\ FilledIn(U, c) = FilledIn(T, c) \cup {o}
      /\ \A d \in Coin : FilledIn(T, d) \subseteq Order \ {o}
      /\ \A d \in Coin \ {c} : FilledIn(U, d) = FilledIn(T, d)
  BY DEF AllFilled, FilledIn
<1>2. IsFiniteSet(Order)
  BY DEF PO!PaperAssumption, PO!IsFiniteSet, IsFiniteSet
<1>3. \A p \in Order : SignedIn(U, p) \in Int /\ GainIn(U, p) \in Int
  BY DEF Calls, SignedIn, GainIn
<1>4. SpentIn(U) = SpentIn(T) + SignedIn(U, o) /\ SpentIn(T) \in Int
  <2> DEFINE f == [p \in Order |-> SignedIn(U, p)]
             e == [p \in Order |-> SignedIn(T, p)]
  <2>1. /\ \A p \in AllFilled(T) : f[p] = e[p]
        /\ \A p \in AllFilled(U) : f[p] \in Int
        /\ f[o] = SignedIn(U, o)
    BY <1>1, <1>3 DEF SignedIn
  <2>2. IsFiniteSet(AllFilled(T)) /\ IsFiniteSet(AllFilled(U))
    BY <1>1, <1>2, FS_Subset
  <2>3. AllFilled(U) \ {o} = AllFilled(T) /\ o \in AllFilled(U)
    BY <1>1
  <2> HIDE DEF f, e
  <2>4. SumOver(f, AllFilled(T)) = SumOver(e, AllFilled(T))
    BY <2>1, <2>2, SumOverSame
  <2>5. SumOver(f, AllFilled(T)) \in Int
    BY <1>1, <2>1, <2>2, SumOverFacts
  <2>6. SumOver(f, AllFilled(U)) = f[o] + SumOver(f, AllFilled(T))
    <3>1. SumOver(f, AllFilled(U)) = f[o] + SumOver(f, AllFilled(U) \ {o})
      BY <2>1, <2>2, <2>3, SumOverFacts
    <3> QED
      BY <2>3, <3>1
  <2>7. f[o] \in Int
    BY <2>1, <2>3
  <2>8. SpentIn(U) = SumOver(f, AllFilled(U)) /\ SpentIn(T) = SumOver(e, AllFilled(T))
    BY DEF SpentIn, f, e
  <2> QED
    BY <2>1, <2>4, <2>5, <2>6, <2>7, <2>8
<1>5. ASSUME NEW d \in Coin
      PROVE  /\ BoughtIn(U, d) = BoughtIn(T, d) + IF d = c THEN GainIn(U, o) ELSE 0
             /\ BoughtIn(T, d) \in Int
  <2> DEFINE f == [p \in Order |-> GainIn(U, p)]
             e == [p \in Order |-> GainIn(T, p)]
  <2>1. /\ \A p \in FilledIn(T, d) : f[p] = e[p]
        /\ \A p \in Order : f[p] \in Int
        /\ f[o] = GainIn(U, o)
    BY <1>1, <1>3 DEF GainIn
  <2>2. IsFiniteSet(FilledIn(T, d)) /\ IsFiniteSet(FilledIn(U, d))
    BY <1>1, <1>2, FS_Subset
  <2>3. d = c => FilledIn(U, d) \ {o} = FilledIn(T, d) /\ o \in FilledIn(U, d)
    BY <1>1
  <2>4. d # c => FilledIn(U, d) = FilledIn(T, d)
    BY <1>1
  <2>5. FilledIn(T, d) \subseteq Order /\ FilledIn(U, d) \subseteq Order
    BY DEF FilledIn
  <2> HIDE DEF f, e
  <2>6. SumOver(f, FilledIn(T, d)) = SumOver(e, FilledIn(T, d))
    BY <2>1, <2>2, SumOverSame
  <2>7. SumOver(f, FilledIn(T, d)) \in Int
    BY <2>1, <2>2, <2>5, SumOverFacts
  <2>8. d = c => SumOver(f, FilledIn(U, d)) = f[o] + SumOver(f, FilledIn(T, d))
    BY <2>1, <2>2, <2>3, <2>5, SumOverFacts
  <2>9. f[o] \in Int
    BY <2>1
  <2>10. BoughtIn(U, d) = SumOver(f, FilledIn(U, d)) /\ BoughtIn(T, d) = SumOver(e, FilledIn(T, d))
    BY DEF BoughtIn, f, e
  <2> QED
    BY <2>1, <2>4, <2>6, <2>7, <2>8, <2>9, <2>10
<1> QED
  BY <1>4, <1>5

Under(r) == r.pc \in {"read", "checked", "locked"}

(* A step by which the call of one order becomes r, and which commits      *)
(* nothing.                                                                *)
Moves(o, r) ==
  /\ r \in Calls /\ tx' = [tx EXCEPT ![o] = r]
  /\ cash' = cash /\ holding' = holding /\ rebuilt' = rebuilt
  /\ r.pc # "filled" /\ tx[o].pc # "filled" /\ PaperCallOk(o, r, lock')
  /\ lock' \in Order \cup {Nobody}
  /\ \A q \in Order : q # o => (lock' = q <=> lock = q)
  /\ apart' \in BOOLEAN
  /\ apart' => /\ apart /\ ReadIsCommitted(r)
               /\ Under(r) => \A q \in Order : q # o => ~Under(tx[q])

LEMMA CallMoves ==
  ASSUME PO!PaperAssumption, PaperInv, NEW o \in Order, NEW r, Moves(o, r)
  PROVE  PaperInv'
<1>1. /\ tx' \in [Order -> Calls] /\ tx'[o] = r /\ \A p \in Order \ {o} : tx'[p] = tx[p]
      /\ cash' = cash /\ holding' = holding /\ rebuilt' = rebuilt
  BY DEF PaperInv, Moves
<1>2. \A p \in Order : PaperCallOk(p, tx'[p], lock')
  <2> TAKE p \in Order
  <2>1. CASE p = o
    BY <1>1, <2>1 DEF Moves
  <2>2. CASE p # o
    <3>1. PaperCallOk(p, tx[p], lock) /\ tx'[p] = tx[p] /\ (lock' = p <=> lock = p)
      BY <1>1, <2>2 DEF PaperInv, Moves
    <3> QED
      BY <3>1 DEF PaperCallOk
  <2> QED
    BY <2>1, <2>2
<1>3. ASSUME apart'
      PROVE  /\ \A q, p \in Order : PO!InTransaction(q)' /\ PO!InTransaction(p)' => q = p
             /\ \A p \in Order : ReadIsCommitted(tx[p])'
             /\ BooksAddUp'
  <2>1. \A p \in Order : PO!InTransaction(p)' <=> Under(tx'[p])
    BY DEF PO!InTransaction, Under
  <2>2. \A q, p \in Order : Under(tx[q]) /\ Under(tx[p]) => q = p
    BY <1>3 DEF PaperInv, Moves, PO!InTransaction, Under
  <2>3. \A q, p \in Order : Under(tx'[q]) /\ Under(tx'[p]) => q = p
    BY <1>1, <1>3, <2>2 DEF Moves
  <2>4. \A p \in Order : ReadIsCommitted(tx[p])'
    <3> TAKE p \in Order
    <3>1. ReadIsCommitted(tx'[p])
      BY <1>1, <1>3 DEF PaperInv, Moves
    <3> QED
      BY <1>1, <3>1 DEF ReadIsCommitted
  <2>5. SpentIn(tx') = SpentIn(tx) /\ \A c \in Coin : BoughtIn(tx', c) = BoughtIn(tx, c)
    BY <1>1, BooksStay DEF Moves
  <2>6. BooksAddUp'
    BY <1>1, <1>3, <2>5 DEF PaperInv, BooksAddUp, Moves
  <2> QED
    BY <2>1, <2>3, <2>4, <2>6
<1> QED
  BY <1>1, <1>2, <1>3 DEF PaperInv, Moves

(* A product of positive numbers is one: what an order comes to.           *)
LEMMA TotalsArePositive ==
  ASSUME NEW p \in Int, NEW q \in Int, p > 0, q > 0
  PROVE  p * q \in Int /\ p * q > 0
OBVIOUS

LEMMA AskStep ==
  ASSUME PO!PaperAssumption, PaperInv, NEW o \in Order, PO!Ask(o)
  PROVE  PaperInv'
<1>1. PICK side \in {"buy", "sell"}, c \in Coin, p \in Price, q \in Quantity :
        tx' = [tx EXCEPT ![o] =
          [PO!Idle EXCEPT !.side = side, !.coin = c, !.quantity = q, !.total = p * q,
             !.pc = IF /\ PO!Passes("POST", "/private/orders")
                       /\ "order" \in flags
                       /\ q > 0 /\ p > 0
                    THEN "priced" ELSE "refused"]]
  BY DEF PO!Ask
<1> DEFINE goes == IF /\ PO!Passes("POST", "/private/orders")
                    /\ "order" \in flags
                    /\ q > 0 /\ p > 0
                 THEN "priced" ELSE "refused"
           total == p * q
           r == [pc |-> goes, side |-> side, coin |-> c, quantity |-> q, total |-> total,
                 cash |-> 0, held |-> 0, row |-> 0]
<1>2. p \in Int /\ q \in Int /\ total \in Int
  BY TotalsArePositive DEF PO!PaperAssumption
<1>3. goes \in {"priced", "refused"} /\ (goes = "priced" => q > 0 /\ total > 0)
  BY <1>2, TotalsArePositive
<1> HIDE DEF goes, total
<1>4. tx' = [tx EXCEPT ![o] = r]
  <2> DEFINE any == CHOOSE x \in Coin : TRUE
  <2>1. PO!Idle = [pc |-> "new", side |-> "buy", coin |-> any, quantity |-> 0, total |-> 0,
                   cash |-> 0, held |-> 0, row |-> 0]
    BY DEF PO!Idle
  <2> HIDE DEF any
  <2>2. [PO!Idle EXCEPT !.side = side, !.coin = c, !.quantity = q, !.total = total,
                        !.pc = goes] = r
    <3> DEFINE one == [PO!Idle EXCEPT !.side = side]
               two == [one EXCEPT !.coin = c]
               three == [two EXCEPT !.quantity = q]
               four == [three EXCEPT !.total = total]
    <3>1. one = [pc |-> "new", side |-> side, coin |-> any, quantity |-> 0, total |-> 0,
                 cash |-> 0, held |-> 0, row |-> 0]
      BY <2>1
    <3> HIDE DEF one
    <3>2. two = [pc |-> "new", side |-> side, coin |-> c, quantity |-> 0, total |-> 0,
                 cash |-> 0, held |-> 0, row |-> 0]
      BY <3>1
    <3> HIDE DEF two
    <3>3. three = [pc |-> "new", side |-> side, coin |-> c, quantity |-> q, total |-> 0,
                   cash |-> 0, held |-> 0, row |-> 0]
      BY <3>2
    <3> HIDE DEF three
    <3>4. four = [pc |-> "new", side |-> side, coin |-> c, quantity |-> q,
                  total |-> total, cash |-> 0, held |-> 0, row |-> 0]
      BY <3>3
    <3> HIDE DEF four
    <3>5. [four EXCEPT !.pc = goes] = r
      BY <3>4
    <3> QED
      BY <3>5 DEF one, two, three, four
  <2> HIDE DEF r
  <2> QED
    BY <1>1, <2>2 DEF goes, total
<1>5. r \in Calls /\ r.pc = goes /\ r.quantity = q /\ r.total = total
  BY <1>2, <1>3 DEF Calls, PaperStages
<1> HIDE DEF r
<1>6. /\ UNCHANGED <<cash, holding, rebuilt, lock, apart>> /\ tx[o].pc = "new"
      /\ lock # o
  BY DEF PO!Ask, PaperInv, PaperCallOk
<1>7. PaperCallOk(o, r, lock')
  BY <1>3, <1>5, <1>6 DEF PaperCallOk
<1>8. ReadIsCommitted(r) /\ ~Under(r)
  BY <1>3, <1>5 DEF ReadIsCommitted, Under
<1>9. /\ lock' \in Order \cup {Nobody} /\ lock' = lock /\ apart' \in BOOLEAN /\ apart' = apart
      /\ r.pc # "filled" /\ tx[o].pc # "filled"
  BY <1>3, <1>5, <1>6 DEF PaperInv
<1>10. Moves(o, r)
  BY <1>4, <1>5, <1>6, <1>7, <1>8, <1>9 DEF Moves
<1> QED
  BY <1>10, CallMoves

LEMMA BeginStep ==
  ASSUME PO!PaperAssumption, PaperInv, NEW o \in Order, PO!Begin(o)
  PROVE  PaperInv'
<1> DEFINE goes == IF ~PO!Affords(o) THEN "refused"
                 ELSE IF tx[o].side = "buy" THEN "checked" ELSE "read"
           first == [tx[o] EXCEPT !.cash = cash]
           r == [first EXCEPT !.pc = goes]
<1>1. /\ tx' = [tx EXCEPT ![o].cash = cash, ![o].pc = goes]
      /\ tx[o].pc = "priced" /\ UNCHANGED <<cash, holding, rebuilt, lock>>
      /\ apart' = (apart /\ \A p \in Order : ~PO!InTransaction(p))
  BY DEF PO!Begin
<1>2. goes \in {"refused", "checked", "read"}
  OBVIOUS
<1>3. /\ tx[o] \in Calls /\ cash \in Nat /\ tx \in [Order -> Calls] /\ lock # o
      /\ tx[o].quantity > 0 /\ tx[o].total > 0
  BY <1>1 DEF PaperInv, PaperCallOk
<1>4. /\ goes = "read" => tx[o].side # "buy"
      /\ goes = "checked" => tx[o].side = "buy" /\ tx[o].total <= cash
  BY DEF PO!Affords
<1> HIDE DEF goes
<1>5. tx' = [tx EXCEPT ![o] = r]
  BY <1>1, <1>3
<1>6. first \in Calls /\ first.side = tx[o].side /\ first.quantity = tx[o].quantity
      /\ first.total = tx[o].total /\ first.cash = cash
  BY <1>3 DEF Calls
<1> HIDE DEF first
<1>7. r \in Calls /\ r.side = tx[o].side /\ r.quantity = tx[o].quantity
      /\ r.total = tx[o].total /\ r.cash = cash /\ r.pc = goes
  BY <1>2, <1>6 DEF Calls, PaperStages
<1> HIDE DEF r
<1>8. r.side \in {"buy", "sell"}
  BY <1>7 DEF Calls
<1>9. PaperCallOk(o, r, lock')
  BY <1>1, <1>2, <1>3, <1>4, <1>7, <1>8 DEF PaperCallOk
<1>10. ReadIsCommitted(r)
  BY <1>2, <1>4, <1>7 DEF ReadIsCommitted
<1>11. apart' \in BOOLEAN /\ (apart' => apart /\ \A p \in Order : ~Under(tx[p]))
  BY <1>1 DEF PaperInv, PO!InTransaction, Under
<1>12. lock' \in Order \cup {Nobody} /\ lock' = lock /\ r.pc # "filled" /\ tx[o].pc # "filled"
  BY <1>1, <1>2, <1>7 DEF PaperInv
<1>13. Moves(o, r)
  BY <1>1, <1>5, <1>7, <1>9, <1>10, <1>11, <1>12 DEF Moves
<1> QED
  BY <1>13, CallMoves

LEMMA ReadHoldingStep ==
  ASSUME PO!PaperAssumption, PaperInv, NEW o \in Order, PO!ReadHolding(o)
  PROVE  PaperInv'
<1> DEFINE goes == IF holding[tx[o].coin] < tx[o].quantity THEN "refused" ELSE "checked"
           has == holding[tx[o].coin]
           at == rebuilt[tx[o].coin]
           first == [tx[o] EXCEPT !.held = has]
           second == [first EXCEPT !.row = at]
           r == [second EXCEPT !.pc = goes]
<1>1. /\ tx' = [tx EXCEPT ![o].held = has, ![o].row = at, ![o].pc = goes]
      /\ tx[o].pc = "read" /\ UNCHANGED <<cash, holding, rebuilt, lock, apart>>
  BY DEF PO!ReadHolding
<1>2. /\ tx[o] \in Calls /\ tx \in [Order -> Calls] /\ lock # o
      /\ tx[o].quantity > 0 /\ tx[o].total > 0 /\ tx[o].side = "sell" /\ tx[o].cash >= 0
  BY <1>1 DEF PaperInv, PaperCallOk
<1>3. has \in Nat /\ at \in Nat
  BY <1>2 DEF PaperInv, Calls
<1>4. goes \in {"refused", "checked"} /\ (goes = "checked" => tx[o].quantity <= has)
  BY <1>2, <1>3 DEF Calls
<1>5. tx' = [tx EXCEPT ![o] = r]
  BY <1>1, <1>2
<1> HIDE DEF goes, at
<1>6. first \in Calls /\ first.side = tx[o].side /\ first.quantity = tx[o].quantity
      /\ first.total = tx[o].total /\ first.cash = tx[o].cash /\ first.held = has
      /\ first.coin = tx[o].coin
  BY <1>2, <1>3 DEF Calls
<1> HIDE DEF first
<1>7. second \in Calls /\ second.side = tx[o].side /\ second.quantity = tx[o].quantity
      /\ second.total = tx[o].total /\ second.cash = tx[o].cash /\ second.held = has
      /\ second.coin = tx[o].coin
  BY <1>3, <1>6 DEF Calls
<1> HIDE DEF second
<1>8. r \in Calls /\ r.side = tx[o].side /\ r.quantity = tx[o].quantity
      /\ r.total = tx[o].total /\ r.cash = tx[o].cash /\ r.held = has
      /\ r.coin = tx[o].coin /\ r.pc = goes
  BY <1>4, <1>7 DEF Calls, PaperStages
<1> HIDE DEF r
<1>9. PaperCallOk(o, r, lock')
  BY <1>1, <1>2, <1>4, <1>8 DEF PaperCallOk
<1>10. apart => ReadIsCommitted(r) /\ \A p \in Order : p # o => ~Under(tx[p])
  <2> SUFFICES ASSUME apart
               PROVE  ReadIsCommitted(r) /\ \A p \in Order : p # o => ~Under(tx[p])
    OBVIOUS
  <2>1. tx[o].cash = cash
    BY <1>1 DEF PaperInv, ReadIsCommitted
  <2>2. \A p \in Order : p # o => ~Under(tx[p])
    BY <1>1 DEF PaperInv, PO!InTransaction, Under
  <2>3. r.held = holding[r.coin]
    BY <1>8
  <2> QED
    BY <1>8, <2>1, <2>2, <2>3 DEF ReadIsCommitted
<1>11. /\ lock' \in Order \cup {Nobody} /\ lock' = lock /\ apart' \in BOOLEAN /\ apart' = apart
       /\ r.pc # "filled" /\ tx[o].pc # "filled"
  BY <1>1, <1>4, <1>8 DEF PaperInv
<1>12. apart' => /\ apart /\ ReadIsCommitted(r)
                 /\ Under(r) => \A q \in Order : q # o => ~Under(tx[q])
  BY <1>10, <1>11
<1>13. Moves(o, r)
  BY <1>1, <1>5, <1>8, <1>9, <1>11, <1>12 DEF Moves
<1> QED
  BY <1>13, CallMoves

LEMMA WriteCashStep ==
  ASSUME PO!PaperAssumption, PaperInv, NEW o \in Order, PO!WriteCash(o)
  PROVE  PaperInv'
<1> DEFINE r == [tx[o] EXCEPT !.pc = "locked"]
<1>1. /\ tx' = [tx EXCEPT ![o].pc = "locked"] /\ lock' = o /\ lock = Nobody
      /\ tx[o].pc = "checked" /\ UNCHANGED <<cash, holding, rebuilt, apart>>
  BY DEF PO!WriteCash
<1>2. tx[o] \in Calls /\ tx \in [Order -> Calls] /\ PaperCallOk(o, tx[o], lock)
  BY DEF PaperInv
<1>3. tx' = [tx EXCEPT ![o] = r]
  BY <1>1, <1>2
<1>4. r \in Calls /\ r.side = tx[o].side /\ r.quantity = tx[o].quantity
      /\ r.total = tx[o].total /\ r.cash = tx[o].cash /\ r.held = tx[o].held
      /\ r.coin = tx[o].coin /\ r.pc = "locked"
  BY <1>2 DEF Calls, PaperStages
<1> HIDE DEF r
<1>5. PaperCallOk(o, r, lock')
  BY <1>1, <1>2, <1>4 DEF PaperCallOk
<1>6. apart => ReadIsCommitted(r) /\ \A p \in Order : p # o => ~Under(tx[p])
  <2> SUFFICES ASSUME apart
               PROVE  ReadIsCommitted(r) /\ \A p \in Order : p # o => ~Under(tx[p])
    OBVIOUS
  <2>1. ReadIsCommitted(tx[o])
    BY DEF PaperInv
  <2>2. \A p \in Order : p # o => ~Under(tx[p])
    BY <1>1 DEF PaperInv, PO!InTransaction, Under
  <2> QED
    BY <1>1, <1>4, <2>1, <2>2 DEF ReadIsCommitted
<1>7. /\ lock' \in Order \cup {Nobody} /\ apart' \in BOOLEAN /\ apart' = apart
      /\ r.pc # "filled" /\ tx[o].pc # "filled"
      /\ \A p \in Order : p # o => (lock' = p <=> lock = p)
  BY <1>1, <1>4 DEF PaperInv, PO!PaperAssumption
<1>8. apart' => /\ apart /\ ReadIsCommitted(r)
                /\ Under(r) => \A q \in Order : q # o => ~Under(tx[q])
  BY <1>6, <1>7
<1>9. Moves(o, r)
  BY <1>1, <1>3, <1>4, <1>5, <1>7, <1>8 DEF Moves
<1> QED
  BY <1>9, CallMoves

(* A transaction that ends without a commit.                               *)
LEMMA GivesUp ==
  ASSUME PO!PaperAssumption, PaperInv, NEW o \in Order, Under(tx[o]),
         tx' = [tx EXCEPT ![o].pc = "failed"],
         lock' = IF lock = o THEN Nobody ELSE lock,
         UNCHANGED <<cash, holding, rebuilt, apart>>
  PROVE  PaperInv'
<1> DEFINE r == [tx[o] EXCEPT !.pc = "failed"]
<1>1. tx[o] \in Calls /\ tx \in [Order -> Calls]
  BY DEF PaperInv
<1>2. tx' = [tx EXCEPT ![o] = r]
  BY <1>1
<1>3. r \in Calls /\ r.pc = "failed"
  BY <1>1 DEF Calls, PaperStages
<1> HIDE DEF r
<1>4. lock' # o
  BY DEF PO!PaperAssumption
<1>5. PaperCallOk(o, r, lock') /\ ReadIsCommitted(r) /\ ~Under(r)
  BY <1>3, <1>4 DEF PaperCallOk, ReadIsCommitted, Under
<1>6. /\ lock' \in Order \cup {Nobody} /\ apart' \in BOOLEAN /\ apart' = apart
      /\ r.pc # "filled" /\ tx[o].pc # "filled"
      /\ \A p \in Order : p # o => (lock' = p <=> lock = p)
  BY <1>3 DEF PaperInv, PO!PaperAssumption, Under
<1>7. apart' => /\ apart /\ ReadIsCommitted(r)
                /\ Under(r) => \A q \in Order : q # o => ~Under(tx[q])
  BY <1>5, <1>6
<1>8. cash' = cash /\ holding' = holding /\ rebuilt' = rebuilt
  OBVIOUS
<1>9. Moves(o, r)
  BY <1>2, <1>3, <1>5, <1>6, <1>7, <1>8 DEF Moves
<1> QED
  BY <1>9, CallMoves

LEMMA CommitStep ==
  ASSUME PO!PaperAssumption, PaperInv, NEW o \in Order, PO!Commit(o)
  PROVE  PaperInv'
<1>1. lock = o /\ lock' = Nobody /\ apart' = apart /\ tx[o].pc = "locked"
  BY DEF PO!Commit, PaperInv, PaperCallOk
<1>2. tx[o] \in Calls /\ tx \in [Order -> Calls] /\ PaperCallOk(o, tx[o], lock)
  BY DEF PaperInv
<1> DEFINE c == tx[o].coin
           after == PO!HoldsAfter(o)
<1>3. CASE tx[o].side = "sell" /\ rebuilt[c] # tx[o].row
  <2>1. tx' = [tx EXCEPT ![o].pc = "failed"] /\ UNCHANGED <<cash, holding, rebuilt, apart>>
    BY <1>3 DEF PO!Commit
  <2> QED
    BY <1>1, <2>1, GivesUp DEF Under
<1>4. CASE ~(tx[o].side = "sell" /\ rebuilt[c] # tx[o].row)
  <2>1. /\ cash' = tx[o].cash - PO!Signed(o)
        /\ holding' = [holding EXCEPT ![c] = after]
        /\ rebuilt' = [rebuilt EXCEPT ![c] = IF after = 0 THEN rebuilt[c] + 1 ELSE rebuilt[c]]
        /\ tx' = [tx EXCEPT ![o].pc = "filled"]
    BY <1>4 DEF PO!Commit
  <2> DEFINE r == [tx[o] EXCEPT !.pc = "filled"]
  <2>2. r \in Calls /\ r.side = tx[o].side /\ r.quantity = tx[o].quantity
        /\ r.total = tx[o].total /\ r.cash = tx[o].cash /\ r.held = tx[o].held
        /\ r.coin = tx[o].coin /\ r.pc = "filled"
    BY <1>2 DEF Calls, PaperStages
  <2>3. tx' = [tx EXCEPT ![o] = r]
    BY <1>2, <2>1
  <2> HIDE DEF r
  <2>4. tx' \in [Order -> Calls] /\ tx'[o] = r /\ \A p \in Order \ {o} : tx'[p] = tx[p]
    BY <1>2, <2>2, <2>3
  <2>5. c \in Coin /\ holding[c] \in Nat /\ holding \in [Coin -> Nat] /\ rebuilt \in [Coin -> Nat]
    BY <1>2 DEF Calls, PaperInv
  <2>6. /\ tx[o].quantity \in Int /\ tx[o].total \in Int /\ tx[o].cash \in Int
        /\ tx[o].held \in Int /\ tx[o].side \in {"buy", "sell"}
        /\ tx[o].quantity > 0 /\ tx[o].total > 0 /\ tx[o].cash >= 0
        /\ IF tx[o].side = "buy" THEN tx[o].total <= tx[o].cash
           ELSE tx[o].quantity <= tx[o].held
    BY <1>1, <1>2 DEF Calls, PaperCallOk
  <2>7. cash' \in Nat
    BY <2>1, <2>6 DEF PO!Signed
  <2>8. after \in Nat
    BY <2>5, <2>6 DEF PO!HoldsAfter
  <2> HIDE DEF after, c
  <2>9. holding' \in [Coin -> Nat] /\ rebuilt' \in [Coin -> Nat]
    BY <2>1, <2>5, <2>8
  <2>10. \A p \in Order : PaperCallOk(p, tx'[p], lock')
    <3> TAKE p \in Order
    <3>1. lock' # p
      BY <1>1 DEF PO!PaperAssumption
    <3>2. CASE p = o
      BY <2>2, <2>4, <3>1, <3>2 DEF PaperCallOk
    <3>3. CASE p # o
      <4>1. PaperCallOk(p, tx[p], lock) /\ tx'[p] = tx[p] /\ lock # p
        BY <1>1, <2>4, <3>3 DEF PaperInv
      <4> QED
        BY <3>1, <4>1 DEF PaperCallOk
    <3> QED
      BY <3>2, <3>3
  <2>11. ASSUME apart
         PROVE  /\ \A p \in Order : ~Under(tx'[p])
                /\ cash' = cash - SignedIn(tx', o)
                /\ \A d \in Coin : holding'[d] = holding[d] + IF d = c THEN GainIn(tx', o) ELSE 0
    <3>1. \A p \in Order : ~Under(tx'[p])
      <4>1. \A p \in Order \ {o} : ~Under(tx[p])
        BY <1>1, <2>11 DEF PaperInv, PO!InTransaction, Under
      <4>2. ~Under(r)
        BY <2>2 DEF Under
      <4> QED
        BY <2>4, <4>1, <4>2
    <3>2. /\ tx[o].cash = cash
          /\ tx[o].side = "sell" => tx[o].held = holding[c]
      BY <1>1, <2>11 DEF PaperInv, ReadIsCommitted, c
    <3>3. /\ SignedIn(tx', o) = PO!Signed(o)
          /\ GainIn(tx', o) = IF tx[o].side = "buy" THEN tx[o].quantity ELSE - tx[o].quantity
      BY <2>2, <2>4 DEF SignedIn, GainIn, PO!Signed
    <3>4. after = holding[c] + GainIn(tx', o)
      BY <2>5, <2>6, <3>2, <3>3 DEF after, c, PO!HoldsAfter
    <3>5. cash' = cash - SignedIn(tx', o)
      BY <2>1, <3>2, <3>3
    <3>6. GainIn(tx', o) \in Int
      BY <2>6, <3>3
    <3>7. \A d \in Coin : holding'[d] = holding[d] + IF d = c THEN GainIn(tx', o) ELSE 0
      <4> TAKE d \in Coin
      <4>1. holding[d] \in Nat /\ holding'[d] = IF d = c THEN after ELSE holding[d]
        BY <2>1, <2>5
      <4> QED
        BY <3>4, <3>6, <4>1
    <3> QED
      BY <3>1, <3>5, <3>7
  <2>12. ASSUME apart
         PROVE  BooksAddUp'
    <3>1. BooksAddUp
      BY <2>12 DEF PaperInv
    <3>2. /\ SpentIn(tx') = SpentIn(tx) + SignedIn(tx', o) /\ SpentIn(tx) \in Int
          /\ \A d \in Coin :
               BoughtIn(tx', d) = BoughtIn(tx, d) + IF d = c THEN GainIn(tx', o) ELSE 0
      BY <1>1, <2>2, <2>4, <2>5, BooksGrow DEF c
    <3>3. SignedIn(tx', o) \in Int
      BY <2>2, <2>4 DEF SignedIn, Calls
    <3>4. cash' = StartCash - SpentIn(tx')
      BY <2>11, <2>12, <3>1, <3>2, <3>3 DEF BooksAddUp, PO!PaperAssumption
    <3>5. \A d \in Coin : holding'[d] = BoughtIn(tx', d)
      BY <2>11, <2>12, <3>1, <3>2 DEF BooksAddUp
    <3> QED
      BY <3>4, <3>5 DEF BooksAddUp
  <2>13. ASSUME apart
         PROVE  /\ \A q, p \in Order : PO!InTransaction(q)' /\ PO!InTransaction(p)' => q = p
                /\ \A p \in Order : ReadIsCommitted(tx[p])'
    BY <2>11, <2>13 DEF PO!InTransaction, Under, ReadIsCommitted
  <2> QED
    BY <1>1, <2>4, <2>7, <2>9, <2>10, <2>12, <2>13 DEF PaperInv
<1> QED
  BY <1>3, <1>4

LEMMA PaperStep ==
  ASSUME PO!PaperAssumption, PaperInv, [PO!Next]_(PO!vars)
  PROVE  PaperInv'
<1>1. CASE UNCHANGED (PO!vars)
  BY <1>1 DEF PO!vars, PaperInv, PaperCallOk, PO!InTransaction, ReadIsCommitted, BooksAddUp
<1>2. ASSUME NEW o \in Order, PO!RollBack(o)
      PROVE  PaperInv'
  <2>1. Under(tx[o]) /\ UNCHANGED <<cash, holding, rebuilt, apart>>
        /\ tx' = [tx EXCEPT ![o].pc = "failed"]
        /\ lock' = IF lock = o THEN Nobody ELSE lock
    BY <1>2 DEF PO!RollBack, PO!InTransaction, Under
  <2> QED
    BY <2>1, GivesUp
<1> QED
  BY <1>1, <1>2, AskStep, BeginStep, ReadHoldingStep, WriteCashStep, CommitStep DEF PO!Next

LEMMA PaperStarts ==
  ASSUME PO!PaperAssumption, PO!Init
  PROVE  PaperInv
<1>1. tx = [o \in Order |-> PO!Idle] /\ PO!Idle \in Calls /\ PO!Idle.pc = "new"
  BY DEF PO!Init, PO!Idle, Calls, PaperStages, PO!PaperAssumption
<1>2. /\ cash \in Nat /\ holding \in [Coin -> Nat] /\ rebuilt \in [Coin -> Nat]
      /\ lock = Nobody /\ apart \in BOOLEAN /\ cash = StartCash
      /\ \A c \in Coin : holding[c] = 0
  BY DEF PO!Init, PO!PaperAssumption
<1>3. \A o \in Order : PaperCallOk(o, tx[o], lock) /\ ReadIsCommitted(tx[o]) /\ ~Under(tx[o])
  BY <1>1, <1>2 DEF PaperCallOk, ReadIsCommitted, Under, PO!PaperAssumption
<1>4. BooksAddUp
  <2>1. AllFilled(tx) = {} /\ \A c \in Coin : FilledIn(tx, c) = {}
    BY <1>1 DEF AllFilled, FilledIn
  <2>2. \A f : SumOver(f, {}) = 0
    BY FS_EmptySet, SumOverFacts
  <2>3. SpentIn(tx) = 0 /\ \A c \in Coin : BoughtIn(tx, c) = 0
    BY <2>1, <2>2 DEF SpentIn, BoughtIn
  <2> QED
    BY <1>2, <2>3 DEF BooksAddUp, PO!PaperAssumption
<1> QED
  BY <1>1, <1>2, <1>3, <1>4 DEF PaperInv, PO!InTransaction, Under

(* However many paper orders of a user overlap, neither his cash nor a     *)
(* holding goes below zero; and as long as no two of them overlapped, both *)
(* are what his filled orders add up to (createOrder).                     *)
THEOREM PaperBooksBalance ==
  ASSUME PO!PaperAssumption
  PROVE  PO!Spec => []PO!BooksBalance
<1>1. PO!Init => PaperInv
  BY PaperStarts
<1>2. PaperInv /\ [PO!Next]_(PO!vars) => PaperInv'
  BY PaperStep
<1>3. PaperInv => PO!BooksBalance
  <2>1. IsFiniteSet(Order)
    BY DEF PO!PaperAssumption, PO!IsFiniteSet, IsFiniteSet
  <2> QED
    BY <2>1, BooksIn DEF PaperInv, BooksAddUp, PO!BooksBalance
<1> QED
  BY <1>1, <1>2, <1>3, PTL DEF PO!Spec

-----------------------------------------------------------------------------
(* The fills a client of /ws/trading is sent (PrivateStreams).             *)
CONSTANTS Exchange, Offered, Poll, MaxVersion, Recent, MaxKnown, MaxSubs
VARIABLES truth, registered, pollTimer, inFlight, running, walk, digests,
          sentFills, received, log, snapshot
PS == INSTANCE PrivateStreams WITH timer <- pollTimer

(* What a poll of fills knows after each of them exists.                   *)
IsAfter(g, base, fills, N) ==
  g = [i \in 0 .. N |-> IF i = 0 THEN base ELSE PS!SendsFill(g[i - 1], fills[i])]

LEMMA AfterExists ==
  ASSUME NEW base, NEW fills, NEW N \in Nat
  PROVE  \E g : IsAfter(g, base, fills, N)
<1> DEFINE Steps(g, n) ==
             [i \in 0 .. n |-> IF i = 0 THEN base ELSE PS!SendsFill(g[i - 1], fills[i])]
           Lacking == {n \in Nat : ~ \E g : g = Steps(g, n)}
<1>1. Lacking = {}
  <2> SUFFICES ASSUME Lacking # {} PROVE FALSE
    OBVIOUS
  <2>1. PICK n \in Lacking : \A m \in Lacking : n <= m
    <3>1. Lacking \subseteq Nat
      OBVIOUS
    <3> HIDE DEF Lacking
    <3> QED
      BY <3>1, Least
  <2>2. n # 0
    <3> DEFINE g == [i \in 0 .. 0 |-> base]
    <3>1. g = Steps(g, 0)
      OBVIOUS
    <3> HIDE DEF g, Steps
    <3> QED
      BY <3>1
  <2>3. n \in Nat /\ n - 1 \in Nat /\ n - 1 \notin Lacking
    <3>1. n \in Nat
      OBVIOUS
    <3> HIDE DEF Lacking
    <3> QED
      BY <2>1, <2>2, <3>1
  <2>4. PICK g : g = Steps(g, n - 1)
    BY <2>3
  <2> DEFINE h == Steps(g, n)
  <2>5. \A i \in 0 .. n - 1 : h[i] = g[i]
    <3> SUFFICES ASSUME NEW i \in 0 .. n - 1 PROVE h[i] = g[i]
      OBVIOUS
    <3>1. g[i] = IF i = 0 THEN base ELSE PS!SendsFill(g[i - 1], fills[i])
      BY <2>4
    <3>2. i \in 0 .. n
      BY <2>3
    <3> QED
      BY <3>1, <3>2
  <2>6. \A i \in 0 .. n : i # 0 => i - 1 \in 0 .. n - 1
    BY <2>3
  <2>7. h = Steps(h, n)
    <3>1. \A i \in 0 .. n : i # 0 => h[i - 1] = g[i - 1]
      BY <2>5, <2>6
    <3> QED
      BY <3>1
  <2> HIDE DEF h, Steps
  <2> QED
    BY <2>1, <2>7
<1> QED
  BY <1>1 DEF IsAfter

LEMMA AfterFillsIs ==
  ASSUME PS!FillsAssumption, NEW e \in Exchange, NEW n \in 0 .. MaxVersion
  PROVE  LET fills == PS!RecentFills(e, n)
             after == PS!AfterFills(e, n)
         IN  /\ Len(fills) \in Nat
             /\ \A i \in 1 .. Len(fills) : fills[i] \in PS!Fill
             /\ after[0] = [known |-> sentFills, log |-> log, newest |-> received[<<"fills", e>>]]
             /\ \A i \in 1 .. Len(fills) : after[i] = PS!SendsFill(after[i - 1], fills[i])
<1> DEFINE fills == PS!RecentFills(e, n)
           after == PS!AfterFills(e, n)
           base == [known |-> sentFills, log |-> log, newest |-> received[<<"fills", e>>]]
           N == Len(fills)
           Is(g) == IsAfter(g, base, fills, N)
<1>1. N \in Nat /\ \A i \in 1 .. N : fills[i] \in PS!Fill
  <2> DEFINE c == IF n < Recent THEN n ELSE Recent
  <2>1. c \in Nat /\ c <= n /\ n <= MaxVersion /\ n \in Int /\ MaxVersion \in Int
    BY DEF PS!FillsAssumption
  <2>2. fills = [i \in 1 .. c |-> <<e, n - i + 1>>]
    BY DEF PS!RecentFills
  <2> HIDE DEF fills, c
  <2>3. \A i \in 1 .. c : n - i + 1 \in 1 .. MaxVersion
    BY <2>1
  <2>4. fills \in [1 .. c -> PS!Fill]
    BY <2>2, <2>3 DEF PS!Fill
  <2>5. Len(fills) = c
    BY <2>1, <2>4
  <2> QED
    BY <2>1, <2>4, <2>5
<1>2. after = CHOOSE g : Is(g)
  BY DEF PS!AfterFills, IsAfter
<1> HIDE DEF fills, base, after, N
<1>3. \E g : Is(g)
  BY <1>1, AfterExists
<1>4. Is(after)
  <2> HIDE DEF Is
  <2> QED
    BY <1>2, <1>3
<1>5. after[0] = base
  BY <1>1, <1>4 DEF IsAfter
<1>6. \A i \in 1 .. N : after[i] = PS!SendsFill(after[i - 1], fills[i])
  BY <1>1, <1>4 DEF IsAfter
<1> QED
  BY <1>1, <1>5, <1>6 DEF fills, base, after, N


Single(s) == \A i, j \in 1 .. Len(s) : s[i] = s[j] => i = j
FillList(s) == s \in Seq(PS!Fill) /\ Single(s)

LEMMA AddedOnce ==
  ASSUME PS!FillsAssumption, NEW s, FillList(s), Len(s) <= MaxKnown, NEW f \in PS!Fill, f \notin PS!ToSet(s)
  PROVE  FillList(PS!AddBounded(s, f)) /\ Len(PS!AddBounded(s, f)) <= MaxKnown
<1> DEFINE V == PS!Fill
           t == IF Len(s) >= MaxKnown THEN Tail(s) ELSE s
<1>1. /\ s \in Seq(V) /\ Len(s) \in Nat /\ \A i, j \in 1 .. Len(s) : s[i] = s[j] => i = j
      /\ \A i \in 1 .. Len(s) : s[i] # f
      /\ MaxKnown \in Nat /\ MaxKnown > 0
  BY DEF FillList, Single, PS!ToSet, PS!FillsAssumption
<1>2. /\ t \in Seq(V) /\ Len(t) \in Nat /\ Len(t) < MaxKnown
      /\ \A i, j \in 1 .. Len(t) : t[i] = t[j] => i = j
      /\ \A i \in 1 .. Len(t) : t[i] # f
  <2>1. CASE Len(s) >= MaxKnown
    <3>1. s # <<>> /\ t = Tail(s)
      BY <1>1, <2>1
    <3> HIDE DEF t, V
    <3>2. /\ t \in Seq(V) /\ Len(t) = Len(s) - 1
          /\ \A i \in 1 .. Len(t) : t[i] = s[i + 1] /\ i + 1 \in 1 .. Len(s)
      BY <1>1, <3>1
    <3>3. ASSUME NEW i \in 1 .. Len(t), NEW j \in 1 .. Len(t), t[i] = t[j] PROVE i = j
      <4>1. i + 1 = j + 1
        BY <1>1, <3>2, <3>3
      <4> QED
        BY <4>1
    <3>4. Len(t) \in Nat /\ Len(t) < MaxKnown
      BY <1>1, <3>2
    <3> QED
      BY <1>1, <3>2, <3>3, <3>4
  <2>2. CASE ~(Len(s) >= MaxKnown)
    BY <1>1, <2>2
  <2> QED
    BY <2>1, <2>2
<1>3. PS!AddBounded(s, f) = Append(t, f)
  BY DEF PS!AddBounded
<1> HIDE DEF t
<1>4. f \in V
  OBVIOUS
<1> HIDE DEF V
<1>5. /\ Append(t, f) \in Seq(V) /\ Len(Append(t, f)) = Len(t) + 1
      /\ \A i \in 1 .. Len(t) + 1 : Append(t, f)[i] = IF i = Len(t) + 1 THEN f ELSE t[i]
  BY <1>2, <1>4
<1>6. \A i, j \in 1 .. Len(t) + 1 : Append(t, f)[i] = Append(t, f)[j] => i = j
  <2> SUFFICES ASSUME NEW i \in 1 .. Len(t) + 1, NEW j \in 1 .. Len(t) + 1,
                      Append(t, f)[i] = Append(t, f)[j]
               PROVE  i = j
    OBVIOUS
  <2>1. (i = Len(t) + 1 \/ i \in 1 .. Len(t)) /\ (j = Len(t) + 1 \/ j \in 1 .. Len(t))
    BY <1>2
  <2> QED
    BY <1>2, <1>5, <2>1
<1>7. Len(Append(t, f)) <= MaxKnown
  BY <1>1, <1>2, <1>5
<1> QED
  BY <1>3, <1>5, <1>6, <1>7 DEF FillList, Single, V

(* A collection without an entry has the others, each as often.            *)
LEMMA WithoutFacts ==
  ASSUME NEW s \in Seq(Exchange), NEW e
  PROVE  LET t == PS!Without(s, e)
         IN  t \in Seq(Exchange) /\ Len(t) <= Len(s) /\ (Single(s) => Single(t))
<1> DEFINE t == PS!Without(s, e)
<1>0. Len(s) \in Nat
  OBVIOUS
<1>1. CASE e \notin PS!ToSet(s)
  BY <1>0, <1>1 DEF PS!Without
<1>2. CASE e \in PS!ToSet(s)
  <2>1. \E i \in DOMAIN s : s[i] = e
    BY <1>2 DEF PS!ToSet
  <2> DEFINE k == CHOOSE i \in DOMAIN s : s[i] = e
             at(n) == IF n < k THEN n ELSE n + 1
  <2>2. k \in 1 .. Len(s)
    BY <2>1
  <2>3. t = [i \in 1 .. Len(s) - 1 |-> IF i < k THEN s[i] ELSE s[i + 1]]
    BY <1>2 DEF PS!Without
  <2> HIDE DEF k, t
  <2>4. \A i \in 1 .. Len(s) - 1 : at(i) \in 1 .. Len(s) /\ t[i] = s[at(i)]
    BY <1>0, <2>2, <2>3
  <2>5. Len(s) - 1 \in Nat /\ \A i \in 1 .. Len(s) : s[i] \in Exchange
    BY <1>0, <2>2
  <2>6. t \in [1 .. Len(s) - 1 -> Exchange]
    BY <2>3, <2>4, <2>5
  <2>7. t \in Seq(Exchange) /\ Len(t) = Len(s) - 1
    BY <2>5, <2>6
  <2>8. Single(s) => Single(t)
    <3> SUFFICES ASSUME Single(s), NEW i \in 1 .. Len(t), NEW j \in 1 .. Len(t), t[i] = t[j]
                 PROVE  i = j
      BY DEF Single
    <3>1. at(i) \in 1 .. Len(s) /\ at(j) \in 1 .. Len(s) /\ s[at(i)] = s[at(j)]
      BY <2>4, <2>7
    <3> HIDE DEF at
    <3>2. at(i) = at(j)
      BY <3>1 DEF Single
    <3> QED
      BY <2>2, <2>7, <3>2 DEF at
  <2> QED
    BY <1>0, <2>7, <2>8 DEF t
<1> QED
  BY <1>1, <1>2

(* A collection an entry is added to that it does not have.                *)
LEMMA AppendSingle ==
  ASSUME NEW s \in Seq(Exchange), Single(s), NEW e \in Exchange, e \notin PS!ToSet(s)
  PROVE  Append(s, e) \in Seq(Exchange) /\ Single(Append(s, e)) /\ Len(Append(s, e)) = Len(s) + 1
<1>1. Len(s) \in Nat /\ \A i \in 1 .. Len(s) : s[i] # e
  BY DEF PS!ToSet
<1>2. /\ Append(s, e) \in Seq(Exchange) /\ Len(Append(s, e)) = Len(s) + 1
      /\ \A i \in 1 .. Len(s) + 1 : Append(s, e)[i] = IF i = Len(s) + 1 THEN e ELSE s[i]
  BY <1>1
<1>3. ASSUME NEW i \in 1 .. Len(s) + 1, NEW j \in 1 .. Len(s) + 1, Append(s, e)[i] = Append(s, e)[j]
      PROVE  i = j
  <2>1. (i = Len(s) + 1 \/ i \in 1 .. Len(s)) /\ (j = Len(s) + 1 \/ j \in 1 .. Len(s))
    BY <1>1
  <2> QED
    BY <1>1, <1>2, <1>3, <2>1 DEF Single
<1> QED
  BY <1>2, <1>3 DEF Single

(* What a loop of a poll is at and has ahead of it.                        *)
Walks == [at : Exchange \cup {"nowhere"}, ahead : Seq(Exchange), answer : -1 .. MaxVersion]

SubsIn(s) == SumOver([l \in Offered |-> Len(s[l])], Offered)

(* While its socket is open the client was sent what sentFillIds holds.    *)
StreamInv ==
  /\ truth \in [PS!Feed -> 0 .. MaxVersion]
  /\ socket \in {"open", "closing", "gone"} /\ registered \in BOOLEAN
  /\ pollTimer \in BOOLEAN /\ inFlight \in BOOLEAN
  /\ subs \in [Offered -> Seq(Exchange)] /\ \A l \in Offered : Single(subs[l])
  /\ SubsIn(subs) <= MaxSubs
  /\ running \subseteq Poll
  /\ walk \in [Poll -> [Offered -> Walks]]
  /\ digests \in [PS!Feed -> -1 .. MaxVersion] /\ received \in [PS!Feed -> -1 .. MaxVersion]
  /\ snapshot \in [Exchange -> {"idle", "awaited", "late"}]
  /\ FillList(sentFills) /\ FillList(log) /\ Len(sentFills) <= MaxKnown
  /\ socket = "open" => log = sentFills

LEMMA OfferedFinite == ASSUME PS!FillsAssumption PROVE IsFiniteSet(Offered)
<1>1. IsFiniteSet({"orders", "fills", "portfolio"})
  <2>1. IsFiniteSet({}) /\ IsFiniteSet({} \cup {"orders"}) /\ IsFiniteSet(({} \cup {"orders"}) \cup {"fills"})
        /\ IsFiniteSet((({} \cup {"orders"}) \cup {"fills"}) \cup {"portfolio"})
    BY FS_EmptySet, FS_AddElement
  <2>2. (({} \cup {"orders"}) \cup {"fills"}) \cup {"portfolio"} = {"orders", "fills", "portfolio"}
    OBVIOUS
  <2> QED
    BY <2>1, <2>2
<1> QED
  BY <1>1, FS_Subset DEF PS!FillsAssumption

LEMMA CountIs ==
  ASSUME PS!FillsAssumption, NEW T
  PROVE  PS!MapThenSumSet(LAMBDA l : Len(T[l]), Offered) = SubsIn(T)
<1> DEFINE f == [l \in Offered |-> Len(T[l])]
           It(g) == [s \in SUBSET Offered |-> IF s = {} THEN 0
                                            ELSE Len(T[First(s)]) + g[s \ {First(s)}]]
           iter == CHOOSE g : g = It(g)
<1>1. IsFiniteSet(Offered)
  BY OfferedFinite
<1>2. PS!MapThenSumSet(LAMBDA l : Len(T[l]), Offered) = iter[Offered]
  BY DEF PS!MapThenSumSet, PS!MapThenFoldSet, First
<1>3. \A g : It(g) = SumsOf(g, f, Offered)
  BY FirstIsIn DEF SumsOf
<1>4. PICK h : IsSum(h, f, Offered)
  BY <1>1, SumExists
<1>5. iter = It(iter)
  <2>1. h = It(h)
    BY <1>3, <1>4 DEF IsSum
  <2> HIDE DEF It
  <2> QED
    BY <2>1
<1>6. IsSum(iter, f, Offered)
  BY <1>3, <1>5 DEF IsSum
<1> HIDE DEF iter, f
<1>7. SumOver(f, Offered) = iter[Offered]
  BY <1>1, <1>6, SumOverIs
<1> QED
  BY <1>2, <1>7 DEF SubsIn, f

(* A collection that changes changes the number of subscriptions by as     *)
(* much.                                                                   *)
LEMMA CountChanges ==
  ASSUME PS!FillsAssumption, NEW T \in [Offered -> Seq(Exchange)], NEW l \in Offered,
         NEW s \in Seq(Exchange)
  PROVE  /\ SubsIn(T) \in Int
         /\ SubsIn([T EXCEPT ![l] = s]) = SubsIn(T) - Len(T[l]) + Len(s)
<1> DEFINE f == [k \in Offered |-> Len(T[k])]
           U == [T EXCEPT ![l] = s]
           g == [k \in Offered |-> Len(U[k])]
           R == Offered \ {l}
<1>1. IsFiniteSet(Offered) /\ IsFiniteSet(R)
  BY OfferedFinite, FS_RemoveElement
<1>2. U \in [Offered -> Seq(Exchange)] /\ U[l] = s /\ \A k \in R : U[k] = T[k]
  OBVIOUS
<1> HIDE DEF U
<1>3. /\ \A k \in Offered : f[k] \in Int /\ g[k] \in Int
      /\ \A k \in R : f[k] = g[k]
      /\ f[l] = Len(T[l]) /\ g[l] = Len(s) /\ f[l] \in Int /\ g[l] \in Int
  BY <1>2
<1> HIDE DEF f, g
<1>4. SumOver(f, Offered) \in Int /\ SumOver(f, Offered) = f[l] + SumOver(f, R)
  BY <1>1, <1>3, SumOverFacts
<1>5. SumOver(g, Offered) \in Int /\ SumOver(g, Offered) = g[l] + SumOver(g, R)
  BY <1>1, <1>3, SumOverFacts
<1>6. SumOver(f, R) = SumOver(g, R) /\ SumOver(f, R) \in Int
  <2>1. \A k \in R : f[k] \in Int
    BY <1>3
  <2> HIDE DEF R
  <2> QED
    BY <1>1, <1>3, <2>1, SumOverSame, SumOverFacts
<1>7. SubsIn(T) = SumOver(f, Offered) /\ SubsIn(U) = SumOver(g, Offered)
  BY DEF SubsIn, f, g
<1> QED
  BY <1>3, <1>4, <1>5, <1>6, <1>7 DEF U

LEMMA VisitTyped ==
  ASSUME PS!FillsAssumption, NEW ahead \in Seq(Exchange) PROVE PS!Visit(ahead) \in Walks
BY DEF PS!FillsAssumption, PS!Visit, PS!AtEnd, PS!Nowhere, PS!Waiting, Walks

LEMMA SeenTyped ==
  ASSUME PS!FillsAssumption, StreamInv, NEW l \in Offered, NEW e, NEW added \in Seq(Exchange)
  PROVE  PS!Seen(l, e, added) \in [Poll -> [Offered -> Walks]]
<1>1. SUFFICES ASSUME NEW p \in Poll
      PROVE  [walk[p] EXCEPT ![l].ahead =
                IF walk[p][l].at = PS!Nowhere THEN <<>> ELSE PS!Without(walk[p][l].ahead, e) \o added]
               \in [Offered -> Walks]
  BY DEF PS!Seen
<1>2. walk[p] \in [Offered -> Walks] /\ walk[p][l] \in Walks
  BY DEF StreamInv
<1>3. walk[p][l].ahead \in Seq(Exchange)
  BY <1>2 DEF Walks
<1>4. PS!Without(walk[p][l].ahead, e) \in Seq(Exchange)
  BY <1>3, WithoutFacts
<1> DEFINE x == IF walk[p][l].at = PS!Nowhere THEN <<>> ELSE PS!Without(walk[p][l].ahead, e) \o added
           stays == [walk[p][l] EXCEPT !.ahead = x]
<1>5. x \in Seq(Exchange)
  BY <1>4
<1> HIDE DEF x
<1>6. stays \in Walks
  BY <1>2, <1>5 DEF Walks
<1>7. [walk[p] EXCEPT ![l].ahead = x] = [walk[p] EXCEPT ![l] = stays]
  BY <1>2
<1> HIDE DEF stays
<1> QED
  BY <1>2, <1>6, <1>7 DEF x

LEMMA StartsTyped ==
  ASSUME PS!FillsAssumption, StreamInv, NEW w \in [Poll -> [Offered -> Walks]],
         NEW s \in [Offered -> Seq(Exchange)], PS!PollStarts(w, s)
  PROVE  running' \subseteq Poll /\ inFlight' = TRUE /\ walk' \in [Poll -> [Offered -> Walks]]
<1>1. PICK p \in Poll : /\ running' = running \cup {p} /\ inFlight' = TRUE
                        /\ walk' = [w EXCEPT ![p] = [l \in Offered |-> PS!Visit(s[l])]]
  BY DEF PS!PollStarts
<1>2. [l \in Offered |-> PS!Visit(s[l])] \in [Offered -> Walks]
  BY VisitTyped
<1> QED
  BY <1>1, <1>2 DEF StreamInv

(* After each fill of a poll sentFillIds has no fill twice, and an open    *)
(* client was sent what it holds.                                          *)
LEMMA FillsSent ==
  ASSUME PS!FillsAssumption, StreamInv, NEW e \in Exchange, NEW n \in 0 .. MaxVersion,
         "fills" \in Offered, PS!SendsFills(e, n)
  PROVE  /\ FillList(sentFills') /\ FillList(log') /\ Len(sentFills') <= MaxKnown
         /\ socket = "open" => log' = sentFills'
         /\ received' \in [PS!Feed -> -1 .. MaxVersion]
<1> DEFINE fills == PS!RecentFills(e, n)
           after == PS!AfterFills(e, n)
           Good(a) == /\ FillList(a.known) /\ Len(a.known) <= MaxKnown
                      /\ socket = "open" => a.log = a.known
                      /\ a.newest \in -1 .. MaxVersion
           Bad == {i \in 0 .. Len(fills) : ~Good(after[i])}
<1>1. /\ Len(fills) \in Nat
      /\ \A i \in 1 .. Len(fills) : fills[i] \in PS!Fill
      /\ after[0] = [known |-> sentFills, log |-> log, newest |-> received[<<"fills", e>>]]
      /\ \A i \in 1 .. Len(fills) : after[i] = PS!SendsFill(after[i - 1], fills[i])
  BY AfterFillsIs
<1>2. received[<<"fills", e>>] \in -1 .. MaxVersion
  BY DEF StreamInv, PS!Feed
<1> HIDE DEF fills, after
<1>3. Bad = {}
  <2> SUFFICES ASSUME Bad # {} PROVE FALSE
    OBVIOUS
  <2>1. PICK i \in Bad : \A m \in Bad : i <= m
    <3>1. Bad \subseteq Nat
      OBVIOUS
    <3> HIDE DEF Bad
    <3> QED
      BY <3>1, Least
  <2>2. i # 0
    <3>1. Good(after[0])
      BY <1>1, <1>2 DEF StreamInv
    <3> QED
      BY <3>1
  <2>3. i \in 1 .. Len(fills) /\ i - 1 \in 0 .. Len(fills)
    BY <1>1, <2>2
  <2>4. i - 1 \notin Bad
    <3>1. i \in Int
      BY <2>3
    <3> HIDE DEF Bad
    <3> QED
      BY <2>1, <3>1
  <2> DEFINE a == after[i - 1]
             f == fills[i]
  <2>5. Good(a) /\ f \in PS!Fill /\ after[i] = PS!SendsFill(a, f)
    BY <1>1, <2>3, <2>4
  <2> HIDE DEF a, f
  <2>6. Good(PS!SendsFill(a, f))
    <3>1. CASE f \in PS!ToSet(a.known)
      BY <2>5, <3>1 DEF PS!SendsFill
    <3>2. CASE f \notin PS!ToSet(a.known)
      <4>1. FillList(PS!AddBounded(a.known, f)) /\ Len(PS!AddBounded(a.known, f)) <= MaxKnown
        BY <2>5, <3>2, AddedOnce
      <4>2. /\ PS!SendsFill(a, f).known = PS!AddBounded(a.known, f)
            /\ PS!SendsFill(a, f).log = PS!LastSent(a.log, f)
            /\ PS!SendsFill(a, f).newest \in {f[2], a.newest}
        BY <3>2 DEF PS!SendsFill
      <4>3. socket = "open" => PS!LastSent(a.log, f) = PS!AddBounded(a.known, f)
        BY <2>5 DEF PS!LastSent, PS!AddBounded
      <4>4. f[2] \in -1 .. MaxVersion
        BY <2>5 DEF PS!Fill
      <4> QED
        BY <2>5, <4>1, <4>2, <4>3, <4>4
    <3> QED
      BY <3>1, <3>2
  <2> HIDE DEF Good
  <2> QED
    BY <2>5, <2>6
<1>4. Good(after[Len(fills)])
  BY <1>1, <1>3
<1>5. /\ sentFills' = after[Len(fills)].known
      /\ log' = IF socket = "open" THEN after[Len(fills)].log ELSE log
      /\ received' = IF socket = "open" THEN [received EXCEPT ![<<"fills", e>>] = after[Len(fills)].newest]
                     ELSE received
  BY DEF PS!SendsFills, fills, after
<1>6. received' \in [PS!Feed -> -1 .. MaxVersion]
  BY <1>4, <1>5 DEF StreamInv
<1> QED
  BY <1>4, <1>5, <1>6 DEF StreamInv

LEMMA SubscribeStep ==
  ASSUME PS!FillsAssumption, StreamInv, NEW l \in Offered, NEW e \in Exchange, PS!Subscribe(l, e)
  PROVE  StreamInv'
<1> DEFINE seen == IF PS!Subscribed(l, e) THEN walk ELSE PS!Seen(l, e, <<e>>)
<1>1. /\ UNCHANGED <<truth, socket, registered, digests, sentFills, received, log>>
      /\ pollTimer' = TRUE
      /\ subs' = [subs EXCEPT ![l] = IF PS!Subscribed(l, e) THEN subs[l] ELSE Append(subs[l], e)]
      /\ PS!Admits(l, e)
      /\ \/ PS!PollStarts(seen, subs')
         \/ walk' = seen /\ UNCHANGED <<running, inFlight>>
  BY DEF PS!Subscribe
<1>2. subs \in [Offered -> Seq(Exchange)] /\ subs[l] \in Seq(Exchange) /\ Single(subs[l])
  BY DEF StreamInv
<1>3. seen \in [Poll -> [Offered -> Walks]]
  <2>1. <<e>> \in Seq(Exchange)
    OBVIOUS
  <2> QED
    BY <2>1, SeenTyped DEF StreamInv
<1> HIDE DEF seen
<1>4. /\ subs' \in [Offered -> Seq(Exchange)] /\ \A k \in Offered : Single(subs'[k])
      /\ SubsIn(subs') <= MaxSubs
  <2>1. CASE PS!Subscribed(l, e)
    <3>1. subs' = subs
      BY <1>1, <1>2, <2>1
    <3> QED
      BY <3>1 DEF StreamInv
  <2>2. CASE ~PS!Subscribed(l, e)
    <3> DEFINE t == Append(subs[l], e)
    <3>1. t \in Seq(Exchange) /\ Single(t) /\ Len(t) = Len(subs[l]) + 1
      BY <1>2, <2>2, AppendSingle DEF PS!Subscribed
    <3>2. subs' = [subs EXCEPT ![l] = t]
      BY <1>1, <2>2
    <3> HIDE DEF t
    <3>3. SubsIn(subs) < MaxSubs
      BY <1>1, <2>2, CountIs DEF PS!Admits, PS!SubscriptionCount
    <3>4. SubsIn(subs) \in Int /\ SubsIn(subs') = SubsIn(subs) - Len(subs[l]) + Len(t)
      BY <1>2, <3>1, <3>2, CountChanges
    <3>5. SubsIn(subs') <= MaxSubs
      <4>1. Len(subs[l]) \in Int /\ MaxSubs \in Int
        BY <1>2 DEF PS!FillsAssumption
      <4> QED
        BY <3>1, <3>3, <3>4, <4>1
    <3> QED
      BY <3>1, <3>2, <3>5 DEF StreamInv
  <2> QED
    BY <2>1, <2>2
<1>5. running' \subseteq Poll /\ inFlight' \in BOOLEAN /\ walk' \in [Poll -> [Offered -> Walks]]
  BY <1>1, <1>3, <1>4, StartsTyped DEF StreamInv
<1>6. snapshot' \in [Exchange -> {"idle", "awaited", "late"}]
  BY DEF PS!Subscribe, StreamInv
<1> QED
  BY <1>1, <1>4, <1>5, <1>6 DEF StreamInv

LEMMA UnsubscribeStep ==
  ASSUME PS!FillsAssumption, StreamInv, NEW l \in Offered, NEW e \in Exchange, PS!Unsubscribe(l, e)
  PROVE  StreamInv'
<1> DEFINE t == PS!Without(subs[l], e)
<1>1. /\ UNCHANGED <<truth, socket, registered, inFlight, running, sentFills, received, log>>
      /\ subs' = [subs EXCEPT ![l] = t]
      /\ pollTimer' \in BOOLEAN
      /\ walk' = PS!Seen(l, e, <<>>)
      /\ digests' \in {digests, [digests EXCEPT ![<<l, e>>] = -1]}
  BY DEF PS!Unsubscribe, PS!DigestsWithout, PS!Unsent
<1>2. subs \in [Offered -> Seq(Exchange)] /\ subs[l] \in Seq(Exchange) /\ Single(subs[l])
  BY DEF StreamInv
<1>3. t \in Seq(Exchange) /\ Single(t) /\ Len(t) <= Len(subs[l])
  BY <1>2, WithoutFacts
<1> HIDE DEF t
<1>4. SubsIn(subs') <= MaxSubs
  <2>1. SubsIn(subs) \in Int /\ SubsIn(subs') = SubsIn(subs) - Len(subs[l]) + Len(t)
    BY <1>1, <1>2, <1>3, CountChanges
  <2>2. Len(subs[l]) \in Int /\ Len(t) \in Int /\ MaxSubs \in Int /\ SubsIn(subs) <= MaxSubs
    BY <1>2, <1>3 DEF PS!FillsAssumption, StreamInv
  <2> QED
    BY <1>3, <2>1, <2>2
<1>5. walk' \in [Poll -> [Offered -> Walks]]
  <2>1. <<>> \in Seq(Exchange)
    OBVIOUS
  <2> QED
    BY <1>1, <2>1, SeenTyped
<1>6. snapshot' \in [Exchange -> {"idle", "awaited", "late"}]
  BY DEF PS!Unsubscribe, StreamInv
<1>7. digests' \in [PS!Feed -> -1 .. MaxVersion]
  <2>1. -1 \in -1 .. MaxVersion
    BY DEF PS!FillsAssumption
  <2> QED
    BY <1>1, <2>1 DEF StreamInv
<1>8. subs' \in [Offered -> Seq(Exchange)] /\ \A k \in Offered : Single(subs'[k])
  BY <1>1, <1>2, <1>3 DEF StreamInv
<1> QED
  BY <1>1, <1>4, <1>5, <1>6, <1>7, <1>8 DEF StreamInv

(* What the loops do.                                                      *)
LEMMA WalkWritten ==
  ASSUME StreamInv, NEW p \in Poll, NEW l \in Offered, NEW w \in Walks
  PROVE  [walk EXCEPT ![p][l] = w] \in [Poll -> [Offered -> Walks]]
<1>1. walk[p] \in [Offered -> Walks] /\ walk \in [Poll -> [Offered -> Walks]]
  BY DEF StreamInv
<1>2. [walk[p] EXCEPT ![l] = w] \in [Offered -> Walks]
  BY <1>1
<1>3. [walk EXCEPT ![p][l] = w] = [walk EXCEPT ![p] = [walk[p] EXCEPT ![l] = w]]
  BY <1>1
<1> QED
  BY <1>1, <1>2, <1>3

LEMMA LoopStep ==
  ASSUME PS!FillsAssumption, StreamInv, NEW p \in Poll, NEW l \in Offered,
         PS!Answers(p, l) \/ PS!Fails(p, l)
  PROVE  StreamInv'
<1> DEFINE w == walk[p][l]
<1>1. w \in Walks
  BY DEF StreamInv
<1>2. UNCHANGED <<truth, socket, registered, subs, pollTimer, inFlight, running, digests, sentFills,
                  received, log, snapshot>>
  BY DEF PS!Answers, PS!Fails, PS!client, PS!sent
<1>3. walk' \in [Poll -> [Offered -> Walks]]
  <2>1. CASE PS!Answers(p, l)
    <3> DEFINE v == [w EXCEPT !.answer = truth[<<l, w.at>>]]
    <3>1. w.at \in Exchange /\ walk' = [walk EXCEPT ![p][l].answer = truth[<<l, w.at>>]]
      BY <1>1, <2>1 DEF PS!Answers, PS!Nowhere, Walks
    <3>2. truth[<<l, w.at>>] \in -1 .. MaxVersion
      <4>1. truth[<<l, w.at>>] \in 0 .. MaxVersion
        BY <3>1 DEF StreamInv, PS!Feed
      <4> QED
        BY <4>1 DEF PS!FillsAssumption
    <3>3. v \in Walks
      BY <1>1, <3>2 DEF Walks
    <3>4. walk' = [walk EXCEPT ![p][l] = v]
      BY <3>1
    <3> HIDE DEF v
    <3> QED
      BY <3>3, <3>4, WalkWritten
  <2>2. CASE PS!Fails(p, l)
    <3>1. walk' = [walk EXCEPT ![p][l] = PS!Visit(w.ahead)]
      BY <2>2 DEF PS!Fails
    <3>2. PS!Visit(w.ahead) \in Walks
      BY <1>1, VisitTyped DEF Walks
    <3> HIDE DEF w
    <3> QED
      BY <3>1, <3>2, WalkWritten
  <2> QED
    BY <2>1, <2>2
<1> QED
  BY <1>2, <1>3 DEF StreamInv

LEMMA DeliversStep ==
  ASSUME PS!FillsAssumption, StreamInv, NEW p \in Poll, NEW l \in Offered, PS!Delivers(p, l)
  PROVE  StreamInv'
<1> DEFINE w == walk[p][l]
<1>1. w \in Walks
  BY DEF StreamInv
<1>2. /\ UNCHANGED <<truth, socket, registered, subs, pollTimer, inFlight, running>>
      /\ w.at # "nowhere" /\ w.answer # -1
      /\ walk' = [walk EXCEPT ![p][l] = PS!Visit(w.ahead)]
      /\ IF l = "fills" THEN PS!SendsFills(w.at, w.answer) ELSE PS!SendsVersion(l, w.at, w.answer)
  BY DEF PS!Delivers, PS!client, PS!Nowhere, PS!Waiting
<1>3. w.at \in Exchange /\ w.answer \in 0 .. MaxVersion /\ w.ahead \in Seq(Exchange)
  BY <1>1, <1>2 DEF Walks, PS!FillsAssumption
<1> HIDE DEF w
<1>4. walk' \in [Poll -> [Offered -> Walks]]
  BY <1>2, <1>3, VisitTyped, WalkWritten
<1>5. /\ FillList(sentFills') /\ FillList(log') /\ Len(sentFills') <= MaxKnown
      /\ socket = "open" => log' = sentFills'
      /\ received' \in [PS!Feed -> -1 .. MaxVersion] /\ digests' \in [PS!Feed -> -1 .. MaxVersion]
      /\ snapshot' \in [Exchange -> {"idle", "awaited", "late"}]
  <2>1. CASE l = "fills"
    <3>1. PS!SendsFills(w.at, w.answer) /\ UNCHANGED <<digests, snapshot>> /\ "fills" \in Offered
      BY <1>2, <2>1 DEF PS!SendsFills
    <3> QED
      BY <1>3, <3>1, FillsSent DEF StreamInv
  <2>2. CASE l # "fills"
    <3>1. /\ UNCHANGED <<sentFills, log>>
          /\ digests' = [digests EXCEPT ![<<l, w.at>>] = w.answer]
          /\ received' \in {received, [received EXCEPT ![<<l, w.at>>] = w.answer]}
          /\ snapshot' \in {snapshot, [snapshot EXCEPT ![w.at] = snapshot[w.at]],
                            [snapshot EXCEPT ![w.at] = "idle"], [snapshot EXCEPT ![w.at] = "late"]}
      BY <1>2, <2>2 DEF PS!SendsVersion
    <3>2. w.answer \in -1 .. MaxVersion
      BY <1>3 DEF PS!FillsAssumption
    <3> QED
      BY <1>3, <3>1, <3>2 DEF StreamInv
  <2> QED
    BY <2>1, <2>2
<1> QED
  BY <1>2, <1>4, <1>5 DEF StreamInv

LEMMA StreamStep ==
  ASSUME PS!FillsAssumption, StreamInv, [PS!Next]_(PS!vars)
  PROVE  StreamInv'
<1>1. CASE UNCHANGED PS!vars
  BY <1>1 DEF PS!vars, StreamInv
<1>2. ASSUME NEW l \in Offered, NEW e \in Exchange, PS!Happens(l, e) PROVE StreamInv'
  <2>1. /\ truth' = [truth EXCEPT ![<<l, e>>] = truth[<<l, e>>] + 1] /\ truth[<<l, e>>] < MaxVersion
        /\ UNCHANGED <<socket, registered, subs, pollTimer, inFlight, running, walk, digests, sentFills,
                       received, log, snapshot>>
    BY <1>2 DEF PS!Happens, PS!client, PS!sent
  <2>2. truth[<<l, e>>] + 1 \in 0 .. MaxVersion
    BY <2>1 DEF StreamInv, PS!Feed, PS!FillsAssumption
  <2> QED
    BY <2>1, <2>2 DEF StreamInv
<1>3. CASE PS!IntervalFires
  <2>1. /\ PS!PollStarts(walk, subs)
        /\ UNCHANGED <<truth, socket, registered, subs, pollTimer, digests, sentFills, received, log, snapshot>>
    BY <1>3 DEF PS!IntervalFires, PS!client, PS!sent
  <2>2. running' \subseteq Poll /\ inFlight' = TRUE /\ walk' \in [Poll -> [Offered -> Walks]]
    BY <2>1, StartsTyped DEF StreamInv
  <2> QED
    BY <2>1, <2>2 DEF StreamInv
<1>4. ASSUME NEW p \in Poll, PS!PollEnds(p) PROVE StreamInv'
  BY <1>4 DEF PS!PollEnds, PS!client, PS!sent, StreamInv
<1>5. CASE PS!Closes
  BY <1>5 DEF PS!Closes, PS!sent, StreamInv
<1>6. CASE PS!Closed \/ PS!Dropped
  BY <1>6 DEF PS!Closed, PS!Dropped, PS!Cleanup, PS!sent, StreamInv
<1>7. \A f \in PS!Feed : f[1] \in Offered /\ f[2] \in Exchange
  BY DEF PS!Feed
<1> QED
  BY <1>1, <1>2, <1>3, <1>4, <1>5, <1>6, <1>7, SubscribeStep, UnsubscribeStep, LoopStep, DeliversStep
  DEF PS!Next, PS!ClientActs

LEMMA StreamStarts == ASSUME PS!FillsAssumption, PS!Init PROVE StreamInv
<1>1. \A l \in Offered : subs[l] = <<>>
  BY DEF PS!Init
<1>2. PS!AtEnd \in Walks
  BY DEF PS!AtEnd, PS!Nowhere, PS!Waiting, Walks, PS!FillsAssumption
<1>3. walk \in [Poll -> [Offered -> Walks]]
  BY <1>2 DEF PS!Init
<1>4. SubsIn(subs) <= MaxSubs
  <2> DEFINE f == [l \in Offered |-> Len(subs[l])]
             B == {n \in Nat : \E s \in SUBSET Offered : Cardinality(s) = n /\ SumOver(f, s) # 0}
  <2>1. \A l \in Offered : f[l] = 0
    BY <1>1
  <2> HIDE DEF f
  <2>2. \A s \in SUBSET Offered : IsFiniteSet(s) /\ Cardinality(s) \in Nat
    BY OfferedFinite, FS_Subset, FS_CardinalityType
  <2>3. B = {}
    <3> SUFFICES ASSUME B # {} PROVE FALSE
      OBVIOUS
    <3>1. PICK n \in B : \A m \in B : n <= m
      <4>1. B \subseteq Nat
        OBVIOUS
      <4> HIDE DEF B
      <4> QED
        BY <4>1, Least
    <3>2. PICK s \in SUBSET Offered : Cardinality(s) = n /\ SumOver(f, s) # 0
      OBVIOUS
    <3>3. IsFiniteSet(s) /\ \A l \in s : f[l] \in Int /\ f[l] = 0
      BY <2>1, <2>2
    <3>4. s # {}
      BY <3>2, <3>3, SumOverFacts
    <3>5. PICK l \in s : TRUE
      BY <3>4
    <3>6. /\ SumOver(f, s) = f[l] + SumOver(f, s \ {l})
          /\ Cardinality(s \ {l}) = n - 1 /\ Cardinality(s \ {l}) \in Nat
          /\ s \ {l} \in SUBSET Offered /\ n \in Nat
      <4>1. SumOver(f, s) = f[l] + SumOver(f, s \ {l})
        BY <3>3, SumOverFacts
      <4> QED
        BY <2>2, <3>2, <3>3, <4>1, FS_RemoveElement
    <3>7. SumOver(f, s \ {l}) \in Int
      <4>1. IsFiniteSet(s \ {l}) /\ \A k \in s \ {l} : f[k] \in Int
        BY <2>2, <3>3, <3>6
      <4> QED
        BY <4>1, SumOverFacts
    <3>8. SumOver(f, s \ {l}) # 0
      BY <3>2, <3>3, <3>6, <3>7
    <3>9. n - 1 \in B
      BY <3>6, <3>8
    <3> HIDE DEF B
    <3> QED
      BY <3>1, <3>6, <3>9
  <2>4. SumOver(f, Offered) = 0
    <3>1. Offered \in SUBSET Offered /\ Cardinality(Offered) \in Nat
      BY <2>2
    <3> QED
      BY <2>3, <3>1
  <2>5. SubsIn(subs) = 0
    BY <2>4 DEF SubsIn, f
  <2> QED
    BY <2>5 DEF PS!FillsAssumption
<1>5. subs \in [Offered -> Seq(Exchange)] /\ \A l \in Offered : Single(subs[l])
  BY DEF PS!Init, Single
<1>6. FillList(<<>>) /\ Len(<<>>) = 0
  BY DEF FillList, Single
<1>7. 0 \in 0 .. MaxVersion /\ -1 \in -1 .. MaxVersion /\ 0 <= MaxKnown
  BY DEF PS!FillsAssumption
<1>8. /\ truth \in [PS!Feed -> 0 .. MaxVersion]
      /\ digests \in [PS!Feed -> -1 .. MaxVersion]
      /\ received \in [PS!Feed -> -1 .. MaxVersion]
      /\ snapshot \in [Exchange -> {"idle", "awaited", "late"}]
  BY <1>7 DEF PS!Init, PS!Unsent
<1>10. FillList(sentFills) /\ FillList(log) /\ Len(sentFills) <= MaxKnown
  BY <1>6, <1>7 DEF PS!Init
<1>9. /\ sentFills = <<>> /\ log = <<>> /\ socket = "open" /\ registered = TRUE
      /\ pollTimer = FALSE /\ inFlight = FALSE /\ running = {}
  BY DEF PS!Init
<1> QED
  BY <1>3, <1>4, <1>5, <1>8, <1>9, <1>10 DEF StreamInv

LEMMA StreamTyped ==
  ASSUME PS!FillsAssumption, StreamInv
  PROVE  PS!TypeOK /\ PS!FillsNotRepeated
<1>1. \A l \in Offered : PS!IsInjective(subs[l]) /\ PS!ToSet(subs[l]) \subseteq Exchange
  <2> SUFFICES ASSUME NEW l \in Offered
               PROVE  PS!IsInjective(subs[l]) /\ PS!ToSet(subs[l]) \subseteq Exchange
    OBVIOUS
  <2>1. subs[l] \in Seq(Exchange) /\ Single(subs[l])
    BY DEF StreamInv
  <2> QED
    BY <2>1 DEF Single, PS!IsInjective, PS!ToSet
<1>2. PS!SubscriptionCount <= MaxSubs
  BY CountIs DEF PS!SubscriptionCount, StreamInv
<1>3. ASSUME NEW p \in Poll, NEW l \in Offered
      PROVE  /\ walk[p][l].at \in Exchange \cup {PS!Nowhere}
             /\ walk[p][l].answer \in PS!Waiting .. MaxVersion
             /\ PS!ToSet(walk[p][l].ahead) \subseteq Exchange
  <2>1. walk[p][l] \in Walks
    BY DEF StreamInv
  <2>2. walk[p][l].ahead \in Seq(Exchange)
    BY <2>1 DEF Walks
  <2>3. PS!ToSet(walk[p][l].ahead) \subseteq Exchange
    BY <2>2 DEF PS!ToSet
  <2> QED
    BY <2>1, <2>3 DEF Walks, PS!Nowhere, PS!Waiting
<1>4. PS!ToSet(sentFills) \subseteq PS!Fill /\ PS!ToSet(log) \subseteq PS!Fill
  <2>1. sentFills \in Seq(PS!Fill) /\ log \in Seq(PS!Fill)
    BY DEF StreamInv, FillList
  <2> QED
    BY <2>1 DEF PS!ToSet
<1>5. PS!FillsNotRepeated
  <2>1. log \in Seq(PS!Fill) /\ Single(log)
    BY DEF StreamInv, FillList
  <2>2. DOMAIN log = 1 .. Len(log)
    BY <2>1
  <2> QED
    BY <2>1, <2>2 DEF Single, PS!FillsNotRepeated, PS!IsInjective
<1> QED
  BY <1>1, <1>2, <1>3, <1>4, <1>5 DEF StreamInv, PS!TypeOK, PS!Unsent

(* Of the last fills a client was sent none was sent twice, for any number *)
(* of exchanges and fills, whatever polls failed, channels came and went   *)
(* and fills were forgotten (pollPrivateFills, addBoundedSetValue); and no *)
(* client has more subscriptions than it may.                              *)
THEOREM FillsNotRepeatedHolds ==
  ASSUME PS!FillsAssumption PROVE PS!Spec => [](PS!TypeOK /\ PS!FillsNotRepeated)
<1>1. PS!Init => StreamInv
  BY StreamStarts
<1>2. StreamInv /\ [PS!Next]_(PS!vars) => StreamInv'
  BY StreamStep
<1>3. StreamInv => PS!TypeOK /\ PS!FillsNotRepeated
  BY StreamTyped
<1> QED
  BY <1>1, <1>2, <1>3, PTL DEF PS!Spec

(* Only one poll of a client runs, and what it waits with is not older     *)
(* than what the client was sent.                                          *)
AnswerOk(w, p, l) ==
  w[p][l].at # "nowhere" =>
    /\ p \in running
    /\ l # "fills" /\ w[p][l].answer # -1 =>
         /\ received[<<l, w[p][l].at>>] <= w[p][l].answer
         /\ w[p][l].answer <= truth[<<l, w[p][l].at>>]

OnePollInv ==
  /\ ~inFlight => running = {}
  /\ \A p, q \in running : p = q
  /\ \A p \in Poll, l \in Offered : AnswerOk(walk, p, l)
  /\ \A l \in Offered, e \in Exchange : l # "fills" => received[<<l, e>>] <= truth[<<l, e>>]

NotBack == \A f \in PS!Feed : received'[f] >= received[f]

LEMMA SameNotBack ==
  ASSUME PS!FillsAssumption, StreamInv, received' = received PROVE NotBack
<1>1. \A f \in PS!Feed : received[f] \in Int
  BY DEF StreamInv
<1> QED
  BY <1>1 DEF NotBack

LEMMA PollStartsOnce ==
  ASSUME PS!FillsAssumption, StreamInv, NEW w \in [Poll -> [Offered -> Walks]], NEW s,
         \A p \in Poll, l \in Offered : AnswerOk(w, p, l),
         OnePollInv, ~inFlight, PS!PollStarts(w, s), UNCHANGED <<received, truth>>
  PROVE  OnePollInv'
<1>1. PICK p \in Poll : /\ running' = running \cup {p} /\ inFlight' = TRUE
                        /\ walk' = [w EXCEPT ![p] = [l \in Offered |-> PS!Visit(s[l])]]
  BY DEF PS!PollStarts
<1>2. running = {} /\ running' = {p}
  BY <1>1 DEF OnePollInv
<1>3. \A q \in Poll, l \in Offered : q # p => w[q][l].at = "nowhere"
  BY <1>2 DEF AnswerOk
<1>4. \A l \in Offered : walk'[p][l] = PS!Visit(s[l])
  BY <1>1
<1>5. \A q \in Poll, l \in Offered : q # p => walk'[q][l] = w[q][l]
  BY <1>1
<1>6. \A l \in Offered : PS!Visit(s[l]).answer = -1
  BY DEF PS!Visit, PS!AtEnd, PS!Waiting
<1>7. ASSUME NEW q \in Poll, NEW l \in Offered PROVE AnswerOk(walk, q, l)'
  <2>1. CASE q = p
    <3>1. walk'[q][l].answer = -1 /\ q \in running'
      BY <1>2, <1>4, <1>6, <2>1
    <3> QED
      BY <3>1 DEF AnswerOk
  <2>2. CASE q # p
    <3>1. walk'[q][l].at = "nowhere"
      BY <1>3, <1>5, <2>2
    <3> QED
      BY <3>1 DEF AnswerOk
  <2> QED
    BY <2>1, <2>2
<1> QED
  BY <1>1, <1>2, <1>7 DEF OnePollInv

(* A step that changes no answer.                                          *)
LEMMA AnswersStay ==
  ASSUME StreamInv, OnePollInv, UNCHANGED <<received, truth, running, inFlight>>,
         \A p \in Poll, l \in Offered :
           walk'[p][l].at = walk[p][l].at /\ walk'[p][l].answer = walk[p][l].answer
  PROVE  OnePollInv'
<1>1. \A p \in Poll, l \in Offered : AnswerOk(walk, p, l)'
  BY DEF AnswerOk, OnePollInv
<1> QED
  BY <1>1 DEF OnePollInv

LEMMA SeenKeeps ==
  ASSUME StreamInv, NEW l \in Offered, NEW e, NEW added
  PROVE  LET s == PS!Seen(l, e, added)
         IN  \A p \in Poll, k \in Offered :
               s[p][k].at = walk[p][k].at /\ s[p][k].answer = walk[p][k].answer
<1> DEFINE s == PS!Seen(l, e, added)
<1> SUFFICES ASSUME NEW p \in Poll, NEW k \in Offered
             PROVE  s[p][k].at = walk[p][k].at /\ s[p][k].answer = walk[p][k].answer
  OBVIOUS
<1> DEFINE x == IF walk[p][l].at = PS!Nowhere THEN <<>> ELSE PS!Without(walk[p][l].ahead, e) \o added
<1>1. s[p] = [walk[p] EXCEPT ![l].ahead = x]
  BY DEF PS!Seen
<1>2. walk[p] \in [Offered -> Walks] /\ walk[p][k] \in Walks
  BY DEF StreamInv
<1> HIDE DEF x, s
<1>3. CASE k = l
  <2>1. s[p][k] = [walk[p][k] EXCEPT !.ahead = x]
    BY <1>1, <1>2, <1>3
  <2> QED
    BY <1>2, <2>1 DEF Walks
<1>4. CASE k # l
  BY <1>1, <1>2, <1>4
<1> QED
  BY <1>3, <1>4

LEMMA SubscribeOnce ==
  ASSUME PS!FillsAssumption, StreamInv, OnePollInv, NEW l \in Offered, NEW e \in Exchange,
         PS!Subscribe(l, e)
  PROVE  OnePollInv'
<1> DEFINE seen == IF PS!Subscribed(l, e) THEN walk ELSE PS!Seen(l, e, <<e>>)
<1>1. /\ UNCHANGED <<truth, received>>
      /\ \/ ~inFlight /\ PS!PollStarts(seen, subs')
         \/ walk' = seen /\ UNCHANGED <<running, inFlight>>
  BY DEF PS!Subscribe, PS!MayPoll
<1>2. seen \in [Poll -> [Offered -> Walks]]
  <2>1. <<e>> \in Seq(Exchange)
    OBVIOUS
  <2> QED
    BY <2>1, SeenTyped DEF StreamInv
<1>3. \A p \in Poll, k \in Offered :
        seen[p][k].at = walk[p][k].at /\ seen[p][k].answer = walk[p][k].answer
  BY SeenKeeps
<1> HIDE DEF seen
<1>4. \A p \in Poll, k \in Offered : AnswerOk(seen, p, k)
  BY <1>3 DEF AnswerOk, OnePollInv
<1> QED
  BY <1>1, <1>2, <1>3, <1>4, PollStartsOnce, AnswersStay

LEMMA UnsubscribeOnce ==
  ASSUME StreamInv, OnePollInv, NEW l \in Offered, NEW e \in Exchange, PS!Unsubscribe(l, e)
  PROVE  OnePollInv'
<1>1. UNCHANGED <<truth, received, inFlight, running>> /\ walk' = PS!Seen(l, e, <<>>)
  BY DEF PS!Unsubscribe
<1>2. \A p \in Poll, k \in Offered :
        walk'[p][k].at = walk[p][k].at /\ walk'[p][k].answer = walk[p][k].answer
  BY <1>1, SeenKeeps
<1> QED
  BY <1>1, <1>2, AnswersStay

LEMMA LoopOnce ==
  ASSUME PS!FillsAssumption, StreamInv, OnePollInv, NEW p \in Poll, NEW l \in Offered,
         PS!Answers(p, l) \/ PS!Fails(p, l)
  PROVE  OnePollInv'
<1> DEFINE w == walk[p][l]
<1>1. w \in Walks /\ walk \in [Poll -> [Offered -> Walks]] /\ walk[p] \in [Offered -> Walks]
  BY DEF StreamInv
<1>2. UNCHANGED <<truth, inFlight, running, received>> /\ w.at # "nowhere"
  BY DEF PS!Answers, PS!Fails, PS!client, PS!sent, PS!Nowhere
<1>3. p \in running
  BY <1>2 DEF OnePollInv, AnswerOk
<1>4. \A q \in Poll, k \in Offered : (q # p \/ k # l) => walk'[q][k] = walk[q][k]
  BY <1>1 DEF PS!Answers, PS!Fails
<1>5. AnswerOk(walk, p, l)'
  <2>1. CASE PS!Answers(p, l)
    <3>1. w.at \in Exchange /\ walk'[p][l] = [w EXCEPT !.answer = truth[<<l, w.at>>]]
      BY <1>1, <1>2, <2>1 DEF PS!Answers, Walks
    <3>2. walk'[p][l].at = w.at /\ walk'[p][l].answer = truth[<<l, w.at>>]
      BY <1>1, <3>1 DEF Walks
    <3>3. truth[<<l, w.at>>] \in Int
      BY <3>1 DEF StreamInv, PS!Feed
    <3>4. l # "fills" => received[<<l, w.at>>] <= truth[<<l, w.at>>]
      BY <3>1 DEF OnePollInv
    <3> HIDE DEF w
    <3> QED
      BY <1>2, <1>3, <3>2, <3>3, <3>4 DEF AnswerOk
  <2>2. CASE PS!Fails(p, l)
    <3>1. walk'[p][l] = PS!Visit(w.ahead)
      BY <1>1, <2>2 DEF PS!Fails
    <3>2. walk'[p][l].answer = -1
      BY <3>1 DEF PS!Visit, PS!AtEnd, PS!Waiting
    <3> QED
      BY <1>2, <1>3, <3>2 DEF AnswerOk
  <2> QED
    BY <2>1, <2>2
<1>6. \A q \in Poll, k \in Offered : AnswerOk(walk, q, k)'
  <2> SUFFICES ASSUME NEW q \in Poll, NEW k \in Offered PROVE AnswerOk(walk, q, k)'
    OBVIOUS
  <2>1. CASE q = p /\ k = l
    BY <1>5, <2>1
  <2>2. CASE ~(q = p /\ k = l)
    BY <1>2, <1>4, <2>2 DEF OnePollInv, AnswerOk
  <2> QED
    BY <2>1, <2>2
<1> QED
  BY <1>2, <1>6 DEF OnePollInv

(* The newest fill a client was sent is never an earlier one.              *)
LEMMA NewestGrows ==
  ASSUME PS!FillsAssumption, StreamInv, NEW e \in Exchange, NEW n \in 0 .. MaxVersion,
         "fills" \in Offered
  PROVE  LET last == PS!AfterFills(e, n)[Len(PS!RecentFills(e, n))]
         IN  last.newest \in Int /\ last.newest >= received[<<"fills", e>>]
<1> DEFINE fills == PS!RecentFills(e, n)
           after == PS!AfterFills(e, n)
           before == received[<<"fills", e>>]
           Good(i) == after[i].newest \in Int /\ after[i].newest >= before
           Bad == {i \in 0 .. Len(fills) : ~Good(i)}
<1>1. /\ Len(fills) \in Nat
      /\ \A i \in 1 .. Len(fills) : fills[i] \in PS!Fill
      /\ after[0] = [known |-> sentFills, log |-> log, newest |-> before]
      /\ \A i \in 1 .. Len(fills) : after[i] = PS!SendsFill(after[i - 1], fills[i])
  BY AfterFillsIs
<1>2. before \in Int
  BY DEF StreamInv, PS!Feed
<1> HIDE DEF fills, after, before
<1>3. Bad = {}
  <2> SUFFICES ASSUME Bad # {} PROVE FALSE
    OBVIOUS
  <2>1. PICK i \in Bad : \A m \in Bad : i <= m
    <3>1. Bad \subseteq Nat
      OBVIOUS
    <3> HIDE DEF Bad
    <3> QED
      BY <3>1, Least
  <2>2. i # 0
    BY <1>1, <1>2
  <2>3. i \in 1 .. Len(fills) /\ i - 1 \in 0 .. Len(fills) /\ i \in Int
    BY <1>1, <2>2
  <2>4. i - 1 \notin Bad
    <3> HIDE DEF Bad
    <3> QED
      BY <2>1, <2>3
  <2>5. Good(i - 1) /\ fills[i] \in PS!Fill /\ after[i] = PS!SendsFill(after[i - 1], fills[i])
    BY <1>1, <2>3, <2>4
  <2>6. fills[i][2] \in Int
    BY <2>5 DEF PS!Fill
  <2>7. after[i].newest = after[i - 1].newest
          \/ after[i].newest = IF fills[i][2] > after[i - 1].newest THEN fills[i][2]
                               ELSE after[i - 1].newest
    BY <2>5 DEF PS!SendsFill
  <2> QED
    BY <1>2, <2>5, <2>6, <2>7
<1>4. Good(Len(fills))
  BY <1>1, <1>3
<1> QED
  BY <1>4 DEF fills, after, before

LEMMA DeliversOnce ==
  ASSUME PS!FillsAssumption, StreamInv, OnePollInv, NEW p \in Poll, NEW l \in Offered,
         PS!Delivers(p, l)
  PROVE  OnePollInv' /\ NotBack
<1> DEFINE w == walk[p][l]
<1>1. w \in Walks /\ walk \in [Poll -> [Offered -> Walks]] /\ walk[p] \in [Offered -> Walks]
  BY DEF StreamInv
<1>2. /\ UNCHANGED <<truth, running, inFlight>>
      /\ w.at # "nowhere" /\ w.answer # -1
      /\ walk' = [walk EXCEPT ![p][l] = PS!Visit(w.ahead)]
      /\ IF l = "fills" THEN PS!SendsFills(w.at, w.answer) ELSE PS!SendsVersion(l, w.at, w.answer)
  BY DEF PS!Delivers, PS!client, PS!Nowhere, PS!Waiting
<1>3. w.at \in Exchange /\ w.answer \in 0 .. MaxVersion
  BY <1>1, <1>2 DEF Walks, PS!FillsAssumption
<1>4. AnswerOk(walk, p, l)
  BY DEF OnePollInv
<1>5. p \in running /\ (l # "fills" => /\ received[<<l, w.at>>] <= w.answer
                                       /\ w.answer <= truth[<<l, w.at>>])
  BY <1>2, <1>4 DEF AnswerOk
<1>6. /\ \A f \in PS!Feed : f # <<l, w.at>> => received'[f] = received[f]
      /\ l # "fills" => received'[<<l, w.at>>] \in {received[<<l, w.at>>], w.answer}
      /\ l = "fills" => /\ received'[<<l, w.at>>] >= received[<<l, w.at>>]
  <2> HIDE DEF w
  <2>1. received \in [PS!Feed -> -1 .. MaxVersion] /\ <<l, w.at>> \in PS!Feed
        /\ received[<<l, w.at>>] \in -1 .. MaxVersion
    BY <1>3 DEF StreamInv, PS!Feed
  <2>2. CASE l = "fills"
    <3> DEFINE last == PS!AfterFills(w.at, w.answer)[Len(PS!RecentFills(w.at, w.answer))]
    <3>1. last.newest \in Int /\ last.newest >= received[<<l, w.at>>]
      BY <1>3, <2>2, NewestGrows
    <3>2. received' = IF socket = "open" THEN [received EXCEPT ![<<l, w.at>>] = last.newest]
                      ELSE received
      BY <1>2, <2>2 DEF PS!SendsFills
    <3> HIDE DEF last
    <3> QED
      BY <2>1, <2>2, <3>1, <3>2
  <2>3. CASE l # "fills"
    <3>1. received' \in {received, [received EXCEPT ![<<l, w.at>>] = w.answer]}
      BY <1>2, <2>3 DEF PS!SendsVersion
    <3> QED
      BY <2>1, <2>3, <3>1
  <2> QED
    BY <2>2, <2>3
<1>7. \A f \in PS!Feed : received[f] \in Int /\ truth[f] \in Int
  BY DEF StreamInv
<1>8. NotBack
  <2> SUFFICES ASSUME NEW f \in PS!Feed PROVE received'[f] >= received[f]
    BY DEF NotBack
  <2> HIDE DEF w
  <2>1. CASE f = <<l, w.at>>
    BY <1>3, <1>5, <1>6, <1>7, <2>1
  <2>2. CASE f # <<l, w.at>>
    BY <1>6, <1>7, <2>2
  <2> QED
    BY <2>1, <2>2
<1>9. /\ \A q \in Poll, k \in Offered : (q # p \/ k # l) => walk'[q][k] = walk[q][k]
      /\ walk'[p][l].answer = -1
  BY <1>1, <1>2 DEF PS!Visit, PS!AtEnd, PS!Waiting
<1>10. \A q \in Poll, k \in Offered : AnswerOk(walk, q, k)'
  <2> SUFFICES ASSUME NEW q \in Poll, NEW k \in Offered, walk'[q][k].at # "nowhere"
               PROVE  AnswerOk(walk, q, k)'
    BY DEF AnswerOk
  <2>1. CASE q = p /\ k = l
    BY <1>2, <1>5, <1>9, <2>1 DEF AnswerOk
  <2>2. CASE ~(q = p /\ k = l)
    <3>1. walk'[q][k] = walk[q][k] /\ AnswerOk(walk, q, k)
      BY <1>9, <2>2 DEF OnePollInv
    <3>2. q \in running /\ q = p /\ k # l
      BY <1>5, <2>2, <3>1 DEF AnswerOk, OnePollInv
    <3>3. walk[q][k].at \in Exchange
      <4>1. walk[q][k] \in Walks
        BY DEF StreamInv
      <4> QED
        BY <3>1, <4>1 DEF Walks
    <3>4. received'[<<k, walk[q][k].at>>] = received[<<k, walk[q][k].at>>]
      <4>1. <<k, walk[q][k].at>> \in PS!Feed /\ <<k, walk[q][k].at>> # <<l, w.at>>
        BY <3>2, <3>3 DEF PS!Feed
      <4> QED
        BY <1>6, <4>1
    <3> QED
      BY <1>2, <3>1, <3>2, <3>4 DEF AnswerOk
  <2> QED
    BY <2>1, <2>2
<1>11. \A k \in Offered, e \in Exchange : k # "fills" => received'[<<k, e>>] <= truth[<<k, e>>]
  <2> SUFFICES ASSUME NEW k \in Offered, NEW e \in Exchange, k # "fills"
               PROVE  received'[<<k, e>>] <= truth[<<k, e>>]
    OBVIOUS
  <2>1. received[<<k, e>>] <= truth[<<k, e>>] /\ <<k, e>> \in PS!Feed
    BY DEF OnePollInv, PS!Feed
  <2> HIDE DEF w
  <2>2. CASE <<k, e>> = <<l, w.at>>
    BY <1>5, <1>6, <2>1, <2>2
  <2>3. CASE <<k, e>> # <<l, w.at>>
    BY <1>6, <2>1, <2>3
  <2> QED
    BY <2>2, <2>3
<1> QED
  BY <1>2, <1>8, <1>10, <1>11 DEF OnePollInv

LEMMA OnePollStep ==
  ASSUME PS!FillsAssumption, StreamInv, OnePollInv, [PS!Next]_(PS!vars)
  PROVE  OnePollInv' /\ NotBack
<1>1. CASE UNCHANGED PS!vars
  <2>1. UNCHANGED <<received, truth, running, inFlight, walk>>
    BY <1>1 DEF PS!vars
  <2> QED
    BY <2>1, AnswersStay, SameNotBack
<1>2. ASSUME NEW l \in Offered, NEW e \in Exchange, PS!Happens(l, e) PROVE OnePollInv' /\ NotBack
  <2>1. /\ truth' = [truth EXCEPT ![<<l, e>>] = truth[<<l, e>>] + 1]
        /\ UNCHANGED <<received, running, inFlight, walk>>
    BY <1>2 DEF PS!Happens, PS!client, PS!sent
  <2>2. \A f \in PS!Feed : truth[f] \in Int /\ received[f] \in Int /\ truth'[f] \in Int /\ truth'[f] >= truth[f]
    <3>1. /\ truth \in [PS!Feed -> 0 .. MaxVersion] /\ received \in [PS!Feed -> -1 .. MaxVersion]
          /\ <<l, e>> \in PS!Feed
      BY DEF StreamInv, PS!Feed
    <3>2. \A f \in PS!Feed : truth[f] \in 0 .. MaxVersion /\ received[f] \in -1 .. MaxVersion
      BY <3>1
    <3>3. \A f \in PS!Feed : truth[f] \in Int /\ received[f] \in Int
      BY <3>2
    <3>4. \A f \in PS!Feed : truth'[f] = IF f = <<l, e>> THEN truth[f] + 1 ELSE truth[f]
      BY <2>1, <3>1
    <3> QED
      BY <3>3, <3>4
  <2>3. \A k \in Offered, x \in Exchange : <<k, x>> \in PS!Feed
    BY DEF PS!Feed
  <2>4. ASSUME NEW p \in Poll, NEW k \in Offered PROVE AnswerOk(walk, p, k)'
    <3>1. AnswerOk(walk, p, k) /\ walk[p][k] \in Walks
      BY DEF OnePollInv, StreamInv
    <3>2. walk[p][k].at # "nowhere" => walk[p][k].at \in Exchange /\ walk[p][k].answer \in Int
      BY <3>1 DEF Walks
    <3> QED
      BY <2>1, <2>2, <2>3, <3>1, <3>2 DEF AnswerOk
  <2>5. \A k \in Offered, x \in Exchange : k # "fills" => received[<<k, x>>] <= truth'[<<k, x>>]
    BY <2>2, <2>3 DEF OnePollInv
  <2> QED
    BY <2>1, <2>4, <2>5, SameNotBack DEF OnePollInv
<1>3. CASE PS!IntervalFires
  <2>1. PS!PollStarts(walk, subs) /\ ~inFlight /\ UNCHANGED <<truth, received>>
    BY <1>3 DEF PS!IntervalFires, PS!client, PS!sent, PS!MayPoll
  <2>2. walk \in [Poll -> [Offered -> Walks]] /\ \A p \in Poll, l \in Offered : AnswerOk(walk, p, l)
    BY DEF StreamInv, OnePollInv
  <2> QED
    BY <2>1, <2>2, PollStartsOnce, SameNotBack
<1>4. ASSUME NEW p \in Poll, PS!PollEnds(p) PROVE OnePollInv' /\ NotBack
  <2>1. /\ p \in running /\ (\A l \in Offered : walk[p][l].at = "nowhere")
        /\ running' = running \ {p} /\ inFlight' = FALSE
        /\ UNCHANGED <<truth, received, walk>>
    BY <1>4 DEF PS!PollEnds, PS!client, PS!sent, PS!Nowhere
  <2>2. running = {p} /\ running' = {}
    BY <2>1 DEF OnePollInv
  <2>3. \A q \in Poll, l \in Offered : AnswerOk(walk, q, l)'
    BY <2>1, <2>2 DEF OnePollInv, AnswerOk
  <2> QED
    BY <2>1, <2>2, <2>3, SameNotBack DEF OnePollInv
<1>5. CASE PS!Closes \/ PS!Closed \/ PS!Dropped
  <2>1. UNCHANGED <<received, truth, running, inFlight, walk>>
    BY <1>5 DEF PS!Closes, PS!Closed, PS!Dropped, PS!sent
  <2> QED
    BY <2>1, AnswersStay, SameNotBack
<1>6. ASSUME NEW l \in Offered, NEW e \in Exchange, PS!Subscribe(l, e) \/ PS!Unsubscribe(l, e)
      PROVE  OnePollInv' /\ NotBack
  <2>1. received' = received
    BY <1>6 DEF PS!Subscribe, PS!Unsubscribe
  <2> QED
    BY <1>6, <2>1, SubscribeOnce, UnsubscribeOnce, SameNotBack
<1>7. ASSUME NEW p \in Poll, NEW l \in Offered, PS!Answers(p, l) \/ PS!Fails(p, l)
      PROVE  OnePollInv' /\ NotBack
  <2>1. received' = received
    BY <1>7 DEF PS!Answers, PS!Fails, PS!sent
  <2> QED
    BY <1>7, <2>1, LoopOnce, SameNotBack
<1>8. \A f \in PS!Feed : f[1] \in Offered /\ f[2] \in Exchange
  BY DEF PS!Feed
<1> QED
  BY <1>1, <1>2, <1>3, <1>4, <1>5, <1>6, <1>7, <1>8, DeliversOnce
  DEF PS!Next, PS!ClientActs

LEMMA OnePollStarts == ASSUME PS!FillsAssumption, PS!Init PROVE OnePollInv
<1>1. \A p \in Poll, l \in Offered : walk[p][l].at = "nowhere"
  BY DEF PS!Init, PS!AtEnd, PS!Nowhere
<1>2. \A l \in Offered, e \in Exchange : received[<<l, e>>] = -1 /\ truth[<<l, e>>] = 0
  BY DEF PS!Init, PS!Unsent, PS!Feed
<1> QED
  BY <1>1, <1>2 DEF PS!Init, OnePollInv, AnswerOk

(* What a client is told of an order, a portfolio or the fills of an       *)
(* exchange never goes back to an earlier state, for any number of         *)
(* exchanges and versions, because only one poll of a client runs at a     *)
(* time (pollInFlight): no answer overtakes a later one.  It is the first  *)
(* part of CaughtUp.                                                       *)
THEOREM NeverToldEarlier ==
  ASSUME PS!FillsAssumption
  PROVE  PS!Spec => [][\A f \in PS!Feed : received'[f] >= received[f]]_(PS!vars)
<1>1. PS!Init => StreamInv /\ OnePollInv
  BY StreamStarts, OnePollStarts
<1>2. StreamInv /\ OnePollInv /\ [PS!Next]_(PS!vars)
        => /\ StreamInv' /\ OnePollInv'
           /\ [\A f \in PS!Feed : received'[f] >= received[f]]_(PS!vars)
  BY StreamStep, OnePollStep DEF NotBack
<1> QED
  BY <1>1, <1>2, PTL DEF PS!Spec
===============================================================================
