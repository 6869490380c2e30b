----------------------------- MODULE LiveCandles -----------------------------
(***************************************************************************)
(* The live candle of one market and interval                              *)
(* (src/domains/charts/chart.service.ts) and its subscribers on the        *)
(* candles channel of /ws/market (src/websocket/wsServer.ts): prices of    *)
(* trades and tickers move it, candle snapshots that were awaited seed it. *)
(***************************************************************************)
EXTENDS Integers

CONSTANTS
  Client, Price,
  Span,        \* length of the interval
  MaxLate,     \* how late a price may come
  MaxTime      \* bound on the clock

(* Intervals have a length, and prices can be compared.                    *)
LiveAssumption == Span \in Nat \ {0} /\ Price \subseteq Int

VARIABLES
  now,
  started,     \* chartLiveStarted
  tracked,     \* the interval is in trackedIntervalsByMarket
  live,        \* liveCandles.get(key)
  stored,      \* publicMarketDataStore.getCandle(key)
  open,        \* clients whose sockets are open
  subs,        \* clients whose candles set holds the key
  awaits,      \* clients whose subscription awaits its candle
  shown        \* the last candle each client was sent (history)

vars == <<now, started, tracked, live, stored, open, subs, awaits, shown>>

NoCandle == [bucket |-> -1]

Init ==
  /\ now = 0 /\ started = TRUE /\ tracked = FALSE
  /\ live = NoCandle /\ stored = NoCandle
  /\ open = Client /\ subs = {} /\ awaits = {}
  /\ shown = [c \in Client |-> NoCandle]

Bucket(t) == t - (t % Span)
Higher(a, b) == IF a >= b THEN a ELSE b
Lower(a, b)  == IF a <= b THEN a ELSE b

Flat(price, bucket, asOf) ==
  [bucket |-> bucket, open |-> price, high |-> price, low |-> price,
   close |-> price, asOf |-> asOf]

Sane(k) == /\ k.low <= k.open /\ k.low <= k.close
           /\ k.open <= k.high /\ k.close <= k.high

(* persistLiveCandle.                                                      *)
Persists(candle) == live' = candle /\ stored' = candle

Sends(clients, candle) ==
  shown' = [c \in Client |-> IF c \in clients \cap open THEN candle ELSE shown[c]]

-----------------------------------------------------------------------------
Stretched(candle, price, at) ==
  [candle EXCEPT !.high = Higher(@, price), !.low = Lower(@, price),
                 !.close = price, !.asOf = at]

(* updateTrackedCandlesFromPrice: a price of any other bucket, a later or  *)
(* an earlier one, opens that bucket at the close of the candle before.    *)
Moved(price, at) ==
  LET open0 == IF live = NoCandle THEN price ELSE live.close
  IN  IF live # NoCandle /\ live.bucket = Bucket(at)
      THEN Stretched(live, price, at)
      ELSE Stretched(Flat(open0, Bucket(at), at), price, at)

(* A trade or a ticker, and the broadcast of the candle it makes.          *)
PriceArrives(price, at) ==
  /\ IF started /\ tracked
     THEN Persists(Moved(price, at)) /\ Sends(subs, Moved(price, at))
     ELSE UNCHANGED <<live, stored, shown>>
  /\ UNCHANGED <<now, started, tracked, open, subs, awaits>>

(* splitHistoricalCandles and buildSyntheticCurrentCandle: the newest      *)
(* candle of the snapshot, if it is of this bucket, or a flat one at the   *)
(* last close.                                                             *)
Seed(newest) ==
  IF newest.bucket >= Bucket(now) THEN [newest EXCEPT !.asOf = now]
  ELSE Flat(newest.close, Bucket(now), newest.bucket + Span)

(* upsertSeedIfNewer: what remains.                                        *)
Newer(seed) ==
  IF live = NoCandle \/ live.bucket < seed.bucket \/ live.asOf <= seed.asOf
  THEN seed ELSE live

(* The snapshot's newest candle is of any bucket up to this one.           *)
Snapshots ==
  {k \in [bucket : {Bucket(t) : t \in 0 .. now}, open : Price, high : Price,
          low : Price, close : Price, asOf : {0}] : Sane(k)}

(* handleCandleSubscription: the keys are added and acknowledged; the      *)
(* candle there is is sent, or a snapshot is awaited.                      *)
Subscribes(c) ==
  LET cached == IF stored # NoCandle THEN stored ELSE live
  IN  /\ c \in open
      /\ subs' = subs \cup {c} /\ tracked' = TRUE
      /\ IF cached # NoCandle
         THEN Sends({c}, cached) /\ UNCHANGED awaits
         ELSE awaits' = awaits \cup {c} /\ UNCHANGED shown
      /\ UNCHANGED <<now, started, live, stored, open>>

(* seedLiveCandleIfNeeded after its await: the client is sent what         *)
(* remains, even when it has unsubscribed meanwhile.                       *)
Seeded(c) ==
  /\ c \in awaits /\ awaits' = awaits \ {c}
  /\ \E newest \in Snapshots :
       LET candle == Newer(Seed(newest))
       IN  /\ Sends({c}, candle)
           /\ IF candle = live THEN UNCHANGED <<live, stored>> ELSE Persists(candle)
  /\ UNCHANGED <<now, started, tracked, open, subs>>

(* No candles, or an error event.                                          *)
NotSeeded(c) ==
  /\ c \in awaits /\ awaits' = awaits \ {c}
  /\ UNCHANGED <<now, started, tracked, live, stored, open, subs, shown>>

(* getChartCandles after its snapshot: a candle of this bucket seeds the   *)
(* live one without telling the subscribers; with none at all, a second    *)
(* snapshot may make one.                                                  *)
ChartAnswers ==
  /\ tracked' = TRUE
  /\ \/ \E newest \in Snapshots :
          /\ newest.bucket >= Bucket(now) \/ (live = NoCandle /\ stored = NoCandle)
          /\ Persists(Newer(Seed(newest)))
     \/ UNCHANGED <<live, stored>>
  /\ UNCHANGED <<now, started, open, subs, awaits, shown>>

Unsubscribes(c) ==
  /\ c \in open /\ subs' = subs \ {c}
  /\ UNCHANGED <<now, started, tracked, live, stored, open, awaits, shown>>

Leaves(c) ==
  /\ c \in open /\ open' = open \ {c} /\ subs' = subs \ {c}
  /\ UNCHANGED <<now, started, tracked, live, stored, awaits, shown>>

(* stopChartLiveService; the store keeps its candle.                       *)
Stops ==
  /\ started /\ started' = FALSE
  /\ tracked' = FALSE /\ live' = NoCandle
  /\ UNCHANGED <<now, stored, open, subs, awaits, shown>>

Tick ==
  /\ now < MaxTime /\ now' = now + 1
  /\ UNCHANGED <<started, tracked, live, stored, open, subs, awaits, shown>>

Next ==
  \/ \E price \in Price, late \in 0 .. MaxLate :
       late <= now /\ PriceArrives(price, now - late)
  \/ \E c \in Client : \/ Subscribes(c) \/ Seeded(c) \/ NotSeeded(c)
                       \/ Unsubscribes(c) \/ Leaves(c)
  \/ ChartAnswers \/ Stops \/ Tick

Spec == Init /\ [][Next]_vars

-----------------------------------------------------------------------------
(* A live candle is a candle, and the one in the store, whatever mixture   *)
(* of late prices, seeds and flat candles made it.                         *)
LiveCandleSane ==
  live # NoCandle => Sane(live) /\ stored = live

(* A snapshot that was awaited never shows a client a candle other than    *)
(* the one the stream is at (handleCandleSubscription).                    *)
ShownIsCurrent ==
  \A c \in Client : shown'[c] # shown[c] => shown'[c] = stored'
=============================================================================
