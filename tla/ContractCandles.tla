--------------------------- MODULE ContractCandles ---------------------------
(***************************************************************************)
(* The candles of a market as the market contract answers them: the        *)
(* candles of an exchange, aggregated for the timeframes it does not have  *)
(* (candle-aggregation.ts, the v1 adapter), behind a short cache with the  *)
(* last known good answer beside it (getMarketCandleSnapshot in            *)
(* market-data-contract.service.ts, both under                             *)
(* src/domains/market-data/contracts).                                     *)
(*                                                                         *)
(* Time is in source candles (an hour for 4H, a day for 1W); a bucket is   *)
(* Span of them.  A source candle without trades does not exist, as at the *)
(* exchange.  One cache key is modelled: one market, timeframe and limit.  *)
(***************************************************************************)
EXTENDS Integers, Sequences, FiniteSets

CONSTANTS Caller, Span, Limit, Cap, CacheTtl, Price, MaxTime

(* parseContractLimit lets no limit below 1 through.                       *)
ContractAssumption ==
  Span \in Nat \ {0} /\ Limit \in Nat \ {0} /\ Cap \in Nat /\ Price \subseteq Int

VARIABLES now,
          traded,         \* the price of every hour so far; 0: no trade
          cache, keptGood, \* the short cache and lastKnownGoodCandles
          flight,         \* the load of the key in flight
          waiting,        \* the callers that wait for it
          answer          \* history: what this step answered

vars == <<now, traded, cache, keptGood, flight, waiting, answer>>

Nothing == [at |-> -1, candles |-> <<>>, price |-> 0]
NoCache == [savedAt |-> -1, value |-> Nothing]
NoFlight == [pc |-> "none", value |-> Nothing]
NoAnswer == [status |-> "none", value |-> Nothing]

Init == /\ now = 0 /\ traded \in [{0} -> Price \cup {0}]
        /\ cache = NoCache /\ keptGood = Nothing
        /\ flight = NoFlight /\ waiting = {} /\ answer = NoAnswer

-----------------------------------------------------------------------------
(* The numbers in K in order, and the n last of them.                      *)
Ordered(K) ==
  [n \in 1..Cardinality(K) |-> CHOOSE i \in K : Cardinality({j \in K : j <= i}) = n]
Newest(K, n) == {i \in K : Cardinality({j \in K : j >= i}) <= n}

(* fetchRawCandles: the newest candles of the exchange, turned oldest      *)
(* first; toMarketCandle.                                                  *)
Traders == {h \in 0..now : traded[h] # 0}

Source(count) ==
  LET hours == Ordered(Newest(Traders, count))
  IN [i \in DOMAIN hours |-> LET h == hours[i]
                             IN [at |-> h, open |-> traded[h], high |-> traded[h],
                                 low |-> traded[h], close |-> traded[h], volume |-> 1]]

(* floorTimestampToBucket                                                  *)
Bucket(at) == Span * (at \div Span)

(* Variant: the close of a bucket stays that of its first candle.          *)
MergedKeepsClose(old, c) ==
  [old EXCEPT !.high = IF c.high > @ THEN c.high ELSE @,
              !.low = IF c.low < @ THEN c.low ELSE @, !.volume = @ + c.volume]

Merged(old, c) ==
  [old EXCEPT !.high = IF c.high > @ THEN c.high ELSE @,
              !.low = IF c.low < @ THEN c.low ELSE @,
              !.close = c.close, !.volume = @ + c.volume]

(* aggregateCandles: the buckets with one candle more, and after all of    *)
(* them; the newest buckets, in order.                                     *)
Added(buckets, c) ==
  LET b == Bucket(c.at)
  IN IF b \in DOMAIN buckets THEN [buckets EXCEPT ![b] = Merged(@, c)]
     ELSE [d \in DOMAIN buckets \cup {b} |-> IF d = b THEN [c EXCEPT !.at = b] ELSE buckets[d]]

Buckets(candles) ==
  LET after[n \in 0..Len(candles)] ==
        IF n = 0 THEN <<>> ELSE Added(after[n - 1], candles[n])
  IN after[Len(candles)]

Aggregated(candles) ==
  LET buckets == Buckets(candles)
      order == Ordered(Newest(DOMAIN buckets, Limit))
  IN [i \in DOMAIN order |-> buckets[order[i]]]

LastOf(s, n) == SubSeq(s, IF Len(s) > n THEN Len(s) - n + 1 ELSE 1, Len(s))

(* fetchCandlesForTimeframe                                                *)
Count == IF Limit * Span + Span < Cap THEN Limit * Span + Span ELSE Cap
Fetched == LastOf(Aggregated(Source(Count)), Limit)

-----------------------------------------------------------------------------
Fresh == cache # NoCache /\ now < cache.savedAt + CacheTtl

Answered(status, value) == answer' = [status |-> status, value |-> value]
Shows(value) == Answered(IF value.candles = <<>> THEN "empty" ELSE "success", value)

(* ttlCache: a fresh answer, the load in flight, or a load of its own.     *)
Asks(c) ==
  /\ c \notin waiting
  /\ IF Fresh THEN Shows(cache.value) /\ UNCHANGED <<flight, waiting>>
     ELSE /\ waiting' = waiting \cup {c} /\ answer' = NoAnswer
          /\ flight' = IF flight = NoFlight THEN [NoFlight EXCEPT !.pc = "candles"] ELSE flight
  /\ UNCHANGED <<now, traded, cache, keptGood>>

CandlesArrive ==
  /\ flight.pc = "candles"
  /\ flight' = [pc |-> "price", value |-> [Nothing EXCEPT !.at = now, !.candles = Fetched]]
  /\ answer' = NoAnswer /\ UNCHANGED <<now, traded, cache, keptGood, waiting>>

(* Everyone who waits is answered; the cache's time starts with the load's *)
(* end.  Without a price the candles are answered all the same.            *)
PriceArrives ==
  /\ flight.pc = "price"
  /\ \E price \in {0, traded[now]} :
       LET value == [flight.value EXCEPT !.price = price] IN
       /\ cache' = [savedAt |-> now, value |-> value]
       /\ keptGood' = IF value.candles # <<>> THEN value ELSE keptGood
       /\ Shows(value)
  /\ flight' = NoFlight /\ waiting' = {} /\ UNCHANGED <<now, traded>>

LoadFails ==
  /\ flight.pc = "candles"
  /\ flight' = NoFlight /\ waiting' = {}
  /\ IF keptGood = Nothing THEN Answered("failed", Nothing) ELSE Answered("stale", keptGood)
  /\ UNCHANGED <<now, traded, cache, keptGood>>

Tick == /\ now < MaxTime /\ now' = now + 1
        /\ \E price \in Price \cup {0} : traded' = [h \in 0..(now + 1) |-> IF h <= now THEN traded[h] ELSE price]
        /\ answer' = NoAnswer /\ UNCHANGED <<cache, keptGood, flight, waiting>>

Next == (\E c \in Caller : Asks(c)) \/ CandlesArrive \/ PriceArrives \/ LoadFails \/ Tick

Spec == Init /\ [][Next]_vars

-----------------------------------------------------------------------------
(* Every candle of an answer is that of all the trades of its time up to   *)
(* when it was fetched, whatever the hours without trades, and no bucket   *)
(* between is left out.  Only with a limit so large that the exchange's    *)
(* cap cuts into it may there be fewer, and the oldest lack its start.     *)
CandlesWhole ==
  answer.status \in {"success", "stale"} =>
    LET shown == answer.value.candles
        traders == {h \in DOMAIN traded : traded[h] # 0 /\ h <= answer.value.at}
        hours(b) == {h \in traders : Bucket(h) = b}
        buckets == {Bucket(h) : h \in traders}
        capped == Limit * Span + Span > Cap
        first(H) == CHOOSE h \in H : \A g \in H : h <= g
        last(H) == CHOOSE h \in H : \A g \in H : g <= h
        whole(c) ==
          LET H == hours(c.at) IN
          /\ H # {}
          /\ c.open = traded[first(H)] /\ c.close = traded[last(H)] /\ c.volume = Cardinality(H)
          /\ \A h \in H : c.low <= traded[h] /\ traded[h] <= c.high
          /\ {c.low, c.high} \subseteq {traded[h] : h \in H}
    IN /\ \A i \in DOMAIN shown : whole(shown[i]) \/ (capped /\ i = 1)
       /\ \A b \in buckets : b >= shown[1].at => \E i \in DOMAIN shown : shown[i].at = b
       /\ ~capped => Len(shown) = IF Cardinality(buckets) < Limit THEN Cardinality(buckets) ELSE Limit
=============================================================================
