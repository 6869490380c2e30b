----------------------- MODULE MarketCandleFeedProofs -----------------------
(***************************************************************************)
(* Proofs about MarketCandleFeed, for any clients, markets, bucket lengths *)
(* and prices.  IInv is the inductive invariant.  The rest is about other  *)
(* parts of the market data that share its clock: LiveCandles,             *)
(* CandleSnapshots, MarketSparklines, MarketSections, MarketSnapshots and  *)
(* MarketLists, and the lists they are made from: TickerPages and          *)
(* ExchangeTickers.                                                        *)
(***************************************************************************)
EXTENDS MarketCandleFeed, Sequences, FiniteSetTheorems, WellFoundedInduction, TLAPS

(* A client's subscriptions can be counted.                                *)
SubsFinite == \A c \in Client : IsFiniteSet(subs[c])

(* Only registered clients are subscribed, so that who connects brings no  *)
(* subscription along.                                                     *)
SubsRegistered == \A c \in Client : subs[c] # {} => c \in registered

(* What marketCandlePollInFlight is for: one poll at a time.               *)
OnePoll ==
  /\ \A p, q \in Poll :
       polls[p].stage # "idle" /\ polls[q].stage # "idle" => p = q
  /\ \A p \in Poll : polls[p].stage # "idle" => inFlight

(* A candle belongs to the bucket of the moment or to an earlier one, and  *)
(* the prices of the poll under way are no older than it.                  *)
CandlesBehind ==
  \A k \in Key : candles[k] # NoCandle =>
    /\ candles[k].bucket <= Bucket(k[2])
    /\ \A p \in Poll :
         polls[p].stage = "sampled" => candles[k].asOf <= polls[p].asOf
    /\ candles[k].asOf <= now
PricesBehind ==
  \A p \in Poll : polls[p].stage = "sampled" => polls[p].asOf <= now

(* Candle b is a later state of the feed than candle a.                    *)
Ahead(a, b) ==
  /\ b.bucket >= a.bucket /\ b.asOf >= a.asOf
  /\ b.bucket = a.bucket =>
       b.open = a.open /\ b.high >= a.high /\ b.low <= a.low

(* No client has seen more than the live candle of a key.                  *)
ReceivedBehind ==
  \A c \in Client, k \in Key :
    received[c][k].candle # NoCandle =>
      candles[k] # NoCandle /\ Ahead(received[c][k].candle, candles[k])

IInv ==
  /\ PollsIffSubscribed /\ SubsFinite /\ SubsRegistered
  /\ OnePoll /\ PricesBehind /\ CandlesBehind
  /\ ReceivedBehind

-----------------------------------------------------------------------------
(* A product grows by the factor with each step of the other factor.       *)
LEMMA ProductGrows ==
  ASSUME NEW a \in Int, NEW b \in Int, NEW t \in Nat \ {0}, a >= b + 1
  PROVE  t * a >= t * b + t
<1>1. PICK d \in Nat : a = b + 1 + d
  BY a - b - 1 \in Nat, a = b + 1 + (a - b - 1)
<1>2. t * a = t * b + t + t * d
  BY <1>1
<1>3. t * d >= 0
  OBVIOUS
<1> QED
  BY <1>2, <1>3, t * b \in Int, t * d \in Int

(* The start of the bucket of a later time is not earlier.                 *)
LEMMA BucketMonotone ==
  ASSUME NEW n \in Nat, NEW m \in Nat, n <= m, NEW t \in Nat \ {0}
  PROVE  n - (n % t) <= m - (m % t)
<1> DEFINE q == n \div t  r == n % t  p == m \div t  s == m % t
<1>1. /\ n = t * q + r /\ m = t * p + s
      /\ q \in Int /\ p \in Int /\ r \in 0 .. (t - 1) /\ s \in 0 .. (t - 1)
  OBVIOUS
<1>2. CASE p >= q
  <2>1. t * p >= t * q
    BY <1>1, <1>2, ProductGrows
  <2> QED
    BY <1>1, <2>1, t * p \in Int, t * q \in Int
<1>3. CASE q >= p + 1
  <2>1. t * q >= t * p + t
    BY <1>1, <1>3, ProductGrows
  <2>2. t * p \in Int /\ t * q \in Int
    BY <1>1
  <2> HIDE DEF q, r, p, s
  <2> QED
    BY <1>1, <2>1, <2>2
<1> QED
  BY <1>1, <1>2, <1>3

LEMMA BucketTyped ==
  ASSUME NEW n \in Nat, NEW t \in Nat \ {0}
  PROVE  n - (n % t) \in 0 .. n
OBVIOUS

LEMMA CandleFields ==
  ASSUME NEW a \in Candle
  PROVE  /\ a.bucket \in Nat /\ a.bucket \in 0 .. MaxTime
         /\ a.open \in Price /\ a.high \in Price /\ a.low \in Price
         /\ a.asOf \in 0 .. MaxTime
         /\ a.high \in Int /\ a.low \in Int /\ a.asOf \in Int
<1>1. /\ a.bucket \in 0 .. MaxTime /\ a.asOf \in 0 .. MaxTime
      /\ a.open \in Price /\ a.high \in Price /\ a.low \in Price
  BY DEF Candle
<1>2. \A price \in Price : price \in Int
  BY PriceAssumption
<1>3. a.bucket \in Nat /\ a.asOf \in Int
  BY <1>1, LimitAssumption
<1> QED
  BY <1>1, <1>2, <1>3

LEMMA AheadTransitive ==
  ASSUME NEW a \in Candle, NEW b \in Candle, NEW c \in Candle,
         Ahead(a, b), Ahead(b, c)
  PROVE  Ahead(a, c)
BY CandleFields DEF Ahead

LEMMA NoCandleIsNone == NoCandle \notin Candle
BY LimitAssumption DEF NoCandle, Candle

-----------------------------------------------------------------------------
LEMMA InitIInv == Init => IInv
<1> SUFFICES ASSUME Init PROVE IInv
  OBVIOUS
<1>1. \A c \in Client : IsFiniteSet(subs[c]) /\ Cardinality(subs[c]) <= MaxPerClient
  BY FS_EmptySet, LimitAssumption DEF Init
<1>2. TypeOK
  <2>1. polls \in [Poll -> [stage : {"idle", "fetching", "sampled"},
                            keys : SUBSET Key, asOf : 0 .. MaxTime,
                            price : [Market -> Price \cup {NoPrice}]]]
    BY LimitAssumption DEF Init, Idle, NoPrice
  <2>2. received \in [Client -> [Key -> [from : {"none", "snapshot", "poll"},
                                         candle : Candle \cup {NoCandle}]]]
    BY DEF Init, Silent
  <2>3. candles \in [Key -> Candle \cup {NoCandle}]
    BY DEF Init
  <2>4. subs \in [Client -> SUBSET Key] /\ registered \subseteq Client
    BY DEF Init
  <2>5. now \in 0 .. MaxTime
    BY LimitAssumption DEF Init
  <2>6. socket \in [Client -> {"none", "open", "closing", "gone"}]
    BY DEF Init
  <2>7. serverUp \in BOOLEAN /\ armed \in BOOLEAN /\ inFlight \in BOOLEAN
    BY DEF Init
  <2> QED
    BY <1>1, <2>1, <2>2, <2>3, <2>4, <2>5, <2>6, <2>7 DEF TypeOK
<1>3. TimerIffSubscribed
  BY DEF Init, TimerIffSubscribed, Subscribed
<1>4. OnePoll /\ PricesBehind
  BY DEF Init, OnePoll, PricesBehind, Idle
<1>5. CandlesBehind /\ ReceivedBehind
  BY DEF Init, CandlesBehind, ReceivedBehind, Silent
<1> QED
  BY <1>1, <1>2, <1>3, <1>4, <1>5 
  DEF Init, IInv, SubsFinite, SubsRegistered, PollsIffSubscribed

(* What the poll that starts captures.                                     *)
LEMMA PollStartsTyped ==
  ASSUME TypeOK, OnePoll, NEW keys \in SUBSET Key, PollOnce(keys)
  PROVE  /\ inFlight' \in BOOLEAN
         /\ polls' \in [Poll -> [stage : {"idle", "fetching", "sampled"},
                                 keys : SUBSET Key, asOf : 0 .. MaxTime,
                                 price : [Market -> Price \cup {NoPrice}]]]
         /\ OnePoll'
         /\ \A p \in Poll : polls'[p].stage = "sampled" => polls'[p] = polls[p]
<1>1. CASE UNCHANGED <<polls, inFlight>>
  BY <1>1 DEF TypeOK, OnePoll
<1>2. CASE ~inFlight /\ PollStarts(keys)
  <2>1. \A p \in Poll : polls[p].stage = "idle"
    BY <1>2 DEF TypeOK, OnePoll
  <2>2. PICK p \in Poll : polls' = [polls EXCEPT ![p] =
                            [Idle EXCEPT !.stage = "fetching", !.keys = keys]]
    BY <1>2 DEF PollStarts
  <2>3. polls'[p] = [stage |-> "fetching", keys |-> keys, asOf |-> 0,
                     price |-> [m \in Market |-> NoPrice]]
    BY <2>2 DEF TypeOK, Idle
  <2>4. \A q \in Poll \ {p} : polls'[q] = polls[q]
    BY <2>2 DEF TypeOK
  <2>5. polls'[p] \in [stage : {"idle", "fetching", "sampled"},
                       keys : SUBSET Key, asOf : 0 .. MaxTime,
                       price : [Market -> Price \cup {NoPrice}]]
    BY <2>3, LimitAssumption
  <2>6. polls' \in [Poll -> [stage : {"idle", "fetching", "sampled"},
                             keys : SUBSET Key, asOf : 0 .. MaxTime,
                             price : [Market -> Price \cup {NoPrice}]]]
    BY <2>2, <2>4, <2>5 DEF TypeOK
  <2>7. polls'[p].stage = "fetching" /\ \A q \in Poll \ {p} : polls'[q].stage = "idle"
    BY <2>1, <2>3, <2>4
  <2>8. inFlight' = TRUE
    BY <1>2 DEF PollStarts
  <2>9. OnePoll'
    BY <2>7, <2>8 DEF OnePoll
  <2> QED
    BY <2>6, <2>7, <2>8, <2>9
<1> QED
  BY <1>1, <1>2 DEF PollOnce

(* What one fold of a price into a candle makes of it.                     *)
LEMMA FoldedSound ==
  ASSUME TypeOK, NEW k \in Key, NEW price \in Price, NEW asOf \in 0 .. MaxTime,
         candles[k] # NoCandle =>
           candles[k].bucket <= Bucket(k[2]) /\ candles[k].asOf <= asOf
  PROVE  /\ Folded(k, price, asOf) \in Candle
         /\ Folded(k, price, asOf).bucket = Bucket(k[2])
         /\ Folded(k, price, asOf).asOf = asOf
         /\ candles[k] # NoCandle => Ahead(candles[k], Folded(k, price, asOf))
<1>1. k[2] \in Nat \ {0}
  BY TimeframeAssumption DEF Key
<1>2. Bucket(k[2]) \in 0 .. MaxTime
  <2>1. now \in Nat /\ now <= MaxTime
    BY LimitAssumption DEF TypeOK
  <2>2. now - (now % k[2]) \in 0 .. now
    BY <1>1, <2>1, BucketTyped
  <2> QED
    BY <2>1, <2>2, LimitAssumption DEF Bucket
<1>3. CASE candles[k] = NoCandle
  <2>1. Folded(k, price, asOf) = Opened(price, Bucket(k[2]), asOf)
    BY <1>2, <1>3 DEF Folded, NoCandle
  <2> QED
    BY <1>2, <1>3, <2>1 DEF Opened, Candle
<1>4. CASE candles[k] # NoCandle
  <2>1. candles[k] \in Candle
    BY <1>4 DEF TypeOK
  <2>2. CASE candles[k].bucket # Bucket(k[2])
    BY <1>2, <1>4, <2>1, <2>2, LimitAssumption
    DEF Folded, Opened, Candle, Ahead
  <2>3. CASE candles[k].bucket = Bucket(k[2])
    <3> DEFINE old == candles[k]
               new == Folded(k, price, asOf)
    <3>1. /\ new.bucket = old.bucket /\ new.open = old.open
          /\ new.high = Higher(old.high, price)
          /\ new.low = Lower(old.low, price)
          /\ new.close = price /\ new.asOf = asOf
          /\ new = [bucket |-> old.bucket, open |-> old.open,
                    high |-> new.high, low |-> new.low, close |-> price,
                    asOf |-> asOf]
      BY <2>1, <2>3 DEF Folded, Extended, Candle
    <3>2. price \in Int /\ old.high \in Int /\ old.low \in Int
          /\ old.high \in Price /\ old.low \in Price
          /\ old.open \in Price /\ old.bucket \in 0 .. MaxTime
          /\ old.asOf \in Int /\ old.bucket \in Int
      BY <2>1, CandleFields, PriceAssumption
    <3>3. /\ new.high \in Price /\ new.low \in Price
          /\ new.high >= old.high /\ new.low <= old.low
      BY <3>1, <3>2 DEF Higher, Lower
    <3>4. new \in Candle
      BY <3>1, <3>2, <3>3 DEF Candle
    <3>5. Ahead(old, new)
      BY <1>4, <3>1, <3>2, <3>3 DEF Ahead
    <3> QED
      BY <2>3, <3>1, <3>4, <3>5
  <2> QED
    BY <2>2, <2>3
<1> QED
  BY <1>3, <1>4

-----------------------------------------------------------------------------
(* A step, part by part of the invariant.                                  *)
LEMMA SubsStep ==
  ASSUME IInv, [Next]_vars
  PROVE  /\ subs' \in [Client -> SUBSET Key] /\ registered' \subseteq Client
         /\ SubsFinite' /\ SubsRegistered'
         /\ \A c \in Client : Cardinality(subs'[c]) <= MaxPerClient
<1> USE DEF IInv, PollsIffSubscribed, TypeOK, SubsFinite, SubsRegistered
<1>1. ASSUME NEW c \in Client, Connects(c)
      PROVE  UNCHANGED subs /\ registered' \subseteq Client /\ SubsRegistered'
  BY <1>1 DEF Connects
<1>2. ASSUME NEW c \in Client, NEW k \in Key, Subscribe(c, k)
      PROVE  /\ subs' \in [Client -> SUBSET Key]
             /\ UNCHANGED registered
             /\ SubsFinite' /\ SubsRegistered'
             /\ \A d \in Client : Cardinality(subs'[d]) <= MaxPerClient
  <2>1. /\ subs' = [subs EXCEPT ![c] = @ \cup {k}] /\ UNCHANGED registered
        /\ c \in registered
        /\ k \in subs[c] \/ Cardinality(subs[c]) < MaxPerClient
    BY <1>2 DEF Subscribe, Admits
  <2>2. /\ IsFiniteSet(subs[c] \cup {k})
        /\ Cardinality(subs[c] \cup {k}) <= MaxPerClient
    <3>1. /\ IsFiniteSet(subs[c]) /\ Cardinality(subs[c]) <= MaxPerClient
          /\ Cardinality(subs[c]) \in Nat
      BY FS_CardinalityType
    <3>2. /\ IsFiniteSet(subs[c] \cup {k})
          /\ Cardinality(subs[c] \cup {k}) =
               IF k \in subs[c] THEN Cardinality(subs[c])
                                ELSE Cardinality(subs[c]) + 1
      BY <3>1, FS_AddElement
    <3> QED
      BY <2>1, <3>1, <3>2, LimitAssumption
  <2>3. /\ subs'[c] = subs[c] \cup {k}
        /\ \A d \in Client \ {c} : subs'[d] = subs[d]
    BY <2>1
  <2>4. \A d \in Client : /\ IsFiniteSet(subs'[d])
                          /\ Cardinality(subs'[d]) <= MaxPerClient
    BY <2>2, <2>3, Zenon
  <2> QED
    BY <2>1, <2>3, <2>4
<1>3. ASSUME NEW c \in Client, NEW k \in Key, Unsubscribe(c, k)
      PROVE  /\ subs' \in [Client -> SUBSET Key]
             /\ UNCHANGED registered
             /\ SubsFinite' /\ SubsRegistered'
             /\ \A d \in Client : Cardinality(subs'[d]) <= MaxPerClient
  <2>1. subs' = [subs EXCEPT ![c] = @ \ {k}] /\ UNCHANGED registered
    BY <1>3 DEF Unsubscribe
  <2>2. /\ IsFiniteSet(subs[c] \ {k})
        /\ Cardinality(subs[c] \ {k}) <= Cardinality(subs[c])
    BY FS_Subset, FS_RemoveElement, FS_CardinalityType
  <2>3. /\ Cardinality(subs[c]) \in Nat /\ Cardinality(subs[c] \ {k}) \in Nat
        /\ Cardinality(subs[c]) <= MaxPerClient
    BY <2>2, FS_CardinalityType
  <2>4. Cardinality(subs[c] \ {k}) <= MaxPerClient
    BY <2>2, <2>3, LimitAssumption
  <2>5. /\ subs'[c] = subs[c] \ {k}
        /\ \A d \in Client \ {c} : subs'[d] = subs[d]
    BY <2>1
  <2>6. \A d \in Client : /\ IsFiniteSet(subs'[d])
                          /\ Cardinality(subs'[d]) <= MaxPerClient
    BY <2>2, <2>4, <2>5, Zenon
  <2> QED
    BY <2>1, <2>5, <2>6
<1>4. ASSUME NEW c \in Client, Cleanup(c)
      PROVE  /\ subs' \in [Client -> SUBSET Key]
             /\ registered' \subseteq Client
             /\ SubsFinite' /\ SubsRegistered'
             /\ \A d \in Client : Cardinality(subs'[d]) <= MaxPerClient
  BY <1>4, FS_EmptySet, LimitAssumption DEF Cleanup
<1>5. CASE CloseServer
  BY <1>5, FS_EmptySet, LimitAssumption DEF CloseServer
<1>6. CASE UNCHANGED <<subs, registered>>
  BY <1>6
<1>7. ASSUME NEW c \in Client,
             Connects(c) \/ Closes(c) \/ Closed(c) \/ HeartbeatTimesOut(c)
      PROVE  \/ UNCHANGED <<subs, registered>> \/ Connects(c)
             \/ Cleanup(c)
  BY <1>7 DEF Closes, Closed, HeartbeatTimesOut
<1>8. CASE Tick \/ IntervalFires \/ UNCHANGED vars
           \/ \E p \in Poll : Samples(p) \/ Applies(p) \/ Fails(p)
  BY <1>6, <1>8 DEF Tick, IntervalFires, Samples, Applies, Fails, vars
<1> QED
  BY <1>1, <1>2, <1>3, <1>4, <1>5, <1>6, <1>7, <1>8 DEF Next

LEMMA TimerStep ==
  ASSUME IInv, [Next]_vars
  PROVE  TimerIffSubscribed' /\ armed' \in BOOLEAN
<1> USE DEF TimerIffSubscribed, Subscribed
<1>1. CASE EnsurePolling
  BY <1>1 DEF EnsurePolling
<1>2. CASE UNCHANGED <<subs, registered, armed>>
  BY <1>2 DEF IInv, PollsIffSubscribed, TypeOK
<1>3. ASSUME NEW c \in Client, Connects(c)
      PROVE  TimerIffSubscribed' /\ armed' \in BOOLEAN
  <2>1. /\ registered' = registered \cup {c}
        /\ UNCHANGED <<subs, armed>>
    BY <1>3 DEF Connects
  <2>2. Subscribed' = Subscribed
    BY <2>1 DEF IInv, SubsRegistered
  <2> QED
    BY <2>1, <2>2 DEF IInv, PollsIffSubscribed, TypeOK
<1>4. CASE CloseServer
  BY <1>4 DEF CloseServer
<1>5. ASSUME NEW c \in Client,
             \/ Closes(c) \/ Closed(c) \/ HeartbeatTimesOut(c)
             \/ \E k \in Key : Subscribe(c, k) \/ Unsubscribe(c, k)
      PROVE  EnsurePolling \/ UNCHANGED <<subs, registered, armed>>
  BY <1>5 DEF Closes, Closed, HeartbeatTimesOut, Cleanup, Subscribe,
              Unsubscribe
<1>6. CASE Tick \/ IntervalFires \/ UNCHANGED vars
           \/ \E p \in Poll : Samples(p) \/ Applies(p) \/ Fails(p)
  BY <1>1, <1>2, <1>6 DEF Tick, IntervalFires, Samples, Applies, Fails, vars
<1> QED
  BY <1>1, <1>2, <1>3, <1>4, <1>5, <1>6 DEF Next

PollType == [stage : {"idle", "fetching", "sampled"}, keys : SUBSET Key,
             asOf : 0 .. MaxTime, price : [Market -> Price \cup {NoPrice}]]

LEMMA PollsStep ==
  ASSUME IInv, [Next]_vars
  PROVE  /\ polls' \in [Poll -> PollType] /\ inFlight' \in BOOLEAN
         /\ now' \in 0 .. MaxTime
         /\ OnePoll' /\ PricesBehind'
<1> USE DEF IInv, PollsIffSubscribed, TypeOK, OnePoll, PricesBehind, PollType
<1>0. \A p \in Poll : polls[p].asOf \in Int /\ now \in Int
  BY LimitAssumption
<1>1. ASSUME NEW keys \in SUBSET Key, PollOnce(keys), UNCHANGED now
      PROVE  /\ polls' \in [Poll -> PollType] /\ inFlight' \in BOOLEAN
             /\ now' \in 0 .. MaxTime
             /\ OnePoll' /\ PricesBehind'
  <2>1. /\ polls' \in [Poll -> PollType] /\ inFlight' \in BOOLEAN /\ OnePoll'
        /\ \A p \in Poll : polls'[p].stage = "sampled" => polls'[p] = polls[p]
    BY <1>1, PollStartsTyped
  <2> QED
    BY <1>1, <2>1
<1>2. ASSUME NEW p \in Poll, Samples(p)
      PROVE  /\ polls' \in [Poll -> PollType] /\ inFlight' \in BOOLEAN
             /\ now' \in 0 .. MaxTime
             /\ OnePoll' /\ PricesBehind'
  <2>1. PICK price \in [Market -> Price \cup {NoPrice}] :
          polls' = [polls EXCEPT ![p].stage = "sampled", ![p].asOf = now,
                                 ![p].price = price]
    BY <1>2 DEF Samples
  <2>2. /\ polls'[p] = [polls[p] EXCEPT !.stage = "sampled", !.asOf = now,
                                        !.price = price]
        /\ polls[p] \in PollType
        /\ \A q \in Poll \ {p} : polls'[q] = polls[q]
    BY <2>1
  <2>3. polls'[p] \in PollType
    BY <2>2
  <2>4. polls[p].stage # "idle" /\ UNCHANGED <<now, inFlight>>
    BY <1>2 DEF Samples
  <2> QED
    BY <1>0, <2>1, <2>2, <2>3, <2>4
<1>3. ASSUME NEW p \in Poll, Applies(p) \/ Fails(p)
      PROVE  /\ polls' \in [Poll -> PollType] /\ inFlight' \in BOOLEAN
             /\ now' \in 0 .. MaxTime
             /\ OnePoll' /\ PricesBehind'
  <2>1. /\ polls' = [polls EXCEPT ![p] = Idle]
        /\ polls[p].stage # "idle" /\ inFlight' = FALSE /\ UNCHANGED now
    BY <1>3 DEF Applies, Fails
  <2>2. Idle \in PollType /\ Idle.stage = "idle"
    BY LimitAssumption DEF Idle, NoPrice
  <2>3. \A q \in Poll : polls'[q].stage = "idle"
    BY <2>1, <2>2
  <2> QED
    BY <2>1, <2>2, <2>3
<1>4. CASE Tick
  <2>1. now' = now + 1 /\ now < MaxTime /\ UNCHANGED <<polls, inFlight>>
    BY <1>4 DEF Tick
  <2> QED
    BY <1>0, <2>1, LimitAssumption
<1>5. CASE UNCHANGED <<now, polls, inFlight>>
  BY <1>5
<1>6. CASE IntervalFires
  <2>1. Subscribed \in SUBSET Key
    BY DEF Subscribed
  <2> QED
    BY <1>1, <1>6, <2>1 DEF IntervalFires
<1>7. ASSUME NEW c \in Client, NEW k \in Key, Subscribe(c, k)
      PROVE  /\ polls' \in [Poll -> PollType] /\ inFlight' \in BOOLEAN
             /\ now' \in 0 .. MaxTime
             /\ OnePoll' /\ PricesBehind'
  <2>1. Subscribed \cup {k} \in SUBSET Key
    BY DEF Subscribed
  <2> QED
    BY <1>1, <1>7, <2>1 DEF Subscribe
<1>8. ASSUME NEW c \in Client,
             \/ Connects(c) \/ Closes(c) \/ Closed(c) \/ HeartbeatTimesOut(c)
             \/ \E k \in Key : Unsubscribe(c, k)
      PROVE  UNCHANGED <<now, polls, inFlight>>
  BY <1>8 DEF Connects, Closes, Closed, HeartbeatTimesOut, Unsubscribe
<1>9. CASE CloseServer \/ UNCHANGED vars
  BY <1>5, <1>9 DEF CloseServer, vars
<1> QED
  BY <1>2, <1>3, <1>4, <1>5, <1>6, <1>7, <1>8, <1>9 DEF Next

(* What a poll that applies its prices makes of the candle of a key.       *)
LEMMA AppliesToKey ==
  ASSUME IInv, NEW p \in Poll, Applies(p), NEW k \in Key
  PROVE  \/ /\ candles'[k] = candles[k]
            /\ \A c \in Client : received'[c][k] = received[c][k]
         \/ /\ candles'[k] \in Candle
            /\ candles'[k].bucket = Bucket(k[2])
            /\ candles'[k].asOf = polls[p].asOf
            /\ candles[k] # NoCandle => Ahead(candles[k], candles'[k])
            /\ \A c \in Client :
                 \/ received'[c][k] = received[c][k]
                 \/ /\ received'[c][k] = [from |-> "poll", candle |-> candles'[k]]
                    /\ k \in subs[c]
<1> DEFINE price == polls[p].price[k[1]]
<1>1. polls[p].stage = "sampled" /\ TypeOK /\ k[1] \in Market
  BY DEF Applies, IInv, PollsIffSubscribed, Key
<1>2. CASE k \in polls[p].keys /\ price # NoPrice
  <2>1. price \in Price /\ polls[p].asOf \in 0 .. MaxTime
    BY <1>1, <1>2 DEF TypeOK
  <2>2. candles'[k] = Folded(k, price, polls[p].asOf)
    BY <1>2 DEF Applies
  <2>3. candles[k] # NoCandle =>
          candles[k].bucket <= Bucket(k[2]) /\ candles[k].asOf <= polls[p].asOf
    BY <1>1 DEF IInv, CandlesBehind
  <2>4. \A c \in Client :
          \/ received'[c][k] = received[c][k]
          \/ /\ received'[c][k] = [from |-> "poll", candle |-> candles'[k]]
             /\ k \in subs[c]
    BY DEF Applies, SendsTo, Receives
  <2> QED
    BY <1>1, <2>1, <2>2, <2>3, <2>4, FoldedSound
<1>3. CASE ~(k \in polls[p].keys /\ price # NoPrice)
  BY <1>3 DEF Applies
<1> QED
  BY <1>2, <1>3

LEMMA CandlesStep ==
  ASSUME IInv, [Next]_vars
  PROVE  candles' \in [Key -> Candle \cup {NoCandle}] /\ CandlesBehind'
<1> USE DEF IInv, PollsIffSubscribed, TypeOK
<1>0. \A k \in Key : k[2] \in Nat \ {0}
  BY TimeframeAssumption DEF Key
<1>1. ASSUME NEW p \in Poll, Applies(p)
      PROVE  candles' \in [Key -> Candle \cup {NoCandle}] /\ CandlesBehind'
  <2>1. /\ UNCHANGED now
        /\ \A q \in Poll : polls'[q].stage = "idle"
        /\ polls[p].stage = "sampled" /\ polls[p].asOf <= now
    BY <1>1 DEF Applies, Idle, OnePoll, PricesBehind
  <2>2. \A k \in Key : candles'[k] \in Candle \cup {NoCandle}
    BY <1>1, AppliesToKey
  <2>3. DOMAIN candles' = Key /\ candles' = [k \in Key |-> candles'[k]]
    BY <1>1 DEF Applies
  <2>4. ASSUME NEW k \in Key, candles'[k] # NoCandle
        PROVE  candles'[k].bucket <= Bucket(k[2]) /\ candles'[k].asOf <= now
    <3>1. CASE candles'[k] = candles[k]
      BY <2>4, <3>1 DEF CandlesBehind
    <3>2. CASE candles'[k].bucket = Bucket(k[2]) /\ candles'[k].asOf = polls[p].asOf
      <4>1. candles'[k] \in Candle
        BY <2>2, <2>4
      <4>2. candles'[k].bucket \in Int
        BY <4>1, CandleFields
      <4> QED
        BY <2>1, <3>2, <4>2
    <3> QED
      BY <1>1, <3>1, <3>2, AppliesToKey
  <2> QED
    BY <2>1, <2>2, <2>3, <2>4 DEF CandlesBehind, Bucket
<1>2. CASE Tick
  <2>1. now' = now + 1 /\ UNCHANGED <<candles, polls>> /\ now \in Nat
    BY <1>2, LimitAssumption DEF Tick
  <2>2. ASSUME NEW k \in Key
        PROVE  /\ Bucket(k[2]) <= Bucket(k[2])'
               /\ Bucket(k[2]) \in Int /\ Bucket(k[2])' \in Int
    <3> HIDE DEF IInv
    <3>1. k[2] \in Nat \ {0} /\ now \in Nat /\ now' \in Nat /\ now <= now'
      BY <1>0, <2>1
    <3>2. /\ now - (now % k[2]) <= now' - (now' % k[2])
          /\ now - (now % k[2]) \in 0 .. now
          /\ now' - (now' % k[2]) \in 0 .. now'
      BY <3>1, BucketMonotone, BucketTyped
    <3> QED
      BY <3>1, <3>2 DEF Bucket
  <2>3. ASSUME NEW k \in Key, candles[k] # NoCandle
        PROVE  /\ candles[k].bucket <= Bucket(k[2])'
               /\ candles[k].asOf <= now'
    <3>1. candles[k].bucket \in Int /\ candles[k].asOf \in Int
      BY <2>3, CandleFields
    <3>2. Bucket(k[2]) \in Int /\ Bucket(k[2])' \in Int
      BY <2>2
    <3>3. candles[k].bucket <= Bucket(k[2]) /\ candles[k].asOf <= now
      BY <2>3 DEF CandlesBehind
    <3>4. Bucket(k[2]) <= Bucket(k[2])'
      BY <2>2
    <3>5. candles[k].bucket <= Bucket(k[2])'
      BY <3>1, <3>2, <3>3, <3>4
    <3>6. candles[k].asOf <= now'
      BY <2>1, <3>1, <3>3
    <3> QED
      BY <3>5, <3>6
  <2> QED
    BY <2>1, <2>3 DEF CandlesBehind
<1>3. ASSUME NEW p \in Poll, Samples(p)
      PROVE  candles' \in [Key -> Candle \cup {NoCandle}] /\ CandlesBehind'
  <2>1. /\ UNCHANGED <<now, candles>>
        /\ polls'[p].asOf = now
        /\ \A q \in Poll \ {p} : polls'[q] = polls[q]
    BY <1>3 DEF Samples
  <2> QED
    BY <2>1 DEF CandlesBehind, Bucket
<1>4. ASSUME UNCHANGED <<now, candles>>,
             \A p \in Poll : polls'[p].stage = "sampled" => polls'[p] = polls[p]
      PROVE  candles' \in [Key -> Candle \cup {NoCandle}] /\ CandlesBehind'
  BY <1>4 DEF CandlesBehind, Bucket
<1>5. ASSUME NEW p \in Poll, Fails(p)
      PROVE  candles' \in [Key -> Candle \cup {NoCandle}] /\ CandlesBehind'
  BY <1>4, <1>5 DEF Fails, Idle
<1>6. CASE UNCHANGED <<now, candles, polls>>
  BY <1>4, <1>6
<1>7. CASE IntervalFires
  <2>1. Subscribed \in SUBSET Key
    BY DEF Subscribed
  <2> QED
    BY <1>4, <1>7, <2>1, PollStartsTyped DEF IntervalFires
<1>8. ASSUME NEW c \in Client, NEW k \in Key, Subscribe(c, k)
      PROVE  candles' \in [Key -> Candle \cup {NoCandle}] /\ CandlesBehind'
  <2>1. Subscribed \cup {k} \in SUBSET Key
    BY DEF Subscribed
  <2> QED
    BY <1>4, <1>8, <2>1, PollStartsTyped DEF Subscribe
<1>9. ASSUME NEW c \in Client,
             \/ Connects(c) \/ Closes(c) \/ Closed(c) \/ HeartbeatTimesOut(c)
             \/ \E k \in Key : Unsubscribe(c, k)
      PROVE  UNCHANGED <<now, candles, polls>>
  BY <1>9 DEF Connects, Closes, Closed, HeartbeatTimesOut, Unsubscribe
<1>10. CASE CloseServer \/ UNCHANGED vars
  BY <1>6, <1>10 DEF CloseServer, vars
<1> QED
  BY <1>1, <1>2, <1>3, <1>5, <1>6, <1>7, <1>8, <1>9, <1>10 DEF Next

(* One event of a client: nothing, silence, the live candle there is, or   *)
(* the candle a poll has made.                                             *)
LEMMA EventStep ==
  ASSUME IInv, [Next]_vars, NEW c \in Client, NEW k \in Key
  PROVE  \/ /\ received'[c][k] = received[c][k]
            /\ \/ candles'[k] = candles[k]
               \/ /\ candles'[k] \in Candle
                  /\ candles[k] # NoCandle => Ahead(candles[k], candles'[k])
         \/ received'[c][k] = Silent
         \/ /\ received'[c][k] = [from |-> "snapshot", candle |-> candles[k]]
            /\ candles[k] # NoCandle /\ candles'[k] = candles[k]
            /\ k \in subs'[c]
         \/ /\ received'[c][k] = [from |-> "poll", candle |-> candles'[k]]
            /\ k \in subs'[c]
            /\ candles'[k] \in Candle /\ candles'[k].bucket = Bucket(k[2])
            /\ candles[k] # NoCandle => Ahead(candles[k], candles'[k])
<1> USE DEF IInv, PollsIffSubscribed, TypeOK
<1>1. ASSUME NEW d \in Client, NEW l \in Key, Subscribe(d, l)
      PROVE  \/ received'[c][k] = received[c][k]
             \/ received'[c][k] = Silent
             \/ /\ received'[c][k] = [from |-> "snapshot", candle |-> candles[k]]
                /\ candles[k] # NoCandle /\ k \in subs'[c]
  <2>1. CASE c = d /\ k = l
    BY <1>1, <2>1 DEF Subscribe
  <2>2. CASE ~(c = d /\ k = l)
    BY <1>1, <2>2 DEF Subscribe
  <2> QED
    BY <2>1, <2>2
<1>2. ASSUME NEW d \in Client, NEW l \in Key, Subscribe(d, l)
      PROVE  candles'[k] = candles[k]
  BY <1>2 DEF Subscribe
<1>3. ASSUME NEW p \in Poll, Applies(p)
      PROVE  UNCHANGED subs
  BY <1>3 DEF Applies
<1>4. CASE UNCHANGED <<candles, received>>
  BY <1>4
<1>5. ASSUME NEW d \in Client,
             \/ Connects(d) \/ Closes(d) \/ Closed(d) \/ HeartbeatTimesOut(d)
             \/ \E l \in Key : Unsubscribe(d, l)
      PROVE  UNCHANGED <<candles, received>>
  BY <1>5 DEF Connects, Closes, Closed, HeartbeatTimesOut, Unsubscribe
<1>6. CASE Tick \/ IntervalFires \/ CloseServer \/ UNCHANGED vars
           \/ \E p \in Poll : Samples(p) \/ Fails(p)
  BY <1>4, <1>6 DEF Tick, IntervalFires, CloseServer, Samples, Fails, vars
<1>7. CASE \E p \in Poll : Applies(p)
  BY <1>3, <1>7, AppliesToKey
<1> QED
  BY <1>1, <1>2, <1>4, <1>5, <1>6, <1>7 DEF Next

LEMMA ReceivedStep ==
  ASSUME IInv, [Next]_vars
  PROVE  ReceivedBehind' /\ NeverBack
<1>1. ASSUME NEW c \in Client, NEW k \in Key
      PROVE  /\ received'[c][k].candle # NoCandle =>
                  /\ candles'[k] # NoCandle
                  /\ Ahead(received'[c][k].candle, candles'[k])
             /\ received[c][k].candle # received'[c][k].candle
                  /\ received[c][k].candle # NoCandle
                  /\ received'[c][k].candle # NoCandle
                  => /\ k \in subs'[c]
                     /\ Ahead(received[c][k].candle, received'[c][k].candle)
             /\ received[c][k].candle # received'[c][k].candle
                  /\ received'[c][k].from = "poll"
                  => received'[c][k].candle.bucket = Bucket(k[2])
  <2> DEFINE old == received[c][k].candle
             new == received'[c][k].candle
  <2>1. /\ old \in Candle \cup {NoCandle} /\ candles[k] \in Candle \cup {NoCandle}
        /\ candles'[k] \in Candle \cup {NoCandle}
    BY CandlesStep DEF IInv, PollsIffSubscribed, TypeOK
  <2>2. old # NoCandle => candles[k] # NoCandle /\ Ahead(old, candles[k])
    BY DEF IInv, ReceivedBehind
  <2>3. \A a \in Candle : Ahead(a, a)
    BY CandleFields DEF Ahead
  <2>4. candles'[k] \in Candle => candles'[k] # NoCandle
    BY NoCandleIsNone
  <2>5. CASE /\ received'[c][k] = received[c][k]
             /\ \/ candles'[k] = candles[k]
                \/ /\ candles'[k] \in Candle
                   /\ candles[k] # NoCandle => Ahead(candles[k], candles'[k])
    BY <2>1, <2>2, <2>4, <2>5, AheadTransitive
  <2>6. CASE received'[c][k] = Silent
    BY <2>6 DEF Silent
  <2>7. CASE /\ received'[c][k] = [from |-> "snapshot", candle |-> candles[k]]
             /\ candles[k] # NoCandle /\ candles'[k] = candles[k]
             /\ k \in subs'[c]
    BY <2>1, <2>2, <2>3, <2>7
  <2>8. CASE /\ received'[c][k] = [from |-> "poll", candle |-> candles'[k]]
             /\ k \in subs'[c]
             /\ candles'[k] \in Candle /\ candles'[k].bucket = Bucket(k[2])
             /\ candles[k] # NoCandle => Ahead(candles[k], candles'[k])
    BY <2>1, <2>2, <2>3, <2>4, <2>8, AheadTransitive
  <2> QED
    BY <2>5, <2>6, <2>7, <2>8, EventStep
<1>2. ReceivedBehind'
  BY <1>1 DEF ReceivedBehind
<1>3. NeverBack
  BY <1>1 DEF NeverBack, Ahead
<1> QED
  BY <1>2, <1>3

LEMMA RestStep ==
  ASSUME IInv, [Next]_vars
  PROVE  /\ serverUp' \in BOOLEAN
         /\ socket' \in [Client -> {"none", "open", "closing", "gone"}]
         /\ received' \in [Client -> [Key ->
                 [from : {"none", "snapshot", "poll"},
                  candle : Candle \cup {NoCandle}]]]
<1> USE DEF IInv, PollsIffSubscribed, TypeOK
<1>1. serverUp' \in BOOLEAN
  BY DEF Next, Tick, IntervalFires, CloseServer, Connects, Closes, Closed,
         HeartbeatTimesOut, Subscribe, Unsubscribe, Samples, Applies, Fails,
         vars
<1>2. socket' \in [Client -> {"none", "open", "closing", "gone"}]
  BY DEF Next, Tick, IntervalFires, CloseServer, Connects, Closes, Closed,
         HeartbeatTimesOut, Subscribe, Unsubscribe, Samples, Applies, Fails,
         vars
<1>3. \A c \in Client, k \in Key :
        received'[c][k] \in [from : {"none", "snapshot", "poll"},
                             candle : Candle \cup {NoCandle}]
  <2> SUFFICES ASSUME NEW c \in Client, NEW k \in Key
               PROVE  received'[c][k] \in [from : {"none", "snapshot", "poll"},
                                           candle : Candle \cup {NoCandle}]
    OBVIOUS
  <2>1. /\ candles[k] \in Candle \cup {NoCandle}
        /\ received[c][k] \in [from : {"none", "snapshot", "poll"},
                               candle : Candle \cup {NoCandle}]
    OBVIOUS
  <2>2. \/ received'[c][k] = received[c][k]
        \/ received'[c][k] = Silent
        \/ received'[c][k] = [from |-> "snapshot", candle |-> candles[k]]
        \/ /\ received'[c][k] = [from |-> "poll", candle |-> candles'[k]]
           /\ candles'[k] \in Candle
    BY EventStep
  <2> QED
    BY <2>1, <2>2 DEF Silent
<1>4. received' \in [Client -> [Key -> {received'[c][k] : c \in Client, k \in Key}]]
  <2>1. ASSUME NEW p \in Poll, Applies(p)
        PROVE  received' = [c \in Client |-> [k \in Key |-> received'[c][k]]]
    BY <2>1 DEF Applies
  <2>2. ASSUME NEW c \in Client, NEW l \in Key, Subscribe(c, l)
        PROVE  received' = [d \in Client |-> [k \in Key |-> received'[d][k]]]
    BY <2>2 DEF Subscribe
  <2>3. CASE UNCHANGED received
    BY <2>3
  <2>4. \/ UNCHANGED received
        \/ \E p \in Poll : Applies(p)
        \/ \E c \in Client, l \in Key : Subscribe(c, l)
    BY DEF Next, Tick, IntervalFires, CloseServer, Connects, Closes, Closed,
           HeartbeatTimesOut, Unsubscribe, Samples, Fails, vars
  <2> QED
    BY <2>1, <2>2, <2>3, <2>4
<1> QED
  BY <1>1, <1>2, <1>3, <1>4

LEMMA IInvStep == IInv /\ [Next]_vars => IInv'
<1> SUFFICES ASSUME IInv, [Next]_vars PROVE IInv'
  OBVIOUS
<1>1. TypeOK'
  BY SubsStep, TimerStep, PollsStep, CandlesStep, RestStep, Zenon
  DEF TypeOK, PollType
<1> QED
  BY <1>1, SubsStep, TimerStep, PollsStep, CandlesStep, ReceivedStep
  DEF IInv, PollsIffSubscribed

-----------------------------------------------------------------------------
(* The inductive invariant holds for any number of clients and markets.    *)
THEOREM Invariance == Spec => []IInv
BY InitIInv, IInvStep, PTL DEF Spec

(* The state is well-formed, no client has more subscriptions than it may  *)
(* have, and the interval runs exactly while a client is subscribed.       *)
THEOREM PollsIffSubscribedHolds == Spec => []PollsIffSubscribed
<1>1. IInv => PollsIffSubscribed
  BY DEF IInv
<1> QED
  BY <1>1, Invariance, PTL

(* At any time at most one poll runs (marketCandlePollInFlight).           *)
THEOREM OnePollHolds == Spec => []OnePoll
<1>1. IInv => OnePoll
  BY DEF IInv
<1> QED
  BY <1>1, Invariance, PTL

(* What a client is sent for a key never goes back.                        *)
THEOREM FeedMonotoneHolds == Spec => FeedMonotone
<1>1. IInv /\ [Next]_vars => [NeverBack]_vars
  BY ReceivedStep
<1> QED
  BY <1>1, Invariance, PTL DEF Spec, FeedMonotone

-----------------------------------------------------------------------------
(* The live candles of the charts (LiveCandles), whose clients, prices and *)
(* clock have the names they have above.                                   *)
CONSTANTS Span, MaxLate
VARIABLES started, tracked, live, stored, open, awaits, shown

L == INSTANCE LiveCandles

LiveCandle == [bucket : Int, open : Price, high : Price, low : Price, close : Price,
               asOf : Int]

LiveInv ==
  /\ now \in Nat
  /\ live \in LiveCandle \cup {L!NoCandle}
  /\ L!LiveCandleSane

LEMMA LiveCandleIsOne == L!NoCandle \notin LiveCandle
<1> SUFFICES ASSUME [bucket |-> -1] \in LiveCandle PROVE FALSE
  BY DEF L!NoCandle
<1>1. DOMAIN [bucket |-> -1] = {"bucket"} /\ "asOf" \in DOMAIN [bucket |-> -1]
  BY DEF LiveCandle
<1> QED
  BY <1>1

(* The start of a bucket is a number.                                      *)
LEMMA LiveBucket ==
  ASSUME L!LiveAssumption, NEW t \in Nat
  PROVE  L!Bucket(t) \in Int
BY DEF L!Bucket, L!LiveAssumption

(* A candle that a price stretches remains one.                            *)
LEMMA StretchedSane ==
  ASSUME NEW candle \in LiveCandle, L!Sane(candle), NEW price \in Price, NEW at \in Int
  PROVE  /\ L!Stretched(candle, price, at) \in LiveCandle
         /\ L!Sane(L!Stretched(candle, price, at))
<1> DEFINE high == L!Higher(candle.high, price)  low == L!Lower(candle.low, price)
<1>1. /\ candle.high \in Price /\ candle.low \in Price /\ candle.open \in Price
      /\ candle.high \in Int /\ candle.low \in Int /\ candle.open \in Int /\ price \in Int
  <2>1. candle.high \in Price /\ candle.low \in Price /\ candle.open \in Price
    BY DEF LiveCandle
  <2>2. \A x \in Price : x \in Int
    BY PriceAssumption
  <2> QED
    BY <2>1, <2>2
<1>2. /\ high \in Price /\ low \in Price
      /\ high >= candle.high /\ high >= price /\ low <= candle.low /\ low <= price
  BY <1>1 DEF L!Higher, L!Lower
<1> DEFINE first == [candle EXCEPT !.high = high]
           second == [first EXCEPT !.low = low]
           third == [second EXCEPT !.close = price]
<1>3. L!Stretched(candle, price, at) = [third EXCEPT !.asOf = at]
  BY DEF L!Stretched
<1> HIDE DEF high, low
<1>4. /\ first \in LiveCandle /\ first.high = high /\ first.open = candle.open
  BY <1>2 DEF LiveCandle
<1>5. /\ second \in LiveCandle /\ second.high = high /\ second.open = candle.open
      /\ second.low = low
  <2> HIDE DEF first
  <2> QED
    BY <1>2, <1>4 DEF LiveCandle
<1>6. /\ third \in LiveCandle /\ third.high = high /\ third.open = candle.open
      /\ third.low = low /\ third.close = price
  <2> HIDE DEF first, second
  <2> QED
    BY <1>5 DEF LiveCandle
<1> HIDE DEF first, second, third
<1>7. [third EXCEPT !.asOf = at] \in LiveCandle
  BY <1>6 DEF LiveCandle
<1>8. L!Sane([third EXCEPT !.asOf = at])
  <2>1. /\ [third EXCEPT !.asOf = at].high = high /\ [third EXCEPT !.asOf = at].low = low
        /\ [third EXCEPT !.asOf = at].open = candle.open
        /\ [third EXCEPT !.asOf = at].close = price
    BY <1>6 DEF LiveCandle
  <2>2. low <= candle.open /\ candle.open <= high /\ low <= price /\ price <= high
    <3>1. candle.low <= candle.open /\ candle.open <= candle.high
      BY DEF L!Sane
    <3>2. high \in Int /\ low \in Int
      BY <1>2, PriceAssumption
    <3> QED
      BY <1>1, <1>2, <3>1, <3>2
  <2> QED
    BY <2>1, <2>2 DEF L!Sane
<1> QED
  BY <1>3, <1>7, <1>8

LEMMA FlatSane ==
  ASSUME NEW price \in Price, NEW bucket \in Int, NEW at \in Int
  PROVE  L!Flat(price, bucket, at) \in LiveCandle /\ L!Sane(L!Flat(price, bucket, at))
BY PriceAssumption DEF L!Flat, LiveCandle, L!Sane

(* A price moves a candle to a candle.                                     *)
LEMMA MovedSane ==
  ASSUME L!LiveAssumption, LiveInv, NEW price \in Price, NEW at \in Nat
  PROVE  L!Moved(price, at) \in LiveCandle /\ L!Sane(L!Moved(price, at))
<1>1. CASE live # L!NoCandle /\ live.bucket = L!Bucket(at)
  <2>1. L!Moved(price, at) = L!Stretched(live, price, at)
    BY <1>1 DEF L!Moved
  <2> QED
    BY <1>1, <2>1, StretchedSane DEF LiveInv, L!LiveCandleSane
<1>2. CASE ~(live # L!NoCandle /\ live.bucket = L!Bucket(at))
  <2> DEFINE open0 == IF live = L!NoCandle THEN price ELSE live.close
  <2>1. L!Moved(price, at) = L!Stretched(L!Flat(open0, L!Bucket(at), at), price, at)
    BY <1>2 DEF L!Moved
  <2>2. open0 \in Price
    BY DEF LiveInv, LiveCandle
  <2> HIDE DEF open0
  <2> QED
    BY <2>1, <2>2, LiveBucket, FlatSane, StretchedSane
<1> QED
  BY <1>1, <1>2

(* What remains of a snapshot's newest candle and the live one is a candle. *)
LEMMA SeededSane ==
  ASSUME L!LiveAssumption, LiveInv, NEW newest \in L!Snapshots
  PROVE  /\ L!Newer(L!Seed(newest)) \in LiveCandle
         /\ L!Sane(L!Newer(L!Seed(newest)))
<1>1. newest \in LiveCandle /\ L!Sane(newest)
  BY LiveBucket DEF L!Snapshots, LiveCandle, LiveInv
<1>2. L!Seed(newest) \in LiveCandle /\ L!Sane(L!Seed(newest))
  <2>1. CASE newest.bucket >= L!Bucket(now)
    <3>1. L!Seed(newest) = [newest EXCEPT !.asOf = now]
      BY <2>1 DEF L!Seed
    <3>2. [newest EXCEPT !.asOf = now] \in LiveCandle
      BY <1>1 DEF LiveCandle, LiveInv
    <3>3. L!Sane([newest EXCEPT !.asOf = now])
      BY <1>1 DEF L!Sane, LiveCandle
    <3> QED
      BY <3>1, <3>2, <3>3
  <2>2. CASE ~(newest.bucket >= L!Bucket(now))
    <3>1. L!Seed(newest) = L!Flat(newest.close, L!Bucket(now), newest.bucket + Span)
      BY <2>2 DEF L!Seed
    <3>2. newest.close \in Price /\ newest.bucket + Span \in Int /\ L!Bucket(now) \in Int
      <4>1. newest.close \in Price /\ newest.bucket \in Int
        BY <1>1 DEF LiveCandle
      <4> QED
        BY <4>1, LiveBucket DEF LiveInv, L!LiveAssumption
    <3> QED
      BY <3>1, <3>2, FlatSane
  <2> QED
    BY <2>1, <2>2
<1>3. live # L!NoCandle => live \in LiveCandle /\ L!Sane(live)
  BY DEF LiveInv, L!LiveCandleSane
<1> QED
  BY <1>2, <1>3 DEF L!Newer

(* Every step keeps the invariant and shows a client nothing but the       *)
(* candle of the stream.                                                   *)
LEMMA LiveStep ==
  ASSUME L!LiveAssumption, LiveInv, L!Next
  PROVE  LiveInv' /\ L!ShownIsCurrent
<1> USE DEF LiveInv, L!LiveCandleSane
<1>1. ASSUME NEW price \in Price, NEW late \in 0 .. MaxLate, late <= now,
             L!PriceArrives(price, now - late)
      PROVE  LiveInv' /\ L!ShownIsCurrent
  <2>1. now - late \in Nat
    BY <1>1
  <2>2. L!Moved(price, now - late) \in LiveCandle /\ L!Sane(L!Moved(price, now - late))
    BY <2>1, MovedSane
  <2>3. L!Moved(price, now - late) # L!NoCandle
    BY <2>2, LiveCandleIsOne
  <2>4. LiveInv'
    BY <1>1, <2>2, <2>3 DEF L!PriceArrives, L!Persists, L!Sane
  <2>5. L!ShownIsCurrent
    BY <1>1 DEF L!PriceArrives, L!Persists, L!Sends, L!ShownIsCurrent
  <2> QED
    BY <2>4, <2>5
<1>2. ASSUME NEW c \in Client, L!Subscribes(c) PROVE LiveInv' /\ L!ShownIsCurrent
  BY <1>2 DEF L!Subscribes, L!Sends, L!ShownIsCurrent, L!Sane
<1>3. ASSUME NEW c \in Client, L!Seeded(c) PROVE LiveInv' /\ L!ShownIsCurrent
  <2>1. PICK newest \in L!Snapshots :
          LET candle == L!Newer(L!Seed(newest))
          IN  /\ L!Sends({c}, candle)
              /\ IF candle = live THEN UNCHANGED <<live, stored>> ELSE L!Persists(candle)
    BY <1>3 DEF L!Seeded
  <2> DEFINE candle == L!Newer(L!Seed(newest))
  <2>2. candle \in LiveCandle /\ L!Sane(candle) /\ candle # L!NoCandle
    BY SeededSane, LiveCandleIsOne
  <2>3. /\ live' = candle /\ stored' = candle
        /\ L!Sends({c}, candle)
    <3> HIDE DEF candle
    <3>1. L!Sends({c}, candle)
          /\ IF candle = live THEN UNCHANGED <<live, stored>> ELSE L!Persists(candle)
      BY <2>1 DEF candle
    <3> QED
      BY <2>2, <3>1 DEF L!Persists
  <2>4. now' = now
    BY <1>3 DEF L!Seeded
  <2> HIDE DEF candle
  <2>5. LiveInv'
    BY <2>2, <2>3, <2>4 DEF L!Sane
  <2>6. L!ShownIsCurrent
    BY <2>3 DEF L!Sends, L!ShownIsCurrent
  <2> QED
    BY <2>5, <2>6
<1>4. ASSUME NEW c \in Client, L!NotSeeded(c) \/ L!Unsubscribes(c) \/ L!Leaves(c)
      PROVE  LiveInv' /\ L!ShownIsCurrent
  BY <1>4 DEF L!NotSeeded, L!Unsubscribes, L!Leaves, L!ShownIsCurrent, L!Sane
<1>5. ASSUME L!ChartAnswers PROVE LiveInv' /\ L!ShownIsCurrent
  <2>1. /\ now' = now /\ shown' = shown
        /\ \/ UNCHANGED <<live, stored>>
           \/ \E newest \in L!Snapshots : L!Persists(L!Newer(L!Seed(newest)))
    BY <1>5 DEF L!ChartAnswers
  <2>2. ASSUME NEW newest \in L!Snapshots, L!Persists(L!Newer(L!Seed(newest)))
        PROVE  LiveInv'
    <3> DEFINE candle == L!Newer(L!Seed(newest))
    <3>1. candle \in LiveCandle /\ L!Sane(candle)
      BY SeededSane
    <3>2. live' = candle /\ stored' = candle
      BY <2>2 DEF L!Persists
    <3> HIDE DEF candle
    <3> QED
      BY <2>1, <3>1, <3>2 DEF L!Sane
  <2> QED
    BY <2>1, <2>2 DEF L!ShownIsCurrent, L!Sane
<1>6. ASSUME L!Stops \/ L!Tick PROVE LiveInv' /\ L!ShownIsCurrent
  BY <1>6 DEF L!Stops, L!Tick, L!ShownIsCurrent, L!Sane
<1> QED
  BY <1>1, <1>2, <1>3, <1>4, <1>5, <1>6 DEF L!Next

(* A live candle is a candle, and the one in the store, whatever mixture   *)
(* of late prices, snapshots and flat candles made it                      *)
(* (updateTrackedCandlesFromPrice, upsertSeedIfNewer); and a client is     *)
(* never shown another one than the stream is at                           *)
(* (handleCandleSubscription).                                             *)
THEOREM LiveCandlesHold ==
  ASSUME L!LiveAssumption
  PROVE  L!Spec => []L!LiveCandleSane /\ [][L!ShownIsCurrent]_(L!vars)
<1>1. L!Init => LiveInv
  BY DEF L!Init, LiveInv, L!LiveCandleSane
<1>2. LiveInv /\ [L!Next]_(L!vars) => LiveInv'
  <2>1. CASE UNCHANGED L!vars
    BY <2>1 DEF L!vars, LiveInv, L!LiveCandleSane, L!Sane
  <2> QED
    BY <2>1, LiveStep
<1>3. LiveInv /\ [L!Next]_(L!vars) => [L!ShownIsCurrent]_(L!vars)
  BY LiveStep
<1>4. LiveInv => L!LiveCandleSane
  BY DEF LiveInv
<1> QED
  BY <1>1, <1>2, <1>3, <1>4, PTL DEF L!Spec

-----------------------------------------------------------------------------
(* The candle snapshots of the charts (CandleSnapshots).                   *)
CONSTANTS Caller, Job, Limit, MinFetch, FreshTtl, UsableTtl, CooldownBase,
          CooldownMax, UnsupportedTtl
VARIABLES memory, redis, writing, failure, unsupported, flight, jobs, calls, answers

C == INSTANCE CandleSnapshots

Entries == [at : Int, points : Int]
Calls ==
  [stage : {"idle", "reading", "waiting"}, limit : Limit \cup {0}, began : Nat,
   cached : Entries, job : Job \cup {C!NoJob}]
Answers ==
  [status : {"none", "loaded", "stale", "empty", "failed", "unavailable"}, age : Int]

(* No request is of the future; what is live or stale is so in time.       *)
SnapshotInv ==
  /\ now \in Nat
  /\ memory \in Entries /\ redis \in Entries /\ writing \in Entries
  /\ flight \in Job \cup {C!NoJob}
  /\ calls \in [Caller -> Calls]
  /\ \A c \in Caller : calls[c].began <= now
  /\ answers \in [Caller -> Answers]
  /\ C!CandlesInTime

(* An answer in time.                                                      *)
InTime(a) ==
  /\ a \in Answers
  /\ C!Freshness(a) = "live"  => a.age < FreshTtl
  /\ C!Freshness(a) = "stale" => a.age < UsableTtl

LEMMA UnaskedInTime == InTime(C!Unasked)
BY DEF InTime, Answers, C!Unasked, C!Freshness

(* Without candles there is no age to be wrong.                            *)
LEMMA WithoutInTime ==
  ASSUME NEW status \in {"empty", "failed", "unavailable"}
  PROVE  InTime(C!WithoutCandles(status))
BY DEF InTime, Answers, C!WithoutCandles, C!Freshness

LEMMA WithInTime ==
  ASSUME C!CandleAssumption, NEW call \in Calls, NEW e \in Entries
  PROVE  /\ C!FreshAt(e, call.began) => InTime(C!WithCandles(call, e, "loaded"))
         /\ C!UsableAt(e, call.began) => InTime(C!WithCandles(call, e, "stale"))
<1>1. /\ call.began \in Int /\ e.at \in Int
      /\ FreshTtl \in Int /\ UsableTtl \in Int
  BY DEF Calls, Entries, C!CandleAssumption
<1>2. \A status \in {"loaded", "stale"} :
        /\ C!WithCandles(call, e, status) \in Answers
        /\ C!WithCandles(call, e, status).age = call.began - e.at
        /\ C!WithCandles(call, e, status).status = status
  BY <1>1 DEF C!WithCandles, Answers
<1> QED
  BY <1>1, <1>2 DEF InTime, C!Freshness, C!FreshAt, C!UsableAt

(* A step whose answers are in time, and whose calls are of now or before. *)
LEMMA AnswersStay ==
  ASSUME SnapshotInv, now' \in Nat, now <= now',
         memory' \in Entries, redis' \in Entries, writing' \in Entries,
         flight' \in Job \cup {C!NoJob},
         calls' \in [Caller -> Calls], answers' \in [Caller -> Answers],
         \A c \in Caller : calls'[c].began <= now',
         \A c \in Caller : answers'[c] = answers[c] \/ InTime(answers'[c])
  PROVE  SnapshotInv'
<1>1. C!CandlesInTime'
  <2> SUFFICES ASSUME NEW c \in Caller
               PROVE  /\ C!Freshness(answers'[c]) = "live"  => answers'[c].age < FreshTtl
                      /\ C!Freshness(answers'[c]) = "stale" => answers'[c].age < UsableTtl
    BY DEF C!CandlesInTime, C!Freshness
  <2>1. CASE answers'[c] = answers[c]
    BY <2>1 DEF SnapshotInv, C!CandlesInTime
  <2>2. CASE InTime(answers'[c])
    BY <2>2 DEF InTime
  <2> QED
    BY <2>1, <2>2
<1> QED
  BY <1>1 DEF SnapshotInv

(* What a request does once it knows what is cached.                       *)
LEMMA ServesStep ==
  ASSUME C!CandleAssumption, SnapshotInv, NEW c \in Caller, NEW call \in Calls,
         call.began <= now, C!Serves(c, call),
         now' = now, memory' \in Entries, redis' = redis, writing' = writing
  PROVE  SnapshotInv'
<1> USE DEF C!Answer, C!Ends
<1>0. now \in Nat /\ C!Idle \in Calls /\ C!Idle.began = 0
  BY DEF SnapshotInv, C!Idle, C!NoEntry, C!NoJob, Calls, Entries
<1>1. ASSUME NEW a, InTime(a), answers' = [answers EXCEPT ![c] = a],
             calls' = [calls EXCEPT ![c] = C!Idle], flight' \in Job \cup {C!NoJob}
      PROVE  SnapshotInv'
  <2>1. /\ answers' \in [Caller -> Answers]
        /\ \A d \in Caller : answers'[d] = answers[d] \/ InTime(answers'[d])
    BY <1>1 DEF SnapshotInv, InTime
  <2>2. /\ calls' \in [Caller -> Calls]
        /\ \A d \in Caller : calls'[d].began <= now'
    BY <1>0, <1>1 DEF SnapshotInv
  <2> QED
    BY <1>1, <2>1, <2>2, AnswersStay DEF SnapshotInv
<1>2. call.cached \in Entries
  BY DEF Calls
<1>3. CASE C!Hits(call, call.cached)
  <2>1. /\ answers' = [answers EXCEPT ![c] = C!WithCandles(call, call.cached, "loaded")]
        /\ calls' = [calls EXCEPT ![c] = C!Idle] /\ flight' = flight
    BY <1>3 DEF C!Serves
  <2>2. InTime(C!WithCandles(call, call.cached, "loaded"))
    BY <1>2, <1>3, WithInTime DEF C!Hits
  <2> QED
    BY <1>1, <2>1, <2>2 DEF SnapshotInv
<1>4. CASE ~C!Hits(call, call.cached)
  <2>1. \/ C!AnswersUnsupported(c, call) \/ C!AnswersStale(c, call)
        \/ C!AnswersCooling(c, call) \/ C!AwaitsRefresh(c, call)
    BY <1>4 DEF C!Serves, C!Decides
  <2>2. CASE C!AnswersUnsupported(c, call)
    <3> DEFINE a == IF C!UsableAt(call.cached, call.began)
                    THEN C!WithCandles(call, call.cached, "stale")
                    ELSE C!WithoutCandles("unavailable")
    <3>1. InTime(a)
      BY <1>2, WithInTime, WithoutInTime
    <3>2. /\ answers' = [answers EXCEPT ![c] = a]
          /\ calls' = [calls EXCEPT ![c] = C!Idle] /\ flight' = flight
      BY <2>2 DEF C!AnswersUnsupported
    <3> HIDE DEF a
    <3> QED
      BY <1>1, <3>1, <3>2 DEF SnapshotInv
  <2>3. CASE C!AnswersStale(c, call)
    <3>1. InTime(C!WithCandles(call, call.cached, "stale"))
      BY <1>2, <2>3, WithInTime DEF C!AnswersStale
    <3>2. /\ answers' = [answers EXCEPT ![c] = C!WithCandles(call, call.cached, "stale")]
          /\ calls' = [calls EXCEPT ![c] = C!Idle]
          /\ flight' = flight \/ \E j \in Job : flight' = j
      BY <2>3 DEF C!AnswersStale, C!Enqueues
    <3> QED
      BY <1>1, <3>1, <3>2 DEF SnapshotInv
  <2>4. CASE C!AnswersCooling(c, call)
    <3>1. InTime(C!WithoutCandles("unavailable"))
      BY WithoutInTime
    <3>2. /\ answers' = [answers EXCEPT ![c] = C!WithoutCandles("unavailable")]
          /\ calls' = [calls EXCEPT ![c] = C!Idle] /\ flight' = flight
      BY <2>4 DEF C!AnswersCooling
    <3> QED
      BY <1>1, <3>1, <3>2 DEF SnapshotInv
  <2>5. CASE C!AwaitsRefresh(c, call)
    <3>1. PICK j \in Job \cup {C!NoJob} :
            /\ calls' = [calls EXCEPT ![c] = [call EXCEPT !.stage = "waiting", !.job = j]]
            /\ flight' \in Job \cup {C!NoJob}
      <4>1. CASE C!JoinsFlight(call.limit)
        BY <2>5, <4>1 DEF C!AwaitsRefresh, SnapshotInv
      <4>2. CASE ~C!JoinsFlight(call.limit)
        BY <2>5, <4>2 DEF C!AwaitsRefresh, C!Enqueues
      <4> QED
        BY <4>1, <4>2
    <3>2. [call EXCEPT !.stage = "waiting", !.job = j] \in Calls
      <4>1. [call EXCEPT !.stage = "waiting"] \in Calls
        BY DEF Calls
      <4>2. [[call EXCEPT !.stage = "waiting"] EXCEPT !.job = j] \in Calls
        BY <4>1 DEF Calls
      <4> QED
        BY <4>2
    <3>3. [call EXCEPT !.stage = "waiting", !.job = j].began = call.began
      BY DEF Calls
    <3>4. answers' = [answers EXCEPT ![c] = C!Unasked]
      BY <2>5 DEF C!AwaitsRefresh
    <3>5. /\ answers' \in [Caller -> Answers]
          /\ \A d \in Caller : answers'[d] = answers[d] \/ InTime(answers'[d])
      BY <3>4, UnaskedInTime DEF SnapshotInv, InTime
    <3> DEFINE next == [call EXCEPT !.stage = "waiting", !.job = j]
    <3> HIDE DEF next
    <3>6. /\ calls' \in [Caller -> Calls]
          /\ \A d \in Caller : calls'[d].began <= now'
      <4>1. next \in Calls /\ next.began <= now /\ calls' = [calls EXCEPT ![c] = next]
        BY <3>1, <3>2, <3>3 DEF next
      <4> QED
        BY <4>1 DEF SnapshotInv
    <3> QED
      BY <3>1, <3>5, <3>6, AnswersStay DEF SnapshotInv
  <2> QED
    BY <2>1, <2>2, <2>3, <2>4, <2>5
<1> QED
  BY <1>3, <1>4

(* A request that reads the cache, or Redis first.                         *)
LEMMA AsksStep ==
  ASSUME C!CandleAssumption, SnapshotInv, NEW c \in Caller, C!Asks(c)
  PROVE  SnapshotInv'
<1>1. PICK limit \in Limit :
        LET call == [C!Idle EXCEPT !.limit = limit, !.began = now, !.cached = memory]
        IN  IF memory = C!NoEntry
            THEN /\ calls' = [calls EXCEPT ![c] = [call EXCEPT !.stage = "reading"]]
                 /\ C!Answer(c, C!Unasked)
                 /\ UNCHANGED <<failure, unsupported, flight, jobs>>
            ELSE C!Serves(c, call)
  BY DEF C!Asks
<1> DEFINE call == [C!Idle EXCEPT !.limit = limit, !.began = now, !.cached = memory]
       first == [C!Idle EXCEPT !.limit = limit]
       second == [first EXCEPT !.began = now]
<1>2. call = [second EXCEPT !.cached = memory]
  OBVIOUS
<1>3. call \in Calls /\ call.began = now
  <2>1. C!Idle \in Calls
    BY DEF C!Idle, C!NoEntry, C!NoJob, Calls, Entries
  <2>2. first \in Calls
    BY <2>1 DEF Calls
  <2> HIDE DEF first
  <2>3. second \in Calls /\ second.began = now
    BY <2>2 DEF Calls, SnapshotInv
  <2> HIDE DEF second, call
  <2> QED
    BY <1>2, <2>3 DEF Calls, SnapshotInv
<1>4. UNCHANGED <<now, memory, redis, writing>> /\ now \in Nat
  BY DEF C!Asks, SnapshotInv
<1>5. CASE memory = C!NoEntry
  <2>1. [call EXCEPT !.stage = "reading"] \in Calls
        /\ [call EXCEPT !.stage = "reading"].began = now
    <3> HIDE DEF call
    <3> QED
      BY <1>3 DEF Calls
  <2> DEFINE next == [call EXCEPT !.stage = "reading"]
  <2>2. /\ calls' = [calls EXCEPT ![c] = next]
        /\ answers' = [answers EXCEPT ![c] = C!Unasked] /\ flight' = flight
    BY <1>1, <1>5 DEF C!Answer
  <2> HIDE DEF next
  <2>3. next \in Calls /\ next.began = now
    BY <2>1 DEF next
  <2>4. /\ answers' \in [Caller -> Answers]
        /\ \A d \in Caller : answers'[d] = answers[d] \/ InTime(answers'[d])
    BY <2>2, UnaskedInTime DEF SnapshotInv, InTime
  <2>5. /\ calls' \in [Caller -> Calls]
        /\ \A d \in Caller : calls'[d].began <= now'
    BY <1>4, <2>2, <2>3 DEF SnapshotInv
  <2> QED
    BY <1>4, <2>2, <2>4, <2>5, AnswersStay DEF SnapshotInv
<1>6. CASE memory # C!NoEntry
  <2>1. C!Serves(c, call)
    BY <1>1, <1>6
  <2> HIDE DEF call
  <2> QED
    BY <1>3, <1>4, <2>1, ServesStep DEF SnapshotInv
<1> QED
  BY <1>5, <1>6

LEMMA ReadsStep ==
  ASSUME C!CandleAssumption, SnapshotInv, NEW c \in Caller, C!Reads(c)
  PROVE  SnapshotInv'
<1>1. PICK found \in {C!NoEntry} \cup {e \in {redis} : C!UsableAt(e, now)} :
        LET call == [calls[c] EXCEPT !.cached = found]
        IN  /\ memory' = IF found = C!NoEntry THEN memory ELSE found
            /\ C!Serves(c, call)
  BY DEF C!Reads
<1> DEFINE call == [calls[c] EXCEPT !.cached = found]
<1>2. found \in Entries /\ memory' \in Entries
  BY <1>1 DEF SnapshotInv, C!NoEntry, Entries
<1>3. call \in Calls /\ call.began = calls[c].began
  BY <1>2 DEF SnapshotInv, Calls
<1>4. C!Serves(c, call)
  BY <1>1
<1>5. UNCHANGED <<now, redis, writing>> /\ calls[c].began <= now
  BY DEF C!Reads, SnapshotInv
<1> HIDE DEF call
<1> QED
  BY <1>2, <1>3, <1>4, <1>5, ServesStep

(* A refresh ends: who waits for it gets candles of now, or none.          *)
LEMMA JobEndsStep ==
  ASSUME C!CandleAssumption, SnapshotInv, NEW j \in Job, NEW reply,
         C!JobEnds(j, reply), \A c \in Caller : InTime(reply[c]),
         now' = now, memory' \in Entries, redis' \in Entries, writing' \in Entries
  PROVE  SnapshotInv'
<1>1. C!Idle \in Calls /\ C!Idle.began = 0
  BY DEF C!Idle, C!NoEntry, C!NoJob, Calls, Entries
<1>2. /\ calls' \in [Caller -> Calls]
      /\ \A c \in Caller : calls'[c].began <= now'
  BY <1>1 DEF C!JobEnds, SnapshotInv
<1>3. /\ answers' \in [Caller -> Answers]
      /\ \A c \in Caller : answers'[c] = answers[c] \/ InTime(answers'[c])
  BY DEF C!JobEnds, SnapshotInv, InTime
<1>4. flight' \in Job \cup {C!NoJob} /\ now' \in Nat /\ now <= now'
  BY DEF C!JobEnds, SnapshotInv
<1> QED
  BY <1>2, <1>3, <1>4, AnswersStay

LEMMA JobStep ==
  ASSUME C!CandleAssumption, SnapshotInv, NEW j \in Job,
         C!JobStarts(j) \/ C!Loads(j) \/ C!Fails(j) \/ C!FailsUnsupported(j)
  PROVE  SnapshotInv'
<1>1. CASE C!JobStarts(j)
  BY <1>1 DEF C!JobStarts, SnapshotInv, C!CandlesInTime, C!Freshness
<1>2. CASE C!Loads(j)
  <2>1. PICK points \in 1 .. jobs[j].limit :
          LET entry == [at |-> now, points |-> C!Larger(points, memory.points)]
          IN  /\ memory' = entry /\ writing' = entry
              /\ redis' \in C!Landed
              /\ C!JobEnds(j, [c \in Caller |-> C!WithCandles(calls[c], entry, "loaded")])
              /\ UNCHANGED now
    BY <1>2 DEF C!Loads
  <2> DEFINE entry == [at |-> now, points |-> C!Larger(points, memory.points)]
             reply == [c \in Caller |-> C!WithCandles(calls[c], entry, "loaded")]
  <2>2. points \in Int /\ memory.points \in Int /\ now \in Int
    BY <2>1 DEF SnapshotInv, Entries
  <2>3. entry \in Entries /\ entry.at = now
    BY <2>2 DEF Entries, C!Larger
  <2>4. /\ memory' = entry /\ writing' = entry /\ redis' \in C!Landed
        /\ C!JobEnds(j, reply) /\ now' = now
    BY <2>1
  <2> HIDE DEF entry
  <2>5. \A c \in Caller : InTime(reply[c])
    <3> SUFFICES ASSUME NEW c \in Caller
                 PROVE  InTime(C!WithCandles(calls[c], entry, "loaded"))
      OBVIOUS
    <3>1. calls[c] \in Calls /\ calls[c].began <= now /\ calls[c].began \in Nat
      BY DEF SnapshotInv, Calls
    <3>2. /\ C!WithCandles(calls[c], entry, "loaded") \in Answers
          /\ C!WithCandles(calls[c], entry, "loaded").age = calls[c].began - now
          /\ C!WithCandles(calls[c], entry, "loaded").status = "loaded"
      BY <2>2, <2>3, <3>1 DEF C!WithCandles, Answers
    <3>3. calls[c].began - now < FreshTtl
      BY <2>2, <3>1 DEF C!CandleAssumption
    <3> QED
      BY <3>2, <3>3 DEF InTime, C!Freshness
  <2>6. redis' \in Entries
    BY <2>4 DEF C!Landed, SnapshotInv
  <2> HIDE DEF reply
  <2> QED
    BY <2>3, <2>4, <2>5, <2>6, JobEndsStep
<1>3. CASE C!Fails(j)
  <2>1. PICK status \in {"empty"} \cup {C!FailureStatus(e) : e \in C!Errors} :
          /\ C!JobEnds(j, [c \in Caller |-> C!WithoutCandles(status)])
          /\ UNCHANGED <<now, memory, redis, writing>>
    BY <1>3 DEF C!Fails
  <2>2. status \in {"empty", "failed", "unavailable"}
    BY <2>1 DEF C!FailureStatus
  <2> DEFINE reply == [c \in Caller |-> C!WithoutCandles(status)]
  <2>3. \A c \in Caller : InTime(reply[c])
    BY <2>2, WithoutInTime
  <2>4. C!JobEnds(j, reply)
    BY <2>1
  <2> HIDE DEF reply
  <2> QED
    BY <2>1, <2>3, <2>4, JobEndsStep DEF SnapshotInv
<1>4. CASE C!FailsUnsupported(j)
  <2> DEFINE reply == [c \in Caller |-> C!WithoutCandles("unavailable")]
  <2>1. C!JobEnds(j, reply) /\ UNCHANGED <<now, memory, redis, writing>>
    BY <1>4 DEF C!FailsUnsupported
  <2>2. \A c \in Caller : InTime(reply[c])
    BY WithoutInTime
  <2> HIDE DEF reply
  <2> QED
    BY <2>1, <2>2, JobEndsStep DEF SnapshotInv
<1> QED
  BY <1>1, <1>2, <1>3, <1>4

LEMMA SnapshotStep ==
  ASSUME C!CandleAssumption, SnapshotInv, [C!Next]_(C!vars)
  PROVE  SnapshotInv'
<1>1. CASE UNCHANGED C!vars
  BY <1>1 DEF C!vars, SnapshotInv, C!CandlesInTime, C!Freshness
<1>2. CASE C!Writes
  BY <1>2 DEF C!Writes, C!Landed, SnapshotInv, C!CandlesInTime, C!Freshness,
              C!NoEntry, Entries
<1>3. CASE C!Tick
  BY <1>3 DEF C!Tick, SnapshotInv, C!CandlesInTime, C!Freshness, Calls
<1> QED
  BY <1>1, <1>2, <1>3, AsksStep, ReadsStep, JobStep DEF C!Next

(* Candles answered as live were fresh when they were asked for, and stale *)
(* ones usable, whether memory, Redis or somebody else's refresh supplied  *)
(* them (resolveCandleSnapshot, startCandleRefresh).                       *)
THEOREM CandlesInTimeHold ==
  ASSUME C!CandleAssumption
  PROVE  C!Spec => []C!CandlesInTime
<1>1. C!Init => SnapshotInv
  <2> SUFFICES ASSUME C!Init PROVE SnapshotInv
    OBVIOUS
  <2>1. C!Idle \in Calls /\ C!Unasked \in Answers /\ C!NoEntry \in Entries
    BY DEF C!Idle, C!NoEntry, C!NoJob, Calls, Entries, C!Unasked, Answers
  <2>2. redis \in Entries
    <3>1. CASE redis = C!NoEntry
      BY <2>1, <3>1
    <3>2. CASE redis \in [at : {0}, points : Limit]
      <4>1. redis = [at |-> 0, points |-> redis.points] /\ redis.points \in Limit
        BY <3>2
      <4>2. redis.points \in Int
        BY <4>1 DEF C!CandleAssumption
      <4> QED
        BY <4>1, <4>2 DEF Entries
    <3> QED
      BY <3>1, <3>2 DEF C!Init
  <2> QED
    BY <2>1, <2>2 DEF C!Init, SnapshotInv, C!CandlesInTime, C!Freshness, C!Idle, C!Unasked
<1>2. SnapshotInv /\ [C!Next]_(C!vars) => SnapshotInv'
  BY SnapshotStep
<1>3. SnapshotInv => C!CandlesInTime
  BY DEF SnapshotInv
<1> QED
  BY <1>1, <1>2, <1>3, PTL DEF C!Spec

-----------------------------------------------------------------------------
(* The graphs of the market list (MarketSparklines).                       *)
CONSTANTS Symbol, Listed, FastPath, StaleTtl
VARIABLES items, cache, refreshing

M == INSTANCE MarketSparklines

Rows == [graph : BOOLEAN, at : Int]

(* A row that is shown was cached no longer ago than its source allows.    *)
InItsTime(x, began) ==
  /\ x.row \in Rows
  /\ CASE x.source = "fresh_cache" -> began - x.row.at < FreshTtl
       [] x.source = "stale_cache" -> /\ began - x.row.at < UsableTtl
                                      /\ began - x.row.at < StaleTtl \/ x.row.graph
       [] OTHER -> began - x.row.at <= 0

(* What a call that waits for tickers owes its caller is shown already, or *)
(* kept to fall back on.                                                   *)
Owes(k, at) ==
  /\ k.began \in Int /\ k.began <= at
  /\ DOMAIN k.shown \cap k.hydrate = {}
  /\ k.owed \subseteq {s \in DOMAIN k.shown : k.shown[s].row.graph} \cup DOMAIN k.fallback
  /\ DOMAIN k.fallback \subseteq k.hydrate
  /\ \A s \in DOMAIN k.fallback : /\ k.fallback[s] \in Rows /\ k.fallback[s].graph
                                  /\ k.began - k.fallback[s].at < UsableTtl
  /\ \A s \in DOMAIN k.shown : InItsTime(k.shown[s], k.began)

Paid(a) ==
  /\ a.call.owed \subseteq a.usable
  /\ \A s \in DOMAIN a.shown : InItsTime(a.shown[s], a.call.began)

SparklineInv ==
  /\ now \in Int /\ cache \in [Listed -> Rows]
  /\ calls = [c \in Caller |-> calls[c]] /\ answers = [c \in Caller |-> answers[c]]
  /\ \A c \in Caller : calls[c] # M!Idle => Owes(calls[c], now)
  /\ \A c \in Caller : answers[c] # M!Idle => Paid(answers[c])

LEMMA AnsweredIsPaid ==
  ASSUME NEW k, NEW shownRows, NEW unavailable,
         \A s \in DOMAIN shownRows : InItsTime(shownRows[s], k.began),
         k.owed \subseteq {s \in DOMAIN shownRows : shownRows[s].row.graph}
  PROVE  Paid(M!Answered(k, shownRows, unavailable))
<1> DEFINE a == M!Answered(k, shownRows, unavailable)
<1>1. /\ a.call = k /\ a.shown = shownRows
      /\ a.usable = {s \in DOMAIN shownRows : shownRows[s].row.graph}
  BY DEF M!Answered
<1> HIDE DEF a
<1> QED
  BY <1>1 DEF Paid, a

(* What a step must show when a call is answered.                          *)
LEMMA Pays ==
  ASSUME SparklineInv, NEW c \in Caller, NEW a, Paid(a), M!Answers(c, a),
         now' = now, cache' \in [Listed -> Rows]
  PROVE  SparklineInv'
<1>1. answers' = [answers EXCEPT ![c] = a] /\ calls' = [calls EXCEPT ![c] = M!Idle]
  BY DEF M!Answers
<1> QED
  BY <1>1 DEF SparklineInv

LEMMA GraphAskedStep ==
  ASSUME M!SparklineAssumption, SparklineInv, NEW c \in Caller,
         NEW symbols \in SUBSET Symbol, NEW allowStale \in BOOLEAN,
         M!Asks(c, symbols, allowStale)
  PROVE  SparklineInv'
<1> DEFINE fast   == M!Cardinality(symbols) <= FastPath
           known  == symbols \cap Listed
           source == [s \in known |-> M!Source(s, allowStale, fast)]
           fetch  == {s \in known : source[s] = "provider_fetch"}
           copied == {s \in known : source[s] = "snapshot"}
           rowOf  == [s \in known |-> IF source[s] = "snapshot" THEN M!Row(TRUE)
                                      ELSE cache[s]]
           shownNow == [s \in known \ fetch |->
                          M!Shown(source[s], rowOf[s])]
           owed == {t \in known : allowStale /\ cache[t].graph
                                    /\ M!YoungerThan(cache[t], UsableTtl)}
           kept == [s \in {t \in fetch : allowStale /\ cache[t].graph
                             /\ M!YoungerThan(cache[t], UsableTtl)} |-> cache[s]]
           call == [stage |-> "hydrating", symbols |-> symbols, shown |-> shownNow,
                    hydrate |-> fetch, fallback |-> kept,
                    owed |-> owed, began |-> now]
<1>2. /\ now' = now
      /\ cache' = [s \in Listed |-> IF s \in copied THEN M!Row(TRUE)
                                                              ELSE cache[s]]
      /\ \/ fetch = {} /\ M!Answers(c, M!Answered(call, shownNow, {}))
         \/ /\ calls' = [calls EXCEPT ![c] = call]
            /\ answers' = [answers EXCEPT ![c] = M!Idle]
  BY DEF M!Asks
<1>3. ASSUME NEW s \in known
      PROVE  /\ cache[s] \in Rows /\ M!Row(TRUE) \in Rows
             /\ M!YoungerThan(cache[s], UsableTtl) => now - cache[s].at < UsableTtl
             /\ source[s] = "fresh_cache" => now - cache[s].at < FreshTtl
             /\ source[s] = "stale_cache" =>
                  /\ now - cache[s].at < UsableTtl
                  /\ now - cache[s].at < StaleTtl \/ cache[s].graph
  <2>1. cache[s] \in Rows /\ now \in Int
    BY DEF SparklineInv
  <2>2. M!Row(TRUE) \in Rows
    BY <2>1 DEF M!Row, Rows
  <2>3. source[s] = M!Source(s, allowStale, fast)
    OBVIOUS
  <2>4. cache[s].at \in Int /\ FreshTtl \in Nat /\ StaleTtl \in Nat /\ UsableTtl \in Nat
        /\ StaleTtl <= UsableTtl
    BY <2>1 DEF Rows, M!SparklineAssumption
  <2> HIDE DEF fast, source
  <2>5. /\ source[s] = "fresh_cache" => M!YoungerThan(cache[s], FreshTtl)
        /\ source[s] = "stale_cache" =>
             \/ M!YoungerThan(cache[s], StaleTtl)
             \/ cache[s].graph /\ M!YoungerThan(cache[s], UsableTtl)
    BY <2>3 DEF M!Source
  <2>6. /\ M!YoungerThan(cache[s], FreshTtl) => now - cache[s].at < FreshTtl
        /\ M!YoungerThan(cache[s], StaleTtl) => now - cache[s].at < StaleTtl
        /\ M!YoungerThan(cache[s], UsableTtl) => now - cache[s].at < UsableTtl
    BY <2>1, <2>4 DEF M!YoungerThan
  <2>7. M!YoungerThan(cache[s], StaleTtl) => now - cache[s].at < UsableTtl
    BY <2>1, <2>4, <2>6
  <2> QED
    BY <2>1, <2>2, <2>5, <2>6, <2>7
<1>4. cache' \in [Listed -> Rows]
  <2> SUFFICES ASSUME NEW s \in Listed
               PROVE  (IF s \in copied THEN M!Row(TRUE) ELSE cache[s]) \in Rows
    BY <1>2
  <2>1. cache[s] \in Rows
    BY DEF SparklineInv
  <2>2. s \in copied => M!Row(TRUE) \in Rows
    BY <1>3
  <2> QED
    BY <2>1, <2>2
<1>5. ASSUME NEW s \in DOMAIN shownNow
      PROVE  InItsTime(shownNow[s], now)
  <2>1. s \in known /\ shownNow[s] = [source |-> source[s], row |-> rowOf[s]]
    BY DEF M!Shown
  <2>2. source[s] # "snapshot" => rowOf[s] = cache[s]
    OBVIOUS
  <2>3. source[s] = "snapshot" => rowOf[s] = M!Row(TRUE) /\ now - rowOf[s].at <= 0
    BY DEF M!Row, SparklineInv
  <2>4. source[s] \in {"fresh_cache", "stale_cache", "snapshot"}
    <3>1. s \notin fetch
      OBVIOUS
    <3>2. source[s] = M!Source(s, allowStale, fast) /\ source[s] # "provider_fetch"
      BY <2>1, <3>1
    <3> HIDE DEF source, fast
    <3> QED
      BY <3>2 DEF M!Source
  <2>5. rowOf[s] \in Rows
    BY <1>3, <2>1, <2>2, <2>3
  <2>6. /\ source[s] = "fresh_cache" => now - rowOf[s].at < FreshTtl
        /\ source[s] = "stale_cache" =>
             /\ now - rowOf[s].at < UsableTtl
             /\ now - rowOf[s].at < StaleTtl \/ rowOf[s].graph
    BY <1>3, <2>1, <2>2
  <2> HIDE DEF shownNow, source, rowOf
  <2> QED
    <3>1. shownNow[s].source = source[s] /\ shownNow[s].row = rowOf[s]
      BY <2>1
    <3> QED
      BY <2>3, <2>4, <2>5, <2>6, <3>1 DEF InItsTime
<1>6. owed \subseteq {s \in DOMAIN shownNow : shownNow[s].row.graph} \cup DOMAIN kept
  <2> SUFFICES ASSUME NEW s \in owed, s \notin fetch
               PROVE  s \in DOMAIN shownNow /\ shownNow[s].row.graph
    OBVIOUS
  <2>1. s \in DOMAIN shownNow /\ shownNow[s].row = rowOf[s]
    BY DEF M!Shown
  <2>2. rowOf[s] = M!Row(TRUE) \/ rowOf[s] = cache[s]
    OBVIOUS
  <2>3. M!Row(TRUE).graph /\ cache[s].graph
    BY DEF M!Row
  <2> HIDE DEF shownNow, rowOf
  <2> QED
    BY <2>1, <2>2, <2>3
<1>7. Owes(call, now)
  <2>1. /\ call.began = now /\ call.shown = shownNow /\ call.hydrate = fetch
        /\ call.fallback = kept /\ call.owed = owed
    OBVIOUS
  <2>2. DOMAIN shownNow \cap fetch = {}
        /\ DOMAIN kept \subseteq fetch
    OBVIOUS
  <2>3. \A s \in DOMAIN kept : /\ kept[s] \in Rows /\ kept[s].graph
                               /\ now - kept[s].at < UsableTtl
    BY <1>3
  <2> HIDE DEF call, shownNow, kept, owed, fetch
  <2> QED
    BY <1>5, <1>6, <2>1, <2>2, <2>3 DEF Owes, SparklineInv
<1>8. CASE fetch = {} /\ M!Answers(c, M!Answered(call, shownNow, {}))
  <2>1. DOMAIN kept = {}
    BY <1>8
  <2>2. call.began = now /\ call.owed = owed
    OBVIOUS
  <2> HIDE DEF call, shownNow, kept, owed, fetch
  <2>3. Paid(M!Answered(call, shownNow, {}))
    BY <1>5, <1>6, <2>1, <2>2, AnsweredIsPaid
  <2> QED
    BY <1>2, <1>4, <1>8, <2>3, Pays
<1>9. CASE calls' = [calls EXCEPT ![c] = call] /\ answers' = [answers EXCEPT ![c] = M!Idle]
  <2> HIDE DEF call
  <2> QED
    BY <1>2, <1>4, <1>7, <1>9 DEF SparklineInv
<1> QED
  BY <1>2, <1>8, <1>9

LEMMA HydratesStep ==
  ASSUME M!SparklineAssumption, SparklineInv, NEW c \in Caller, M!Hydrates(c)
  PROVE  SparklineInv'
<1> DEFINE call == calls[c]
<1>1. PICK found \in [call.hydrate -> {"graph", "few", "none"}] :
        LET fresh == [s \in call.hydrate |-> M!Hydrated(call, s, found[s])]
            shownNow == [s \in DOMAIN call.shown \cup call.hydrate |->
                           IF s \in call.hydrate THEN fresh[s] ELSE call.shown[s]]
            fetched == {s \in call.hydrate : fresh[s].source = "provider_fetch"}
        IN  /\ cache' = [s \in Listed |-> IF s \in fetched THEN fresh[s].row
                                                           ELSE cache[s]]
            /\ M!Answers(c, M!Answered(call, shownNow,
                 {s \in call.hydrate : \/ fresh[s].source = "snapshot"
                                       \/ s \in fetched /\ ~fresh[s].row.graph}))
  BY DEF M!Hydrates
<1> DEFINE fresh == [s \in call.hydrate |-> M!Hydrated(call, s, found[s])]
           shownNow == [s \in DOMAIN call.shown \cup call.hydrate |->
                          IF s \in call.hydrate THEN fresh[s] ELSE call.shown[s]]
           fetched == {s \in call.hydrate : fresh[s].source = "provider_fetch"}
           missing == {s \in call.hydrate : \/ fresh[s].source = "snapshot"
                                            \/ s \in fetched /\ ~fresh[s].row.graph}
<1>2. /\ cache' = [s \in Listed |-> IF s \in fetched THEN fresh[s].row ELSE cache[s]]
      /\ M!Answers(c, M!Answered(call, shownNow, missing))
  BY <1>1
<1>3. now' = now /\ Owes(call, now) /\ now \in Int /\ call.began \in Int
  BY DEF M!Hydrates, SparklineInv, Owes
<1> HIDE DEF call
<1>4. ASSUME NEW s \in call.hydrate
      PROVE  /\ InItsTime(fresh[s], call.began)
             /\ s \in DOMAIN call.fallback => fresh[s].row.graph
  <2>1. fresh[s] = M!Hydrated(call, s, found[s])
    OBVIOUS
  <2>2. \A g \in BOOLEAN : M!Row(g) \in Rows /\ M!Row(g).graph = g /\ M!Row(g).at = now
    BY <1>3 DEF M!Row, Rows
  <2>3. [graph |-> items[s] = "graph", at |-> now] \in Rows
    BY <1>3 DEF Rows
  <2>4. s \in DOMAIN call.fallback =>
          /\ call.fallback[s] \in Rows /\ call.fallback[s].graph
          /\ call.began - call.fallback[s].at < UsableTtl
    BY <1>3 DEF Owes
  <2>5. call.began - now <= 0
    BY <1>3 DEF Owes
  <2>6. \/ fresh[s] = M!Shown("provider_fetch", M!Row(found[s] = "graph"))
             /\ (s \in DOMAIN call.fallback => found[s] = "graph")
        \/ s \in DOMAIN call.fallback
             /\ fresh[s] = M!Shown("stale_cache", call.fallback[s])
        \/ s \notin DOMAIN call.fallback
             /\ fresh[s] = M!Shown("snapshot", [graph |-> items[s] = "graph", at |-> now])
    BY <2>1 DEF M!Hydrated
  <2> HIDE DEF fresh
  <2>7. CASE fresh[s] = M!Shown("provider_fetch", M!Row(found[s] = "graph"))
             /\ (s \in DOMAIN call.fallback => found[s] = "graph")
    <3> DEFINE g == found[s] = "graph"
    <3>1. g \in BOOLEAN /\ (s \in DOMAIN call.fallback => g)
      BY <2>7
    <3>2. /\ fresh[s].source = "provider_fetch" /\ fresh[s].row = M!Row(g)
      BY <2>7 DEF M!Shown
    <3> HIDE DEF g
    <3>3. /\ M!Row(g) \in Rows /\ M!Row(g).at = now /\ (g => M!Row(g).graph)
      BY <2>2, <3>1
    <3> QED
      BY <2>5, <3>1, <3>2, <3>3 DEF InItsTime
  <2>8. CASE s \in DOMAIN call.fallback
             /\ fresh[s] = M!Shown("stale_cache", call.fallback[s])
    BY <2>4, <2>8 DEF M!Shown, InItsTime
  <2>9. CASE s \notin DOMAIN call.fallback
             /\ fresh[s] = M!Shown("snapshot", [graph |-> items[s] = "graph", at |-> now])
    BY <2>3, <2>5, <2>9 DEF M!Shown, InItsTime
  <2> QED
    BY <2>6, <2>7, <2>8, <2>9
<1>5. cache' \in [Listed -> Rows]
  <2>1. \A s \in fetched : fresh[s].row \in Rows
    BY <1>4 DEF InItsTime
  <2> HIDE DEF fetched, fresh
  <2> QED
    BY <1>2, <2>1 DEF SparklineInv
<1>6. \A s \in DOMAIN shownNow : InItsTime(shownNow[s], call.began)
  <2> SUFFICES ASSUME NEW s \in DOMAIN shownNow PROVE InItsTime(shownNow[s], call.began)
    OBVIOUS
  <2>1. CASE s \in call.hydrate
    BY <1>4, <2>1
  <2>2. CASE s \notin call.hydrate
    <3>1. s \in DOMAIN call.shown /\ shownNow[s] = call.shown[s]
      BY <2>2
    <3> HIDE DEF shownNow
    <3> QED
      BY <1>3, <3>1 DEF Owes
  <2> QED
    BY <2>1, <2>2
<1>7. call.owed \subseteq {s \in DOMAIN shownNow : shownNow[s].row.graph}
  <2> SUFFICES ASSUME NEW s \in call.owed
               PROVE  s \in DOMAIN shownNow /\ shownNow[s].row.graph
    OBVIOUS
  <2>1. \/ s \in DOMAIN call.shown /\ s \notin call.hydrate /\ call.shown[s].row.graph
        \/ s \in DOMAIN call.fallback /\ s \in call.hydrate
    BY <1>3 DEF Owes
  <2>2. CASE s \in DOMAIN call.shown /\ s \notin call.hydrate /\ call.shown[s].row.graph
    BY <2>2
  <2>3. CASE s \in DOMAIN call.fallback /\ s \in call.hydrate
    <3>1. fresh[s].row.graph /\ shownNow[s] = fresh[s] /\ s \in DOMAIN shownNow
      BY <1>4, <2>3
    <3> HIDE DEF shownNow, fresh
    <3> QED
      BY <3>1
  <2> QED
    BY <2>1, <2>2, <2>3
<1> HIDE DEF shownNow, missing
<1>8. Paid(M!Answered(call, shownNow, missing))
  BY <1>6, <1>7, AnsweredIsPaid
<1> QED
  BY <1>2, <1>3, <1>5, <1>8, Pays

LEMMA RefreshEndsStep ==
  ASSUME SparklineInv, M!RefreshEnds
  PROVE  SparklineInv'
<1>1. PICK symbols \in refreshing :
        /\ \E found \in [symbols -> {"graph", "few", "none"}] :
             cache' = [s \in Listed |-> IF s \in symbols /\ found[s] # "none"
                                        THEN M!Row(found[s] = "graph") ELSE cache[s]]
        /\ UNCHANGED <<now, items, calls, answers>>
  BY DEF M!RefreshEnds
<1>2. \A g \in BOOLEAN : M!Row(g) \in Rows
  BY DEF M!Row, Rows, SparklineInv
<1>3. cache' \in [Listed -> Rows]
  BY <1>1, <1>2 DEF SparklineInv
<1> QED
  BY <1>1, <1>3 DEF SparklineInv

LEMMA SparklineStep ==
  ASSUME M!SparklineAssumption, SparklineInv, [M!Next]_(M!vars)
  PROVE  SparklineInv'
<1>1. CASE UNCHANGED M!vars
  BY <1>1 DEF M!vars, SparklineInv
<1>2. CASE M!ItemMoves
  BY <1>2 DEF M!ItemMoves, SparklineInv
<1>3. CASE M!Tick
  <2>1. now \in Int /\ now' = now + 1 /\ UNCHANGED <<cache, calls, answers>>
    BY <1>3 DEF M!Tick, SparklineInv
  <2>2. \A k : Owes(k, now) => Owes(k, now + 1)
    BY <2>1 DEF Owes
  <2> QED
    BY <2>1, <2>2 DEF SparklineInv
<1> QED
  BY <1>1, <1>2, <1>3, GraphAskedStep, HydratesStep, RefreshEndsStep DEF M!Next

(* A caller that takes stale graphs is shown every graph that was usable in *)
(* the cache when it asked, or a newer one, whatever tickers it waits for  *)
(* and whatever refreshes and other callers write meanwhile, and nothing   *)
(* older than its source allows (getMarketSparkline).                      *)
THEOREM LastGraphShownHolds ==
  ASSUME M!SparklineAssumption
  PROVE  M!Spec => []M!LastGraphShown
<1>1. M!Init => SparklineInv
  BY DEF M!Init, M!NoRow, SparklineInv, Rows
<1>2. SparklineInv /\ [M!Next]_(M!vars) => SparklineInv'
  BY SparklineStep
<1>3. SparklineInv => M!LastGraphShown
  <2> SUFFICES ASSUME SparklineInv, NEW c \in Caller, answers[c] # M!Idle
               PROVE  /\ answers[c].call.owed \subseteq answers[c].usable
                      /\ \A s \in DOMAIN answers[c].shown :
                           LET age == answers[c].call.began - answers[c].shown[s].row.at
                           IN  CASE answers[c].shown[s].source = "fresh_cache" ->
                                      age < FreshTtl
                                 [] answers[c].shown[s].source = "stale_cache" ->
                                      /\ age < UsableTtl
                                      /\ age < StaleTtl \/ answers[c].shown[s].row.graph
                                 [] OTHER -> age <= 0
    BY DEF M!LastGraphShown
  <2>1. Paid(answers[c])
    BY DEF SparklineInv
  <2> QED
    BY <2>1 DEF Paid, InItsTime
<1> QED
  BY <1>1, <1>2, <1>3, PTL DEF M!Spec

-----------------------------------------------------------------------------
(* The tickers of the market routes (MarketSections).                      *)
CONSTANTS Exchange, StaleAfter, Grace, MaxAge
VARIABLES listing, answer

T == INSTANCE MarketSections

(* What becomes of a symbol that is asked for.                             *)
LEMMA LoadFacts ==
  ASSUME NEW e, NEW s, NEW provider
  PROVE  LET load == T!Load(e, s, provider)
         IN  /\ load.ticker # "none" <=> \/ stored[e][s]["ticker"] # T!None
                                         \/ provider # T!Failed /\ s \in provider
             /\ load.ticker = "none" => (load.error <=> provider = T!Failed)
BY DEF T!Load

LEMMA RowsFacts ==
  ASSUME NEW e, NEW asked, NEW provider
  PROVE  LET rows == T!TickerRows(e, asked, provider)
         IN  /\ rows.priced \cup rows.unpriced \cup rows.dropped = asked
             /\ \A s \in asked \cap listing[e] :
                  /\ s \in rows.priced <=> \/ stored[e][s]["ticker"] # T!None
                                           \/ provider # T!Failed /\ s \in provider
                  /\ s \in rows.dropped => provider # T!Failed
<1> DEFINE load == [s \in asked |-> T!Load(e, s, provider)]
           held == asked \cap listing[e]
           priced == {s \in held : load[s].ticker # "none"}
           unpriced == {s \in held : load[s].ticker = "none" /\ load[s].error}
           dropped == (asked \ listing[e])
                        \cup {s \in held : load[s].ticker = "none" /\ ~load[s].error}
           rows == T!TickerRows(e, asked, provider)
<1>1. rows.priced = priced /\ rows.unpriced = unpriced /\ rows.dropped = dropped
  BY DEF T!TickerRows
<1>2. \A s \in asked :
        /\ load[s].ticker # "none" <=> \/ stored[e][s]["ticker"] # T!None
                                       \/ provider # T!Failed /\ s \in provider
        /\ load[s].ticker = "none" => (load[s].error <=> provider = T!Failed)
  BY LoadFacts
<1> HIDE DEF load, rows
<1>3. priced \cup unpriced \cup dropped = asked
  OBVIOUS
<1>4. \A s \in held :
        /\ s \in priced <=> \/ stored[e][s]["ticker"] # T!None
                            \/ provider # T!Failed /\ s \in provider
        /\ s \in dropped => provider # T!Failed
  BY <1>2
<1> QED
  BY <1>1, <1>3, <1>4 DEF rows

(* No ticker is lost to a provider that fails: each symbol asked for is    *)
(* priced, without a price or left out, priced exactly if the store has    *)
(* heard of it or the provider answered it, and left out only by a         *)
(* provider that answered (getTickers, getExchangeTickerLoads).            *)
THEOREM TickersNotLostHolds == T!Spec => [][T!TickersNotLost]_(T!vars)
<1>1. ASSUME T!Tickers, UNCHANGED <<listing, stored>> PROVE T!TickersNotLost
  <2> DEFINE Told(all, symbol, up, provider) ==
               [route    |-> "tickers",
                ok       |-> up # {},
                asked    |-> [e \in up |-> IF all THEN listing[e] ELSE {symbol}],
                provider |-> provider,
                rows     |-> [e \in up |-> T!TickerRows(e,
                                IF all THEN listing[e] ELSE {symbol}, provider[e])]]
  <2>0. PICK exchanges \in {Exchange} \cup {{e} : e \in Exchange}, all \in BOOLEAN,
             symbol \in Symbol :
          \E up \in SUBSET exchanges :
          \E provider \in [up -> (SUBSET Symbol) \cup {T!Failed}] :
            answer' = Told(all, symbol, up, provider)
    BY <1>1 DEF T!Tickers
  <2>1. PICK up \in SUBSET exchanges :
          \E provider \in [up -> (SUBSET Symbol) \cup {T!Failed}] :
            answer' = Told(all, symbol, up, provider)
    BY <2>0
  <2>2. PICK provider \in [up -> (SUBSET Symbol) \cup {T!Failed}] :
          answer' = Told(all, symbol, up, provider)
    BY <2>1
  <2> SUFFICES ASSUME NEW e \in DOMAIN answer'.rows
               PROVE  LET rows == answer'.rows[e]
                          prov == answer'.provider[e]
                      IN  /\ rows.priced \cup rows.unpriced \cup rows.dropped
                               = answer'.asked[e]
                          /\ \A s \in answer'.asked[e] \cap listing[e] :
                               /\ s \in rows.priced <=>
                                    \/ stored[e][s]["ticker"] # T!None
                                    \/ prov # T!Failed /\ s \in prov
                               /\ s \in rows.dropped => prov # T!Failed
    BY DEF T!TickersNotLost
  <2> DEFINE asked == IF all THEN listing[e] ELSE {symbol}
  <2>3. /\ answer'.asked[e] = asked /\ answer'.provider[e] = provider[e]
        /\ answer'.rows[e] = T!TickerRows(e, asked, provider[e])
    BY <2>2
  <2> HIDE DEF asked
  <2> QED
    BY <2>3, RowsFacts
<1>2. ASSUME T!Orderbook \/ T!Trades \/ T!Candles PROVE answer'.route # "tickers"
  <2>1. CASE T!Orderbook
    BY <2>1 DEF T!Orderbook, T!Refused, T!Section
  <2>2. CASE T!Trades
    BY <2>2 DEF T!Trades, T!Refused, T!Section
  <2>3. CASE T!Candles
    BY <2>3 DEF T!Candles, T!Refused
  <2> QED
    BY <1>2, <2>1, <2>2, <2>3
<1>3. [T!Next]_(T!vars) => [T!TickersNotLost]_(T!vars)
  BY <1>1, <1>2 DEF T!Next, T!Stores, T!GrowsOld, T!TickersNotLost
<1> QED
  BY <1>3, PTL DEF T!Spec

-----------------------------------------------------------------------------
(* The snapshot entry of an exchange (MarketSnapshots).                    *)
CONSTANTS Priority, Target, PriorityTarget, RefreshAfter, HardStaleAfter,
          UniverseAfter, MaxListings
VARIABLES store, listed, snap

E == INSTANCE MarketSnapshots

(* The failures of an entry are those of its items, though they are kept   *)
(* apart from them.                                                        *)
Sums(e) ==
  /\ e = [bundle |-> e.bundle, items |-> e.items, failed |-> e.failed,
          refreshedAt |-> e.refreshedAt, loadedAt |-> e.loadedAt]
  /\ e.items = [s \in e.bundle |-> e.items[s]]
  /\ e.failed = {s \in e.bundle : e.items[s].status # "live"}

EntryInv == snap # E!NoSnap => Sums(snap)

LEMMA EntrySums ==
  ASSUME NEW bundle, NEW rows, NEW loadedAt
  PROVE  Sums(E!Entry(bundle, rows, loadedAt))
<1> DEFINE its == [s \in bundle |-> IF s \in DOMAIN rows THEN rows[s] ELSE E!Pending]
           bad == {s \in bundle : its[s].status # "live"}
<1>1. E!Entry(bundle, rows, loadedAt) =
        [bundle |-> bundle, items |-> its, failed |-> bad, refreshedAt |-> now,
         loadedAt |-> loadedAt]
  BY DEF E!Entry
<1>2. its = [s \in bundle |-> its[s]]
  OBVIOUS
<1> HIDE DEF its
<1> QED
  BY <1>1, <1>2 DEF Sums

(* A ticker that changes an item changes the failures with it.             *)
LEMMA ProjectedSums ==
  ASSUME NEW e, Sums(e), NEW s \in e.bundle, NEW at
  PROVE  Sums(E!Projected(e, s, at))
<1> DEFINE its == [e.items EXCEPT ![s] = E!StreamItem(at)]
           bad == (e.failed \ {s}) \cup (IF E!IsStale(at) THEN {s} ELSE {})
           p == [bundle |-> e.bundle, items |-> its, failed |-> bad, refreshedAt |-> now,
                 loadedAt |-> e.loadedAt]
<1>1. E!Projected(e, s, at) = p
  <2> DEFINE first == [e EXCEPT !.items[s] = E!StreamItem(at)]
             second == [first EXCEPT !.failed = bad]
             third == [second EXCEPT !.refreshedAt = now]
  <2>1. first = [bundle |-> e.bundle, items |-> its, failed |-> e.failed,
                 refreshedAt |-> e.refreshedAt, loadedAt |-> e.loadedAt]
    <3>1. first = [e EXCEPT !.items = its]
      OBVIOUS
    <3> HIDE DEF first, its
    <3> QED
      BY <3>1 DEF Sums
  <2>2. E!Projected(e, s, at) = third
    <3>1. first.failed = e.failed
      BY <2>1
    <3>2. E!Projected(e, s, at) =
            [first EXCEPT !.failed = (first.failed \ {s})
                                       \cup (IF E!IsStale(at) THEN {s} ELSE {}),
                          !.refreshedAt = now]
      BY DEF E!Projected
    <3> HIDE DEF first
    <3> QED
      BY <3>1, <3>2
  <2> HIDE DEF first, bad, its
  <2>3. second = [bundle |-> e.bundle, items |-> its, failed |-> bad,
                  refreshedAt |-> e.refreshedAt, loadedAt |-> e.loadedAt]
    BY <2>1
  <2> HIDE DEF second
  <2> QED
    BY <2>2, <2>3
<1>2. E!StreamItem(at).status = IF E!IsStale(at) THEN "stale" ELSE "live"
  BY DEF E!StreamItem, E!ItemOf
<1>3. its = [t \in e.bundle |-> its[t]] /\ its[s] = E!StreamItem(at)
      /\ \A t \in e.bundle \ {s} : its[t] = e.items[t]
  BY DEF Sums
<1>4. bad = {t \in e.bundle : its[t].status # "live"}
  <2> HIDE DEF its
  <2> QED
    BY <1>2, <1>3 DEF Sums
<1> HIDE DEF its, bad
<1> QED
  BY <1>1, <1>3, <1>4 DEF Sums

LEMMA EntryStep ==
  ASSUME EntryInv, [E!Next]_(E!vars)
  PROVE  EntryInv'
<1>1. ASSUME NEW loaded, NEW rows, NEW bundle, NEW loadedAt,
             E!EndsFlight(loaded, rows, bundle, loadedAt)
      PROVE  EntryInv'
  BY <1>1, EntrySums DEF E!EndsFlight, EntryInv
<1>2. ASSUME NEW s, NEW at, E!Projects(s, at)
      PROVE  EntryInv'
  BY <1>2, ProjectedSums DEF E!Projects, EntryInv
<1>3. ASSUME UNCHANGED snap PROVE EntryInv'
  BY <1>3 DEF EntryInv, Sums
<1>4. CASE \E s \in Symbol : E!TickerArrives(s) \/ E!TradeArrives(s)
  BY <1>2, <1>4 DEF E!TickerArrives, E!TradeArrives
<1>5. CASE E!UniverseLoads \/ E!UniverseFails
  BY <1>1, <1>3, <1>5 DEF E!UniverseLoads, E!UniverseFails, E!UniverseEnds
<1>6. CASE E!TickersLoad
  BY <1>1, <1>6 DEF E!TickersLoad
<1>7. CASE \/ E!Starts \/ E!Stops \/ E!IntervalFires \/ E!AsksSnapshot \/ E!AsksViewport
           \/ E!Lists \/ E!Tick \/ UNCHANGED (E!vars)
  BY <1>3, <1>7 DEF E!Starts, E!Stops, E!IntervalFires, E!AsksSnapshot, E!AsksViewport,
     E!Lists, E!Tick, E!vars
<1> QED
  BY <1>4, <1>5, <1>6, <1>7 DEF E!Next

(* What an answer for some symbols says of each of them.                   *)
LEMMA SumsAddUp ==
  ASSUME NEW e, Sums(e), NEW symbols
  PROVE  LET a == E!Answer(e, symbols)
         IN  /\ a.items \cup a.unlisted = symbols
             /\ a.failures = {s \in symbols :
                   s \notin a.items \/ e.items[s].status # "live"}
             /\ a.status = "success" => a.failures = a.unlisted
<1> DEFINE a == E!Answer(e, symbols)
           found == symbols \cap e.bundle
<1>1. /\ a.items = found /\ a.unlisted = symbols \ e.bundle
      /\ a.failures = (e.failed \cap symbols) \cup (symbols \ e.bundle)
      /\ a.status = "success" => \A s \in found : e.items[s].status = "live"
  BY DEF E!Answer
<1> HIDE DEF a
<1> QED
  BY <1>1 DEF Sums, a

(* Whatever symbols are asked for, and however refreshes and the stream    *)
(* have taken turns on the entry, every symbol comes back as an item or as *)
(* unlisted, and exactly those without a live item have a failure          *)
(* (filterSnapshotItemsForSymbols, synchronizeCachedSnapshotFailure).      *)
THEOREM SnapshotAnswersAddUp == E!Spec => []E!AnswersAddUp
<1>1. E!Init => EntryInv
  BY DEF E!Init, EntryInv
<1>2. EntryInv /\ [E!Next]_(E!vars) => EntryInv'
  BY EntryStep
<1>3. EntryInv => E!AnswersAddUp
  BY SumsAddUp DEF EntryInv, E!AnswersAddUp
<1> QED
  BY <1>1, <1>2, <1>3, PTL DEF E!Spec

-----------------------------------------------------------------------------
(* The pages of the market lists (MarketLists).                            *)
CONSTANTS Representative, Mapped, Comparable, Volume, Change, MaxMoves
VARIABLES moves, walk

P == INSTANCE MarketLists

Walks ==
  [reading : BOOLEAN, offset : Nat, shown : [Symbol -> Nat], sort : P!Sorts,
   list : P!Lists, moved : BOOLEAN]

(* Where an item of the list a walk reads has its place.                   *)
Place(w, s) == P!Position(w.list, w.sort, s)

(* A walk has shown what is placed before its offset, once.                *)
ShownSoFar(w) ==
  w.shown = [s \in Symbol |->
    IF s \in P!Candidates(w.list) /\ Place(w, s) < w.offset THEN 1 ELSE 0]

WalkInv ==
  /\ items \in [Symbol -> P!Item] /\ walk \in Walks
  /\ walk.reading /\ ~walk.moved => ShownSoFar(walk)
  /\ P!PagesCover

LEMMA SizesAgree == \A S : P!Cardinality(S) = Cardinality(S)
BY DEF P!Cardinality, P!IsFiniteSet, Cardinality, IsFiniteSet

LEMMA CandidateFacts ==
  ASSUME P!ListAssumption, NEW list \in P!Lists
  PROVE  P!Candidates(list) \subseteq Symbol /\ IsFiniteSet(P!Candidates(list))
<1>1. P!Candidates(list) \subseteq Symbol
  BY DEF P!ListAssumption, P!Candidates, P!Lists
<1>2. IsFiniteSet(Symbol)
  BY DEF P!ListAssumption, P!IsFiniteSet, IsFiniteSet
<1> QED
  BY <1>1, <1>2, FS_Subset

(* The keys that are compared are sequences of numbers.                    *)
LEMMA KeysAreNumbers ==
  ASSUME P!ListAssumption, items \in [Symbol -> P!Item], NEW s \in Symbol,
         NEW list \in P!Lists, NEW sort \in P!Sorts
  PROVE  P!KeyOf(list, sort, s) \in Seq(Int)
<1>1. s \in Int /\ items[s].volume \in Int /\ items[s].change \in Int
  BY DEF P!ListAssumption, P!Item, P!Pending, P!Missing
<1>2. /\ P!StatusRank(s) \in Int /\ P!ChangeRank(s) \in Int /\ P!TopRank(s) \in Int
      /\ -items[s].volume \in Int
  BY <1>1 DEF P!StatusRank, P!ChangeRank, P!TopRank
<1>3. P!SnapshotKey(s) \in Seq(Int)
  BY <1>1, <1>2 DEF P!SnapshotKey
<1>4. P!PriorityKey(s) \in Seq(Int)
  BY <1>2, <1>3 DEF P!PriorityKey
<1>5. P!ViewportKey(sort, s) \in Seq(Int)
  BY <1>1, <1>2, <1>3 DEF P!ViewportKey, P!Sorts
<1> QED
  BY <1>4, <1>5 DEF P!KeyOf

LEMMA NothingBeforeItself ==
  ASSUME NEW k \in Seq(Int)
  PROVE  ~P!Before(k, k)
BY DEF P!Before

(* An item of a list has a place in it.                                    *)
LEMMA PlacedInList ==
  ASSUME P!ListAssumption, items \in [Symbol -> P!Item],
         NEW list \in P!Lists, NEW sort \in P!Sorts, NEW s \in P!Candidates(list)
  PROVE  /\ P!Position(list, sort, s) \in Nat
         /\ P!Cardinality(P!Candidates(list)) \in Nat
         /\ P!Position(list, sort, s) < P!Cardinality(P!Candidates(list))
<1> DEFINE all == P!Candidates(list)
           before == {t \in all : P!Before(P!KeyOf(list, sort, t), P!KeyOf(list, sort, s))}
<1>1. s \in Symbol /\ all \subseteq Symbol /\ IsFiniteSet(all)
  BY CandidateFacts
<1>2. s \notin before
  BY <1>1, KeysAreNumbers, NothingBeforeItself
<1>3. P!Position(list, sort, s) = Cardinality(before)
  BY SizesAgree DEF P!Position
<1> HIDE DEF before, all
<1>4. before \subseteq all \ {s} /\ s \in all
  BY <1>2 DEF before, all
<1>5. IsFiniteSet(all \ {s}) /\ Cardinality(all \ {s}) = Cardinality(all) - 1
  BY <1>1, <1>4, FS_RemoveElement
<1>6. Cardinality(before) \in Nat /\ Cardinality(all) \in Nat
      /\ Cardinality(before) <= Cardinality(all \ {s})
  BY <1>1, <1>4, <1>5, FS_Subset, FS_CardinalityType
<1> QED
  BY <1>3, <1>5, <1>6, SizesAgree DEF all

(* A page goes on where the last one ended, and the last one shows the     *)
(* rest.                                                                   *)
LEMMA PageStep ==
  ASSUME P!ListAssumption, items \in [Symbol -> P!Item], NEW w \in Walks,
         ~w.moved => ShownSoFar(w), P!Reads(w), items' = items
  PROVE  WalkInv'
<1> DEFINE total == P!Cardinality(P!Candidates(w.list))
           page == P!Page(w.list, w.sort, w.offset)
           counts == [s \in Symbol |-> w.shown[s] + (IF s \in page THEN 1 ELSE 0)]
           on == w.offset + Limit < total
           to == w.offset + Limit
<1>1. /\ walk' = [w EXCEPT !.shown = [s \in Symbol |-> @[s] + (IF s \in page THEN 1 ELSE 0)],
                           !.offset = to, !.reading = on]
  BY DEF P!Reads, P!NextCursor
<1>2. /\ w.offset \in Nat /\ Limit \in Nat /\ w.shown \in [Symbol -> Nat]
      /\ w.list \in P!Lists /\ w.sort \in P!Sorts /\ w.moved \in BOOLEAN
  BY DEF Walks, P!ListAssumption
<1>3. to \in Nat /\ on \in BOOLEAN /\ counts \in [Symbol -> Nat]
  BY <1>2
<1>4. /\ walk' \in Walks /\ walk'.shown = counts /\ walk'.offset = to /\ walk'.reading = on
      /\ walk'.list = w.list /\ walk'.sort = w.sort /\ walk'.moved = w.moved
  <2> DEFINE first == [w EXCEPT !.shown = counts]
             second == [first EXCEPT !.offset = to]
             third == [second EXCEPT !.reading = on]
  <2>1. walk' = third
    BY <1>1
  <2> HIDE DEF counts, to, on
  <2>2. first \in Walks /\ first.shown = counts /\ first.list = w.list
        /\ first.sort = w.sort /\ first.moved = w.moved
    BY <1>3 DEF Walks
  <2> HIDE DEF first
  <2>3. second \in Walks /\ second.shown = counts /\ second.list = w.list
        /\ second.sort = w.sort /\ second.moved = w.moved /\ second.offset = to
    BY <1>3, <2>2 DEF Walks
  <2> HIDE DEF second
  <2>4. third \in Walks /\ third.shown = counts /\ third.list = w.list
        /\ third.sort = w.sort /\ third.moved = w.moved /\ third.offset = to
        /\ third.reading = on
    BY <1>3, <2>3 DEF Walks
  <2> QED
    BY <2>1, <2>4
<1>5. \A list, sort, s : P!Position(list, sort, s)' = P!Position(list, sort, s)
  BY DEF P!Position, P!KeyOf, P!PriorityKey, P!ViewportKey, P!SnapshotKey, P!StatusRank,
     P!ChangeRank
<1>6. ASSUME ~w.moved, NEW s \in Symbol
      PROVE  counts[s] = IF s \in P!Candidates(w.list) /\ Place(w, s) < to THEN 1 ELSE 0
  <2>1. w.shown[s] = IF s \in P!Candidates(w.list) /\ Place(w, s) < w.offset THEN 1 ELSE 0
    BY <1>6 DEF ShownSoFar
  <2>2. s \in page <=> /\ s \in P!Candidates(w.list)
                       /\ Place(w, s) >= w.offset /\ Place(w, s) < to
    BY DEF P!Page, Place
  <2>3. s \in P!Candidates(w.list) => Place(w, s) \in Nat
    BY <1>2, PlacedInList DEF Place
  <2>4. counts[s] = w.shown[s] + (IF s \in page THEN 1 ELSE 0)
    OBVIOUS
  <2> HIDE DEF page, counts
  <2> QED
    BY <1>2, <2>1, <2>2, <2>3, <2>4
<1>7. ASSUME ~walk'.moved
      PROVE  ShownSoFar(walk)'
  <2>1. counts = [s \in Symbol |->
          IF s \in P!Candidates(w.list) /\ Place(w, s) < to THEN 1 ELSE 0]
    BY <1>4, <1>6, <1>7
  <2>2. \A s : Place(walk, s)' = Place(w, s)
    BY <1>4, <1>5 DEF Place
  <2> HIDE DEF counts, to
  <2> QED
    BY <1>4, <2>1, <2>2 DEF ShownSoFar
<1>8. P!PagesCover'
  <2> SUFFICES ASSUME ~walk'.reading, ~walk'.moved, NEW s \in Symbol
               PROVE  walk'.shown[s] = (IF s \in P!Candidates(walk'.list) THEN 1 ELSE 0)
    BY DEF P!PagesCover, P!Candidates
  <2>1. ~on /\ ~w.moved
    BY <1>4
  <2>2. s \in P!Candidates(w.list) => Place(w, s) < to
    BY <1>2, <2>1, PlacedInList DEF Place
  <2> HIDE DEF counts, to
  <2> QED
    BY <1>4, <1>6, <2>1, <2>2
<1> QED
  BY <1>4, <1>7, <1>8 DEF WalkInv

LEMMA NewWalk ==
  ASSUME NEW list \in P!Lists, NEW sort \in P!Sorts, P!ListAssumption,
         items \in [Symbol -> P!Item]
  PROVE  LET w == [P!NoWalk EXCEPT !.list = list, !.sort = sort]
         IN  w \in Walks /\ ShownSoFar(w)
<1> DEFINE w == [P!NoWalk EXCEPT !.list = list, !.sort = sort]
<1>1. w \in Walks /\ w.offset = 0 /\ w.shown = [s \in Symbol |-> 0] /\ w.list = list
      /\ w.sort = sort
  BY DEF P!NoWalk, Walks, P!Sorts, P!Lists
<1>2. \A s \in P!Candidates(list) : ~(P!Position(list, sort, s) < 0)
  BY PlacedInList
<1> HIDE DEF w
<1>3. ShownSoFar(w)
  BY <1>1, <1>2 DEF ShownSoFar, Place
<1> QED
  BY <1>1, <1>3 DEF w

LEMMA WalkStep ==
  ASSUME P!ListAssumption, WalkInv, [P!Next]_(P!vars)
  PROVE  WalkInv'
<1>1. CASE P!Opens
  <2>1. PICK list \in P!Lists, sort \in P!Sorts :
          P!Reads([P!NoWalk EXCEPT !.list = list, !.sort = sort])
    BY <1>1 DEF P!Opens
  <2> DEFINE w == [P!NoWalk EXCEPT !.list = list, !.sort = sort]
  <2>2. w \in Walks /\ ShownSoFar(w) /\ P!Reads(w) /\ items' = items
    BY <1>1, <2>1, NewWalk DEF WalkInv, P!Opens
  <2> HIDE DEF w
  <2> QED
    BY <2>2, PageStep DEF WalkInv
<1>2. CASE P!ReadsOn
  BY <1>2, PageStep DEF WalkInv, P!ReadsOn
<1>3. CASE P!ItemMoves
  <2>1. /\ items' \in [Symbol -> P!Item]
        /\ walk' = [walk EXCEPT !.moved = walk.moved \/ walk.reading]
    BY <1>3 DEF P!ItemMoves, WalkInv
  <2>2. /\ walk' \in Walks /\ walk'.reading = walk.reading /\ walk'.shown = walk.shown
        /\ walk'.list = walk.list
        /\ walk'.moved = (walk.moved \/ walk.reading)
    BY <2>1 DEF WalkInv, Walks
  <2>3. P!PagesCover'
    <3> SUFFICES ASSUME ~walk'.reading, ~walk'.moved, walk' # P!NoWalk, NEW s \in Symbol
                 PROVE  walk'.shown[s] = (IF s \in P!Candidates(walk'.list) THEN 1 ELSE 0)
      BY DEF P!PagesCover, P!Candidates, P!NoWalk
    <3>1. walk' = walk
      BY <2>1, <2>2 DEF WalkInv, Walks
    <3> QED
      BY <3>1 DEF WalkInv, P!PagesCover
  <2> QED
    BY <2>1, <2>2, <2>3 DEF WalkInv
<1>4. CASE UNCHANGED (P!vars)
  BY <1>4 DEF P!vars, WalkInv, P!PagesCover, ShownSoFar, Place, P!Position, P!KeyOf,
     P!PriorityKey, P!ViewportKey, P!SnapshotKey, P!StatusRank, P!ChangeRank, P!Candidates
<1> QED
  BY <1>1, <1>2, <1>3, <1>4 DEF P!Next

(* A client that follows the cursors of a list sees each of its markets    *)
(* exactly once, whatever it is ordered by and however long its pages are, *)
(* unless an item moved on the way (getMarketList, buildCursorPage).       *)
THEOREM PagesCoverHolds ==
  ASSUME P!ListAssumption
  PROVE  P!Spec => []P!PagesCover
<1>1. P!Init => WalkInv
  <2>1. P!NoWalk \in Walks /\ P!NoWalk.reading = FALSE
    BY DEF P!NoWalk, Walks, P!Sorts, P!Lists
  <2> QED
    BY <2>1 DEF P!Init, WalkInv, P!PagesCover
<1>2. WalkInv /\ [P!Next]_(P!vars) => WalkInv'
  BY WalkStep
<1>3. WalkInv => P!PagesCover
  BY DEF WalkInv
<1> QED
  BY <1>1, <1>2, <1>3, PTL DEF P!Spec

-----------------------------------------------------------------------------
(* The pages of the tickers (TickerPages).                                 *)
CONSTANTS Found, PageSize, CursorTtl, Value, CacheTtl
VARIABLES params, pc, cursor, askedAt, seen, steady

Q == INSTANCE TickerPages WITH Limit <- PageSize

Tickers == [Market -> Int]
Cursors == [market : Int, value : Int, at : Int]

(* Where a market is placed whose row is v; and whether it is behind the   *)
(* cursor.                                                                 *)
PlacedBy(m, v) == IF params.sort = "name" THEN m ELSE v
Behind(m, v)   == Q!Before(cursor.value, cursor.market, PlacedBy(m, v), m)

Shown(m, v) == v # Q!Absent /\ (params.searched => m \in Found)

(* Of a market that stayed as it was: it was shown unless it is behind the *)
(* cursor, and it has been when the pages are over.                        *)
SteadyInv ==
  \A m \in Market : steady[m] # <<>> =>
    \E v \in Int :
      /\ steady[m] = <<v>>
      /\ Shown(m, v) =>
           /\ seen[m] \in {0, 1}
           /\ IF pc = "finished" THEN seen[m] = 1
              ELSE cursor # Q!NoCursor /\ (seen[m] = 1 <=> ~Behind(m, v))

PagesInv ==
  /\ now \in Nat /\ askedAt \in Nat
  /\ listing \in Tickers /\ (cache.expiresAt > now => cache.rows \in Tickers)
  /\ cache = [rows |-> cache.rows, expiresAt |-> cache.expiresAt]
  /\ cache.expiresAt \in Int
  /\ params \in Q!Params /\ cursor \in Cursors
  /\ seen \in [Market -> Nat]
  /\ cursor = Q!NoCursor /\ pc # "finished" => seen = [m \in Market |-> 0]
  /\ SteadyInv
  /\ DOMAIN steady = Market

(* A set of numbers has a least one.                                       *)
LEMMA LeastNumber ==
  ASSUME NEW Ns, Ns \subseteq Nat, Ns # {}
  PROVE  \E n \in Ns : \A m \in Ns : n <= m
<1> DEFINE Under == OpToRel(<, Nat)
<1>1. IsWellFoundedOn(Under, Nat)
  BY NatLessThanWellFounded
<1>2. \A m, n \in Nat : m < n => <<m, n>> \in Under
  BY DEF OpToRel
<1> HIDE DEF Under
<1>3. PICK n \in Ns : \A m \in Ns : ~(<<m, n>> \in Under)
  BY <1>1, WFMin
<1>4. n \in Nat /\ \A m \in Ns : m \in Nat /\ ~(m < n)
  BY <1>2, <1>3
<1> QED
  BY <1>3, <1>4

LEMMA TickersAgree == \A S : Q!Cardinality(S) = Cardinality(S)
BY DEF Q!Cardinality, Q!IsFiniteSet, Cardinality, IsFiniteSet

(* compareTickerSortTuple is a strict order on places.                     *)
LEMMA TupleOrder ==
  /\ \A v, m \in Int : ~Q!Before(v, m, v, m)
  /\ \A v, m, w, n \in Int : m # n => Q!Before(v, m, w, n) \/ Q!Before(w, n, v, m)
  /\ \A v, m, w, n, x, k \in Int :
       Q!Before(v, m, w, n) /\ Q!Before(w, n, x, k) => Q!Before(v, m, x, k)
BY DEF Q!Before, Q!Unknown

Rest(list) == IF cursor = Q!NoCursor THEN Q!Matching(list) ELSE Q!After(cursor, list)
RowsBefore(m, list) == {n \in Rest(list) : Q!Precedes(n, m, list)}
PageOf(list) == {m \in Rest(list) : Cardinality(RowsBefore(m, list)) < PageSize}
LastOf(list) ==
  CHOOSE m \in PageOf(list) : \A n \in PageOf(list) : n = m \/ Q!Precedes(n, m, list)

(* What is on a page: up to its last row, all that is behind the cursor.   *)
LEMMA PageOfFacts ==
  ASSUME Q!PagesAssumption, NEW list \in Tickers
  PROVE  /\ PageOf(list) \subseteq Rest(list) /\ Rest(list) \subseteq Market
         /\ PageOf(list) # Rest(list) =>
              /\ LastOf(list) \in PageOf(list)
              /\ \A m \in Rest(list) :
                   m \in PageOf(list) <=> ~Q!Precedes(LastOf(list), m, list)
<1> DEFINE rest == Rest(list)  page == PageOf(list)  place(m) == Cardinality(RowsBefore(m, list))
           less(m, n) == Q!Precedes(m, n, list)
<1>1. rest \subseteq Market /\ IsFiniteSet(rest) /\ rest \subseteq Int
  <2>1. rest \subseteq Market
    BY DEF Rest, Q!Matching, Q!After
  <2>2. IsFiniteSet(Market)
    BY DEF Q!PagesAssumption, Q!IsFiniteSet, IsFiniteSet
  <2> HIDE DEF rest
  <2>3. rest \subseteq Int
    BY <2>1 DEF Q!PagesAssumption
  <2> QED
    BY <2>1, <2>2, <2>3, FS_Subset
<1>2. /\ \A m \in rest : ~less(m, m)
      /\ \A m, n \in rest : m # n => less(m, n) \/ less(n, m)
      /\ \A m, n, k \in rest : less(m, n) /\ less(n, k) => less(m, k)
  <2>1. \A m \in rest : Q!SortValue(m, list) \in Int
    BY <1>1 DEF Q!SortValue, Tickers
  <2> HIDE DEF rest
  <2> QED
    BY <1>1, <2>1, TupleOrder DEF Q!Precedes
<1>3. \A m : RowsBefore(m, list) = {n \in rest : less(n, m)}
  BY DEF RowsBefore
<1>4. page = {m \in rest : place(m) < PageSize}
  BY DEF PageOf
<1> HIDE DEF rest, page, less
<1>5. \A m : IsFiniteSet(RowsBefore(m, list))
  <2> SUFFICES ASSUME NEW m
               PROVE  IsFiniteSet(RowsBefore(m, list))
    OBVIOUS
  <2>1. RowsBefore(m, list) \subseteq rest
    BY <1>3
  <2> QED
    BY <1>1, <2>1, FS_Subset
<1>6. \A m : place(m) \in Nat
  BY <1>5, FS_CardinalityType
<1>7. ASSUME NEW m \in rest, NEW n \in rest, less(m, n)
      PROVE  place(m) < place(n)
  <2>1. RowsBefore(m, list) \subseteq RowsBefore(n, list)
    BY <1>2, <1>3, <1>7
  <2>2. m \in RowsBefore(n, list) /\ m \notin RowsBefore(m, list)
    BY <1>2, <1>3, <1>7
  <2>3. RowsBefore(m, list) # RowsBefore(n, list)
    BY <2>2
  <2> QED
    BY <1>5, <2>1, <2>3, FS_Subset, FS_CardinalityType
<1>8. PageSize \in Nat /\ PageSize > 0
  BY DEF Q!PagesAssumption
<1> HIDE DEF place
<1>9. ASSUME page # rest
      PROVE  /\ LastOf(list) \in page
             /\ \A m \in rest : m \in page <=> ~less(LastOf(list), m)
  <2>1. page # {}
    <3> DEFINE Ns == {place(m) : m \in rest}
    <3>1. rest # {}
      BY <1>4, <1>9
    <3>2. Ns \subseteq Nat /\ Ns # {}
      BY <1>6, <3>1
    <3> HIDE DEF Ns
    <3>3. PICK t \in Ns : \A u \in Ns : t <= u
      BY <3>2, LeastNumber
    <3>4. PICK m \in rest : t = place(m)
      BY <3>3 DEF Ns
    <3>5. \A n \in rest : place(m) <= place(n)
      BY <3>3, <3>4 DEF Ns
    <3>6. \A n \in rest : ~less(n, m)
      BY <1>6, <1>7, <3>5
    <3>7. RowsBefore(m, list) = {}
      BY <1>3, <3>6
    <3>8. place(m) = 0
      BY <3>7, FS_EmptySet DEF place
    <3> QED
      BY <1>4, <1>8, <3>8
  <2>2. \E m \in page : \A n \in page : n = m \/ less(n, m)
    <3> DEFINE Ns == {PageSize - place(m) : m \in page}
    <3>1. Ns \subseteq Nat
      <4> SUFFICES ASSUME NEW m \in page
                   PROVE  PageSize - place(m) \in Nat
        OBVIOUS
      <4> QED
        BY <1>4, <1>6, <1>8
    <3>2. Ns # {}
      BY <2>1
    <3> HIDE DEF Ns
    <3>3. PICK t \in Ns : \A u \in Ns : t <= u
      BY <3>1, <3>2, LeastNumber
    <3>4. PICK m \in page : t = PageSize - place(m)
      BY <3>3 DEF Ns
    <3>5. ASSUME NEW n \in page
          PROVE  n = m \/ less(n, m)
      <4>1. t <= PageSize - place(n)
        BY <3>3 DEF Ns
      <4>2. place(n) <= place(m)
        BY <1>6, <1>8, <3>4, <4>1
      <4>3. n \in rest /\ m \in rest
        BY <1>4
      <4>4. ~less(m, n)
        BY <1>6, <1>7, <4>2, <4>3
      <4> QED
        BY <1>2, <4>3, <4>4
    <3> QED
      BY <3>5
  <2>3. LastOf(list) \in page /\ \A n \in page : n = LastOf(list) \/ less(n, LastOf(list))
    <3>1. LastOf(list) = CHOOSE m \in page : \A n \in page : n = m \/ less(n, m)
      BY DEF LastOf, page, less
    <3> QED
      BY <2>2, <3>1
  <2> DEFINE last == LastOf(list)
  <2>4. last \in rest /\ last \in page
    BY <1>4, <2>3
  <2> HIDE DEF last
  <2>5. ASSUME NEW m \in rest, m \in page
        PROVE  ~less(last, m)
    BY <1>2, <2>3, <2>4, <2>5 DEF last
  <2>6. ASSUME NEW m \in rest, ~less(last, m)
        PROVE  m \in page
    <3>1. m = last \/ less(m, last)
      BY <1>2, <2>4, <2>6
    <3>2. place(m) <= place(last) /\ place(last) < PageSize
      BY <1>4, <1>6, <1>7, <2>4, <3>1
    <3> QED
      BY <1>4, <1>6, <1>8, <3>2
  <2> QED
    BY <2>3, <2>5, <2>6 DEF last
<1> QED
  BY <1>1, <1>4, <1>9 DEF rest, page, less

LEMMA ShowsStep ==
  ASSUME Q!PagesAssumption, PagesInv, NEW list \in Tickers, Q!Shows(list),
         pc # "finished", askedAt' \in Nat, UNCHANGED params
  PROVE  /\ cursor' \in Cursors /\ seen' \in [Market -> Nat] /\ DOMAIN steady' = Market
         /\ cursor' = Q!NoCursor /\ pc' # "finished" => seen' = [m \in Market |-> 0]
         /\ SteadyInv'
<1> DEFINE rest == Rest(list)  page == PageOf(list)  last == LastOf(list)  next == page # rest
<1>1. /\ cursor' = IF next THEN [market |-> last, value |-> Q!SortValue(last, list),
                                 at |-> askedAt']
                   ELSE cursor
      /\ pc' = IF next THEN "ready" ELSE "finished"
      /\ seen' = [m \in Market |-> seen[m] + IF m \in page THEN 1 ELSE 0]
      /\ steady' = [m \in Market |->
           IF cursor = Q!NoCursor \/ steady[m] = <<list[m]>> THEN <<list[m]>> ELSE <<>>]
  BY TickersAgree DEF Q!Shows, Rest, RowsBefore, PageOf, LastOf
<1>2. /\ page \subseteq rest /\ rest \subseteq Market
      /\ next => last \in page /\ \A m \in rest : m \in page <=> ~Q!Precedes(last, m, list)
  BY PageOfFacts
<1>3. \A m \in Market : list[m] \in Int /\ m \in Int /\ Q!SortValue(m, list) = PlacedBy(m, list[m])
                        /\ PlacedBy(m, list[m]) \in Int
  BY DEF Q!PagesAssumption, Tickers, Q!SortValue, PlacedBy
<1>4. \A m \in Market :
        m \in rest <=> Shown(m, list[m]) /\ (cursor = Q!NoCursor \/ Behind(m, list[m]))
  BY <1>3 DEF Rest, Q!Matching, Q!After, Shown, Behind
<1>5. seen \in [Market -> Nat] /\ cursor \in Cursors
  BY DEF PagesInv
<1> HIDE DEF rest, page, last
<1>6. cursor' \in Cursors /\ (next => cursor' # Q!NoCursor)
  <2>1. CASE next
    <3>1. last \in Market
      BY <1>2, <2>1
    <3>2. /\ cursor' \in Cursors /\ cursor'.at = askedAt'
      BY <1>1, <1>3, <2>1, <3>1 DEF Cursors
    <3> QED
      BY <3>2 DEF Q!NoCursor
  <2> QED
    BY <1>1, <1>5, <2>1
<1>7. seen' \in [Market -> Nat]
  BY <1>1, <1>5
<1>8. cursor' = Q!NoCursor => pc' = "finished"
  BY <1>1, <1>6
<1>9. ASSUME NEW m \in Market, steady'[m] # <<>>, Shown(m, list[m])
      PROVE  /\ seen'[m] \in {0, 1}
             /\ IF pc' = "finished" THEN seen'[m] = 1
                ELSE cursor' # Q!NoCursor /\ (seen'[m] = 1 <=> ~Behind(m, list[m])')
  <2>1. seen[m] \in {0, 1} /\ (seen[m] = 0 <=> m \in rest)
    <3>1. CASE cursor = Q!NoCursor
      BY <1>4, <1>9, <3>1 DEF PagesInv
    <3>2. CASE cursor # Q!NoCursor
      <4>1. steady[m] = <<list[m]>>
        BY <1>1, <1>9, <3>2
      <4>5. steady[m] # <<>> /\ SteadyInv
        BY <4>1 DEF PagesInv
      <4>2. PICK v \in Int : /\ steady[m] = <<v>>
                             /\ Shown(m, v) => /\ seen[m] \in {0, 1}
                                               /\ seen[m] = 1 <=> ~Behind(m, v)
        BY <4>5 DEF SteadyInv
      <4>3. v = list[m]
        BY <4>1, <4>2
      <4> QED
        BY <1>4, <1>9, <3>2, <4>2, <4>3
    <3> QED
      BY <3>1, <3>2
  <2>2. seen'[m] = seen[m] + IF m \in page THEN 1 ELSE 0
    BY <1>1
  <2>3. CASE ~next
    BY <1>1, <1>2, <2>1, <2>2, <2>3
  <2>4. CASE next
    <3>1. last \in page /\ last \in rest /\ last \in Market
      BY <1>2, <2>4
    <3>2. Behind(m, list[m])' <=> Q!Precedes(last, m, list)
      <4>1. cursor'.value = PlacedBy(last, list[last]) /\ cursor'.market = last
        BY <1>1, <1>3, <2>4, <3>1
      <4>2. PlacedBy(m, list[m])' = PlacedBy(m, list[m]) /\ params' = params
        BY DEF PlacedBy
      <4>3. Q!Precedes(last, m, list)
              = Q!Before(PlacedBy(last, list[last]), last, PlacedBy(m, list[m]), m)
        BY <1>3, <3>1 DEF Q!Precedes
      <4> QED
        BY <4>1, <4>2, <4>3 DEF Behind, Q!Before
    <3>3. m \notin rest => ~Q!Precedes(last, m, list)
      <4> SUFFICES ASSUME m \notin rest, Q!Precedes(last, m, list)
                   PROVE  FALSE
        OBVIOUS
      <4>1. cursor # Q!NoCursor /\ ~Behind(m, list[m]) /\ Behind(last, list[last])
        BY <1>4, <1>9, <3>1
      <4>2. cursor.value \in Int /\ cursor.market \in Int
        BY <1>5 DEF Cursors
      <4>3. Q!Before(PlacedBy(last, list[last]), last, PlacedBy(m, list[m]), m)
        BY <1>3, <3>1 DEF Q!Precedes
      <4>4. Behind(m, list[m])
        BY <1>3, <3>1, <4>1, <4>2, <4>3, TupleOrder DEF Behind
      <4> QED
        BY <4>1, <4>4
    <3>4. pc' = "ready" /\ cursor' # Q!NoCursor
      BY <1>1, <1>6, <2>4
    <3>5. m \in page <=> m \in rest /\ ~Q!Precedes(last, m, list)
      BY <1>2, <2>4
    <3> QED
      BY <2>1, <2>2, <3>2, <3>3, <3>4, <3>5
  <2> QED
    BY <2>3, <2>4
<1>10. SteadyInv'
  <2> SUFFICES ASSUME NEW m \in Market, steady'[m] # <<>>
               PROVE  \E v \in Int :
                        /\ steady'[m] = <<v>>
                        /\ Shown(m, v)' =>
                             /\ seen'[m] \in {0, 1}
                             /\ IF pc' = "finished" THEN seen'[m] = 1
                                ELSE cursor' # Q!NoCursor
                                     /\ (seen'[m] = 1 <=> ~Behind(m, v)')
    BY DEF SteadyInv, Shown, Behind, Q!NoCursor, Q!Before, PlacedBy
  <2>1. steady'[m] = <<list[m]>> /\ list[m] \in Int
    BY <1>1, <1>3
  <2>2. Shown(m, list[m])' => Shown(m, list[m])
    BY DEF Shown
  <2> QED
    BY <1>9, <2>1, <2>2
<1> QED
  BY <1>1, <1>6, <1>7, <1>8, <1>10

LEMMA PagesStep ==
  ASSUME Q!PagesAssumption, PagesInv, Q!Next
  PROVE  PagesInv'
<1>1. ASSUME NEW list \in Tickers, Q!Pages(list), pc # "finished", askedAt' \in Nat,
             UNCHANGED params
      PROVE  /\ cursor' \in Cursors /\ seen' \in [Market -> Nat] /\ DOMAIN steady' = Market
             /\ cursor' = Q!NoCursor /\ pc' # "finished" => seen' = [m \in Market |-> 0]
             /\ SteadyInv'
  <2>1. CASE Q!CursorExpired
    <3>1. pc' = "expired" /\ UNCHANGED <<cursor, seen, steady>>
      BY <1>1, <2>1 DEF Q!Pages
    <3> QED
      BY <1>1, <3>1 DEF PagesInv, SteadyInv, Shown, Behind, PlacedBy, Q!Before, Q!NoCursor
  <2>2. CASE ~Q!CursorExpired
    BY <1>1, <2>2, ShowsStep DEF Q!Pages
  <2> QED
    BY <2>1, <2>2
<1>2. ASSUME UNCHANGED <<params, cursor, seen, steady>>,
             pc # "finished" => pc' # "finished", pc = "finished" => pc' = "finished"
      PROVE  /\ params' \in Q!Params /\ cursor' \in Cursors /\ seen' \in [Market -> Nat]
             /\ DOMAIN steady' = Market
             /\ cursor' = Q!NoCursor /\ pc' # "finished" => seen' = [m \in Market |-> 0]
             /\ SteadyInv'
  BY <1>2 DEF PagesInv, SteadyInv, Shown, Behind, PlacedBy, Q!Before, Q!NoCursor
<1>3. CASE Q!AsksCached
  <2>1. /\ cache.rows \in Tickers /\ Q!Pages(cache.rows) /\ pc = "ready" /\ askedAt' = now
        /\ UNCHANGED <<now, listing, cache, params>>
    BY <1>3 DEF Q!AsksCached, Q!Cached, PagesInv
  <2>2. askedAt' \in Nat
    BY <2>1 DEF PagesInv
  <2> QED
    BY <1>1, <2>1, <2>2 DEF PagesInv
<1>4. CASE Q!AsksWaiting
  BY <1>2, <1>4 DEF Q!AsksWaiting, PagesInv
<1>5. CASE Q!OthersAsk
  BY <1>2, <1>5 DEF Q!OthersAsk, PagesInv
<1>6. CASE Q!LoadEnds
  <2>1. /\ cache' = [rows |-> listing, expiresAt |-> now + CacheTtl]
        /\ UNCHANGED <<now, listing, params>>
        /\ \/ pc = "waiting" /\ UNCHANGED askedAt /\ Q!Pages(listing)
           \/ UNCHANGED <<pc, cursor, askedAt, seen, steady>>
    BY <1>6 DEF Q!LoadEnds
  <2>2. /\ cursor' \in Cursors /\ seen' \in [Market -> Nat] /\ DOMAIN steady' = Market
        /\ cursor' = Q!NoCursor /\ pc' # "finished" => seen' = [m \in Market |-> 0]
        /\ SteadyInv' /\ askedAt' \in Nat
    BY <1>1, <1>2, <2>1 DEF PagesInv
  <2>3. cache'.rows \in Tickers /\ cache'.expiresAt \in Int
        /\ cache' = [rows |-> cache'.rows, expiresAt |-> cache'.expiresAt]
    BY <2>1 DEF PagesInv, Q!PagesAssumption
  <2> QED
    BY <2>1, <2>2, <2>3 DEF PagesInv
<1>7. CASE Q!LoadFails
  BY <1>2, <1>7 DEF Q!LoadFails, PagesInv
<1>8. CASE Q!AsksOtherwise
  BY <1>2, <1>8 DEF Q!AsksOtherwise, PagesInv
<1>9. CASE Q!Moves
  <2>1. listing' \in Tickers
    <3>1. PICK m \in Market, v \in Value \cup {Q!Unknown, Q!Absent} :
            listing' = [listing EXCEPT ![m] = v]
      BY <1>9 DEF Q!Moves
    <3>2. v \in Int
      BY DEF Q!PagesAssumption, Q!Unknown, Q!Absent
    <3> QED
      BY <3>1, <3>2 DEF PagesInv, Tickers
  <2> QED
    BY <1>2, <1>9, <2>1 DEF Q!Moves, PagesInv
<1>10. CASE Q!Tick
  <2>1. now' \in Nat /\ (cache'.expiresAt > now' => cache.expiresAt > now)
    BY <1>10 DEF Q!Tick, PagesInv
  <2> QED
    BY <1>2, <1>10, <2>1 DEF Q!Tick, PagesInv
<1> QED
  BY <1>3, <1>4, <1>5, <1>6, <1>7, <1>8, <1>9, <1>10 DEF Q!Next

(* A market that was the same in every list a reader's pages were cut from *)
(* is never on two of them and, at the end, was on one, whatever else      *)
(* moved, came or went, for any number of markets, values, ties among them *)
(* and pages of any size (paginateTickerItems).                            *)
THEOREM SteadyShownOnceHolds ==
  ASSUME Q!PagesAssumption
  PROVE  Q!Spec => []Q!SteadyShownOnce
<1>1. Q!Init => PagesInv
  <2> SUFFICES ASSUME Q!Init
               PROVE  PagesInv
    OBVIOUS
  <2>1. /\ now = 0 /\ askedAt = 0 /\ params \in Q!Params
        /\ cache = [rows |-> <<>>, expiresAt |-> -1]
        /\ cursor = [market |-> 0, value |-> -1, at |-> -1]
        /\ seen = [m \in Market |-> 0] /\ steady = [m \in Market |-> <<>>]
    BY DEF Q!Init, Q!Expired, Q!NoCursor, Q!Unknown
  <2>2. listing \in Tickers
    <3>1. Value \cup {Q!Unknown, Q!Absent} \subseteq Int
      BY DEF Q!PagesAssumption, Q!Unknown, Q!Absent
    <3> QED
      BY <3>1 DEF Q!Init, Tickers
  <2>3. cursor \in Cursors /\ SteadyInv
    BY <2>1 DEF Cursors, SteadyInv
  <2> QED
    BY <2>1, <2>2, <2>3 DEF PagesInv
<1>2. PagesInv /\ [Q!Next]_(Q!vars) => PagesInv'
  <2>1. ASSUME PagesInv, UNCHANGED Q!vars
        PROVE  PagesInv'
    BY <2>1 DEF PagesInv, SteadyInv, Shown, Behind, PlacedBy, Q!Before, Q!NoCursor, Q!vars
  <2> QED
    BY <2>1, PagesStep
<1>3. PagesInv => Q!SteadyShownOnce
  <2> SUFFICES ASSUME PagesInv, NEW m \in Market, steady[m] \notin {<<>>, <<Q!Absent>>},
                      params.searched => m \in Found
               PROVE  seen[m] <= 1 /\ (pc = "finished" => seen[m] = 1)
    BY DEF Q!SteadyShownOnce
  <2>1. PICK v \in Int :
          /\ steady[m] = <<v>>
          /\ Shown(m, v) => seen[m] \in {0, 1} /\ (pc = "finished" => seen[m] = 1)
    BY DEF PagesInv, SteadyInv
  <2>2. Shown(m, v)
    BY <2>1 DEF Shown
  <2> QED
    BY <2>1, <2>2
<1> QED
  BY <1>1, <1>2, <1>3, PTL DEF Q!Spec

-----------------------------------------------------------------------------
(* The lists of the exchange adapters (ExchangeTickers).                   *)
CONSTANTS Quote, Listing, Size, MaxAsked
VARIABLES exchange, value, request, quotes, quoting, rest, rows, missed

X == INSTANCE ExchangeTickers WITH listed <- quoting

IdOf(m)     == <<m.quote, "-">> \o m.base
RowFor(m)   == [id |-> IdOf(m), price |-> value[m]]
Tokens      == STRING \cup X!Separators
MarketRows  == {RowFor(m) : m \in Listing}
Spellings   == {X!Spelled(m) : m \in Listing}

(* What was asked for; what is still to come.                              *)
Wants(m) ==
  IF request.kind = "tickers" THEN m.quote = request.quote
  ELSE \E i \in DOMAIN request.asked : request.asked[i] = X!Spelled(m)
ToCome(m)    == m.quote \in quotes \/ X!Spelled(m) \in rest
Priceless(m) == request.kind = "prices" /\ exchange # "v1" /\ value[m] = 0

RequestOk ==
  /\ \/ request = X!NoRequest /\ rows = <<>> /\ answer = X!NoAnswer
     \/ request.kind = "tickers"
     \/ request.kind = "prices" /\ \A i \in DOMAIN request.asked : request.asked[i] \in Spellings
  /\ quotes \subseteq Quote /\ rest \subseteq Spellings
  /\ request = X!NoRequest => quotes = {} /\ rest = {} /\ quoting = "none"
  /\ request.kind = "tickers" =>
       quotes \subseteq {request.quote} /\ rest \subseteq X!Listed(request.quote)
  /\ request.kind = "prices" /\ exchange = "v1" =>
       quotes = {} /\ \A id \in rest : \E i \in DOMAIN request.asked : request.asked[i] = id
  /\ quoting = "none" => rest = {} \/ quotes = {}
  /\ \A m \in Listing : X!Spelled(m) \in rest => m.quote \notin quotes

RowsOk ==
  /\ rows \in Seq(MarketRows)
  /\ \A i \in DOMAIN rows : \E m \in Listing : Wants(m) /\ ~ToCome(m) /\ rows[i] = RowFor(m)
  /\ \A i, j \in DOMAIN rows : rows[i].id = rows[j].id => i = j
  /\ \A m \in Listing : Wants(m) =>
       \/ ToCome(m) \/ X!Spelled(m) \in missed \/ Priceless(m)
       \/ \E i \in DOMAIN rows : rows[i].id = IdOf(m)

RowsInv ==
  /\ RequestOk
  /\ request # X!NoRequest => RowsOk
  /\ answer.kind = "rows" => answer.rows = rows /\ quotes = {} /\ rest = {}
                             /\ request # X!NoRequest

LEMMA RowSizes == \A S : X!Cardinality(S) = Cardinality(S)
BY DEF X!Cardinality, X!IsFiniteSet, Cardinality, IsFiniteSet

LEMMA SequencesEqual ==
  ASSUME NEW A, NEW s \in Seq(A), NEW t \in Seq(A), Len(s) = Len(t),
         \A i \in 1..Len(s) : s[i] = t[i]
  PROVE  s = t
<1>1. s = [i \in 1..Len(s) |-> s[i]] /\ t = [i \in 1..Len(t) |-> t[i]]
  OBVIOUS
<1>2. [i \in 1..Len(s) |-> s[i]] = [i \in 1..Len(t) |-> t[i]]
  OBVIOUS
<1> QED
  BY <1>1, <1>2

LEMMA MarketFacts ==
  ASSUME X!ExchangeAssumption, NEW m \in Listing
  PROVE  /\ m = [base |-> m.base, quote |-> m.quote]
         /\ m.base \in Seq(Tokens) /\ Len(m.base) > 0 /\ m.quote \in Quote
         /\ m.quote \in Tokens /\ m.quote \notin X!Separators
         /\ \A i \in 1..Len(m.base) : m.base[i] \notin X!Separators
<1>1. m \in [base : Seq(STRING) \ {<<>>}, quote : Quote]
  BY DEF X!ExchangeAssumption
<1>2. m.base \in Seq(STRING) /\ m.base # <<>> /\ m.quote \in Quote
      /\ m = [base |-> m.base, quote |-> m.quote]
  BY <1>1
<1>3. Len(m.base) > 0
  BY <1>2
<1>4. m.quote \in Tokens /\ m.quote \notin X!Separators
  BY <1>2 DEF X!ExchangeAssumption, Tokens
<1>5. DOMAIN m.base = 1..Len(m.base)
  BY <1>2
<1>6. \A i \in 1..Len(m.base) : m.base[i] \notin X!Separators
  BY <1>5 DEF X!ExchangeAssumption
<1>7. m.base \in Seq(Tokens)
  BY <1>2 DEF Tokens
<1> QED
  BY <1>2, <1>3, <1>4, <1>6, <1>7

(* The id of a market, taken apart.                                        *)
LEMMA IdFacts ==
  ASSUME X!ExchangeAssumption, NEW m \in Listing
  PROVE  /\ IdOf(m) \in Seq(Tokens) /\ Len(IdOf(m)) = Len(m.base) + 2
         /\ IdOf(m)[1] = m.quote /\ IdOf(m)[2] = "-"
         /\ \A i \in 1..Len(m.base) : IdOf(m)[i + 2] = m.base[i]
<1>1. m.base \in Seq(Tokens) /\ m.quote \in Tokens
  BY MarketFacts
<1>2. <<m.quote, "-">> \in Seq(Tokens) /\ Len(<<m.quote, "-">>) = 2
      /\ <<m.quote, "-">>[1] = m.quote /\ <<m.quote, "-">>[2] = "-"
  <2>1. "-" \in Tokens
    BY DEF Tokens, X!Separators
  <2>2. <<m.quote, "-">> \in [1..2 -> Tokens]
    BY <1>1, <2>1
  <2> QED
    BY <2>2
<1>3. \A s, t \in Seq(Tokens) : /\ s \o t \in Seq(Tokens) /\ Len(s \o t) = Len(s) + Len(t)
                                /\ \A i \in 1..Len(s) : (s \o t)[i] = s[i]
                                /\ \A i \in 1..Len(t) : (s \o t)[i + Len(s)] = t[i]
  OBVIOUS
<1>4. Len(m.base) \in Nat /\ 1 \in 1..2 /\ 2 \in 1..2
  BY <1>1
<1> QED
  BY <1>1, <1>2, <1>3, <1>4 DEF IdOf

LEMMA IdsDiffer ==
  ASSUME X!ExchangeAssumption, NEW m \in Listing, NEW n \in Listing, IdOf(m) = IdOf(n)
  PROVE  m = n
<1>1. m.quote = n.quote /\ Len(m.base) = Len(n.base)
  <2>1. Len(m.base) \in Nat /\ Len(n.base) \in Nat
    BY MarketFacts
  <2> QED
    BY <2>1, IdFacts
<1>2. \A i \in 1..Len(m.base) : m.base[i] = n.base[i]
  BY <1>1, IdFacts
<1>3. m.base = n.base
  BY <1>1, <1>2, MarketFacts, SequencesEqual
<1> QED
  BY <1>1, <1>3, MarketFacts

LEMMA ParsedPair ==
  ASSUME X!ExchangeAssumption, NEW m \in Listing, exchange = "binance"
  PROVE  X!Parsed(X!Spelled(m)) = m
<1> DEFINE id == m.base \o <<m.quote>>
<1>1. m.base \in Seq(Tokens) /\ Len(m.base) \in Nat /\ Len(m.base) > 0 /\ m.quote \in Tokens
      /\ m.quote \in Quote
  BY MarketFacts
<1>2. /\ id \in Seq(Tokens) /\ Len(id) = Len(m.base) + 1 /\ id[Len(id)] = m.quote
      /\ \A i \in 1..Len(m.base) : id[i] = m.base[i]
  BY <1>1
<1>3. X!Spelled(m) = id
  BY DEF X!Spelled
<1> HIDE DEF id
<1>4. {i \in DOMAIN id : id[i] \in X!Separators} = {}
  <2> SUFFICES ASSUME NEW i \in 1..Len(id)
               PROVE  id[i] \notin X!Separators
    BY <1>2
  <2>1. i \in 1..Len(m.base) \/ i = Len(id)
    BY <1>1, <1>2
  <2> QED
    BY <1>2, <2>1, MarketFacts
<1>5. X!Last(id) = m.quote
  BY <1>2 DEF X!Last
<1>6. X!Front(id) = m.base
  <2>1. X!Front(id) = SubSeq(id, 1, Len(id) - 1)
    BY DEF X!Front
  <2>2. SubSeq(id, 1, Len(id) - 1) = SubSeq(id, 1, Len(m.base))
    BY <1>1, <1>2
  <2>3. /\ SubSeq(id, 1, Len(m.base)) \in Seq(Tokens)
        /\ Len(SubSeq(id, 1, Len(m.base))) = Len(m.base)
        /\ \A i \in 1..Len(m.base) : SubSeq(id, 1, Len(m.base))[i] = m.base[i]
    BY <1>1, <1>2
  <2> QED
    BY <1>1, <2>1, <2>2, <2>3, SequencesEqual
<1>7. X!Cardinality({}) # 1
  BY RowSizes, FS_EmptySet
<1>8. Len(id) > 1
  BY <1>1, <1>2
<1>9. X!Parsed(id) = [base |-> X!Front(id), quote |-> X!Last(id)]
  BY <1>1, <1>4, <1>5, <1>7, <1>8 DEF X!Parsed
<1> QED
  BY <1>3, <1>5, <1>6, <1>9, MarketFacts

LEMMA ParsedId ==
  ASSUME X!ExchangeAssumption, NEW m \in Listing
  PROVE  X!Parsed(IdOf(m)) = m
<1> DEFINE id == IdOf(m)
<1>1. m.base \in Seq(Tokens) /\ Len(m.base) \in Nat /\ Len(m.base) > 0 /\ m.quote \in Tokens
      /\ m.quote \in Quote
  BY MarketFacts
<1>2. /\ id \in Seq(Tokens) /\ Len(id) = Len(m.base) + 2 /\ id[1] = m.quote /\ id[2] = "-"
      /\ \A i \in 1..Len(m.base) : id[i + 2] = m.base[i]
  BY IdFacts
<1> HIDE DEF id
<1>3. {i \in DOMAIN id : id[i] \in X!Separators} = {2}
  <2>1. ASSUME NEW i \in 1..Len(id), i # 2
        PROVE  id[i] \notin X!Separators
    <3>1. CASE i = 1
      BY <1>2, <3>1, MarketFacts
    <3>2. CASE i # 1
      <4>1. i - 2 \in 1..Len(m.base) /\ i = (i - 2) + 2
        BY <1>1, <1>2, <2>1, <3>2
      <4>2. id[i] = m.base[i - 2]
        BY <1>2, <4>1
      <4> QED
        BY <4>1, <4>2, MarketFacts
    <3> QED
      BY <3>1, <3>2
  <2>2. "-" \in X!Separators /\ 2 \in 1..Len(id)
    BY <1>1, <1>2 DEF X!Separators
  <2> QED
    BY <1>2, <2>1, <2>2
<1>4. X!Cardinality({2}) = 1 /\ (CHOOSE i \in {2} : TRUE) = 2
  BY RowSizes, FS_Singleton
<1>5. SubSeq(id, 1, 1) = <<m.quote>>
  <2>1. SubSeq(id, 1, 1) \in Seq(Tokens) /\ Len(SubSeq(id, 1, 1)) = 1
        /\ SubSeq(id, 1, 1)[1] = m.quote
    BY <1>1, <1>2
  <2>2. <<m.quote>> \in Seq(Tokens) /\ Len(<<m.quote>>) = 1 /\ <<m.quote>>[1] = m.quote
    BY <1>1
  <2>3. \A i \in 1..1 : SubSeq(id, 1, 1)[i] = <<m.quote>>[i]
    BY <2>1, <2>2
  <2> QED
    BY <2>1, <2>2, <2>3, SequencesEqual
<1>6. SubSeq(id, 3, Len(id)) = m.base
  <2>1. /\ SubSeq(id, 3, Len(id)) \in Seq(Tokens)
        /\ Len(SubSeq(id, 3, Len(id))) = Len(m.base)
    BY <1>1, <1>2
  <2>2. \A i \in 1..Len(m.base) : SubSeq(id, 3, Len(id))[i] = id[i + 2]
    BY <1>1, <1>2
  <2>3. \A i \in 1..Len(m.base) : SubSeq(id, 3, Len(id))[i] = m.base[i]
    BY <1>2, <2>2
  <2> QED
    BY <1>1, <2>1, <2>3, SequencesEqual
<1>7. X!Parsed(id) = [base |-> SubSeq(id, 3, Len(id)), quote |-> m.quote]
  <2> DEFINE at == {i \in DOMAIN id : id[i] \in X!Separators}
             sep == CHOOSE i \in at : TRUE
  <2>1. at = {2} /\ sep = 2 /\ X!Cardinality(at) = 1
    BY <1>3, <1>4
  <2>2. SubSeq(id, 1, sep - 1) = <<m.quote>> /\ SubSeq(id, sep + 1, Len(id)) = SubSeq(id, 3, Len(id))
    <3>1. sep - 1 = 1 /\ sep + 1 = 3
      BY <2>1
    <3> QED
      BY <1>5, <3>1
  <2>3. <<m.quote>> \in {<<q>> : q \in Quote}
    BY <1>1
  <2>4. id[sep] = "-"
    BY <1>2, <2>1
  <2>5. <<m.quote>>[1] = m.quote
    OBVIOUS
  <2>6. X!Parsed(id) = [base |-> SubSeq(id, sep + 1, Len(id)), quote |-> SubSeq(id, 1, sep - 1)[1]]
    BY <2>1, <2>2, <2>3, <2>4 DEF X!Parsed
  <2> QED
    BY <2>2, <2>5, <2>6
<1> QED
  BY <1>6, <1>7, MarketFacts DEF id

(* Every spelling is parsed back to its market, whatever exchange's it is. *)
LEMMA ParsedBack ==
  ASSUME X!ExchangeAssumption, NEW m \in Listing
  PROVE  /\ X!Parsed(X!Spelled(m)) = m
         /\ X!Canonical(X!Spelled(m), m.quote) = IdOf(m)
<1>1. X!Parsed(X!Spelled(m)) = m
  <2>1. CASE exchange = "binance"
    BY <2>1, ParsedPair
  <2>2. CASE exchange # "binance"
    <3>1. X!Spelled(m) = IdOf(m)
      BY <2>2 DEF X!Spelled, IdOf
    <3> QED
      BY <3>1, ParsedId
  <2> QED
    BY <2>1, <2>2
<1>2. m.quote # "none"
  BY MarketFacts DEF X!ExchangeAssumption
<1> QED
  BY <1>1, <1>2 DEF X!Canonical, IdOf

LEMMA SpellingsDiffer ==
  ASSUME X!ExchangeAssumption, NEW m \in Listing, NEW n \in Listing,
         X!Spelled(m) = X!Spelled(n)
  PROVE  m = n
BY ParsedBack

(* A set that is put into a sequence.                                      *)
LEMMA Enumerated ==
  ASSUME NEW A, IsFiniteSet(A)
  PROVE  /\ Cardinality(A) \in Nat /\ DOMAIN X!SetToSeq(A) = 1..Cardinality(A)
         /\ X!SetToSeq(A) \in [1..Cardinality(A) -> A]
         /\ \A i, j \in 1..Cardinality(A) : X!SetToSeq(A)[i] = X!SetToSeq(A)[j] => i = j
         /\ \A id \in A : \E i \in 1..Cardinality(A) : X!SetToSeq(A)[i] = id
<1> DEFINE n == Cardinality(A)  s == X!SetToSeq(A)
<1>1. n \in Nat /\ ExistsBijection(1..n, A)
  BY FS_CardinalityType
<1>2. s = CHOOSE f \in [1..n -> A] : X!IsInjective(f)
  BY RowSizes DEF X!SetToSeq
<1>3. \E f \in [1..n -> A] : X!IsInjective(f)
  BY <1>1 DEF ExistsBijection, Bijection, Injection, IsInjective, X!IsInjective
<1>4. s \in [1..n -> A] /\ X!IsInjective(s)
  BY <1>2, <1>3
<1> HIDE DEF s
<1>5. s \in Injection(1..n, A)
  BY <1>4 DEF Injection, IsInjective, X!IsInjective
<1>6. IsFiniteSet(1..n) /\ Cardinality(1..n) = n
  BY <1>1, FS_Interval
<1>7. s \in Surjection(1..n, A)
  BY <1>5, <1>6, FS_Injection
<1>8. \A i, j \in 1..n : s[i] = s[j] => i = j
  BY <1>4 DEF X!IsInjective
<1>9. \A id \in A : \E i \in 1..n : s[i] = id
  BY <1>7 DEF Surjection
<1> QED
  BY <1>1, <1>4, <1>8, <1>9 DEF s

(* The row of a market, when its ticker comes.                             *)
LEMMA RowOfFacts ==
  ASSUME X!ExchangeAssumption, RequestOk, request # X!NoRequest,
         NEW m \in Listing, X!Spelled(m) \in rest
  PROVE  /\ X!RowOf(X!Spelled(m)) = RowFor(m)
         /\ X!Wanted(X!Spelled(m)) => Wants(m)
         /\ ~X!Wanted(X!Spelled(m)) /\ Wants(m) => Priceless(m)
<1>1. (CHOOSE y \in Listing : X!Spelled(y) = X!Spelled(m)) = m
  BY SpellingsDiffer
<1>2. X!Parsed(X!Spelled(m)) = m
  BY ParsedBack
<1>3. request.kind = "tickers" => m.quote = request.quote
  <2> SUFFICES ASSUME request.kind = "tickers"
               PROVE  m.quote = request.quote
    OBVIOUS
  <2>1. X!Spelled(m) \in X!Listed(request.quote)
    BY DEF RequestOk
  <2>2. PICK y \in Listing : y.quote = request.quote /\ X!Spelled(y) = X!Spelled(m)
    BY <2>1 DEF X!Listed
  <2> QED
    BY <2>2, SpellingsDiffer
<1>4. X!RowOf(X!Spelled(m)) = RowFor(m)
  <2> DEFINE quote == IF request.kind = "tickers" THEN request.quote
                      ELSE X!Parsed(X!Spelled(m)).quote
  <2>1. X!RowOf(X!Spelled(m)) = [id |-> X!Canonical(X!Spelled(m), quote), price |-> value[m]]
    BY <1>1 DEF X!RowOf
  <2>2. quote = m.quote
    BY <1>2, <1>3
  <2> QED
    BY <2>1, <2>2, ParsedBack DEF RowFor
<1>5. ASSUME request.kind # "tickers"
      PROVE  /\ request.kind = "prices"
             /\ \A i \in DOMAIN request.asked : request.asked[i] \in Spellings
             /\ \A i \in DOMAIN request.asked :
                  X!Parsed(request.asked[i]) = m <=> request.asked[i] = X!Spelled(m)
  <2>1. request.kind = "prices" /\ \A i \in DOMAIN request.asked : request.asked[i] \in Spellings
    BY <1>5 DEF RequestOk
  <2>2. ASSUME NEW i \in DOMAIN request.asked
        PROVE  X!Parsed(request.asked[i]) = m <=> request.asked[i] = X!Spelled(m)
    <3>1. PICK y \in Listing : request.asked[i] = X!Spelled(y)
      BY <2>1 DEF Spellings
    <3>2. X!Parsed(request.asked[i]) = y
      BY <3>1, ParsedBack
    <3> QED
      BY <1>2, <3>1, <3>2
  <2> QED
    BY <2>1, <2>2
<1>6. RowFor(m).price = value[m]
  BY DEF RowFor
<1>7. CASE request.kind = "tickers"
  BY <1>3, <1>4, <1>7 DEF X!Wanted, Wants
<1>8. CASE request.kind # "tickers" /\ exchange = "v1"
  BY <1>4, <1>5, <1>8 DEF X!Wanted, Wants, RequestOk
<1>9. CASE request.kind # "tickers" /\ exchange # "v1"
  BY <1>2, <1>4, <1>5, <1>6, <1>9 DEF X!Wanted, Wants, Priceless
<1> QED
  BY <1>4, <1>7, <1>8, <1>9

LEMMA RestFinite ==
  ASSUME X!ExchangeAssumption, RequestOk
  PROVE  IsFiniteSet(rest)
<1>1. IsFiniteSet(Listing)
  BY DEF X!ExchangeAssumption, X!IsFiniteSet, IsFiniteSet
<1>2. IsFiniteSet(Spellings)
  <2> DEFINE f == [m \in Listing |-> X!Spelled(m)]
  <2>1. f \in Surjection(Listing, Spellings)
    BY DEF Surjection, Spellings
  <2> QED
    BY <1>1, <2>1, FS_Surjection
<1> QED
  BY <1>2, FS_Subset DEF RequestOk

(* The tickers of a chunk become the rows of its markets, none of which    *)
(* was there before.                                                       *)
LEMMA ArrivesRows ==
  ASSUME X!ExchangeAssumption, RequestOk, RowsOk, request # X!NoRequest,
         NEW ids, ids \subseteq rest, X!Arrives(ids)
  PROVE  RequestOk' /\ RowsOk'
<1>1. PICK sent \in SUBSET ids :
        /\ rows' = rows \o [i \in DOMAIN X!SetToSeq({id \in sent : X!Wanted(id)}) |->
                              X!RowOf(X!SetToSeq({id \in sent : X!Wanted(id)})[i])]
        /\ missed' = missed \cup (ids \ sent)
  BY DEF X!Arrives
<1>2. rest' = rest \ ids /\ UNCHANGED <<exchange, value, request, quotes, quoting, answer>>
  BY DEF X!Arrives
<1> DEFINE K == {id \in sent : X!Wanted(id)}
           kept == X!SetToSeq(K)
           n == Cardinality(K)
           new == [i \in 1..n |-> X!RowOf(kept[i])]
<1>3. IsFiniteSet(K)
  <2>1. K \subseteq rest
    OBVIOUS
  <2> QED
    BY <2>1, RestFinite, FS_Subset
<1>4. /\ n \in Nat /\ DOMAIN kept = 1..n /\ kept \in [1..n -> K]
      /\ \A i, j \in 1..n : kept[i] = kept[j] => i = j
      /\ \A id \in K : \E i \in 1..n : kept[i] = id
  BY <1>3, Enumerated
<1>5. rows' = rows \o new
  BY <1>1, <1>4
<1>6. \A id \in rest : \E m \in Listing : id = X!Spelled(m)
  BY DEF RequestOk, Spellings
<1> HIDE DEF kept, n
<1>7. ASSUME NEW i \in 1..n
      PROVE  \E m \in Listing : /\ kept[i] = X!Spelled(m) /\ X!Spelled(m) \in ids
                               /\ new[i] = RowFor(m) /\ Wants(m)
  <2>1. kept[i] \in K /\ kept[i] \in rest /\ kept[i] \in ids
    BY <1>4
  <2>2. PICK m \in Listing : kept[i] = X!Spelled(m)
    BY <1>6, <2>1
  <2>3. X!RowOf(X!Spelled(m)) = RowFor(m) /\ Wants(m)
    BY <2>1, <2>2, RowOfFacts
  <2> QED
    BY <2>1, <2>2, <2>3
<1>8. new \in Seq(MarketRows) /\ Len(new) = n
  <2>1. new \in [1..n -> MarketRows]
    BY <1>7 DEF MarketRows
  <2> QED
    BY <1>4, <2>1
<1> HIDE DEF new, K
<1>9. /\ rows' \in Seq(MarketRows) /\ Len(rows') = Len(rows) + n /\ Len(rows) \in Nat
      /\ \A i \in 1..Len(rows) : rows'[i] = rows[i]
      /\ \A i \in 1..n : rows'[Len(rows) + i] = new[i]
  <2>1. rows \in Seq(MarketRows) /\ new \in Seq(MarketRows) /\ Len(new) = n /\ n \in Nat
    BY <1>4, <1>8 DEF RowsOk
  <2>2. /\ rows \o new \in Seq(MarketRows) /\ Len(rows \o new) = Len(rows) + n /\ Len(rows) \in Nat
        /\ \A i \in 1..Len(rows) : (rows \o new)[i] = rows[i]
        /\ \A i \in 1..n : (rows \o new)[Len(rows) + i] = new[i]
    BY <2>1
  <2> QED
    BY <1>5, <2>2
<1>10. \A m \in Listing : /\ Wants(m)' = Wants(m) /\ RowFor(m)' = RowFor(m)
                          /\ X!Spelled(m)' = X!Spelled(m) /\ Priceless(m)' = Priceless(m)
                          /\ (ToCome(m)' <=> ToCome(m) /\ X!Spelled(m) \notin ids)
  <2>1. \A m \in Listing : X!Spelled(m)' = X!Spelled(m)
    BY <1>2 DEF X!Spelled
  <2>2. \A m \in Listing : X!Spelled(m) \in rest => m.quote \notin quotes
    BY DEF RequestOk
  <2> QED
    BY <1>2, <2>1, <2>2 DEF Wants, RowFor, Priceless, ToCome
<1>11. RequestOk'
  <2>1. Spellings' = Spellings /\ \A q : X!Listed(q)' = X!Listed(q)
    BY <1>2 DEF Spellings, X!Listed, X!Spelled
  <2>2. rest' \subseteq rest
    BY <1>2
  <2>3. request' = request /\ request # X!NoRequest
    BY <1>2
  <2> QED
    BY <1>2, <1>10, <2>1, <2>2, <2>3 DEF RequestOk, X!NoRequest
<1>12. ASSUME NEW i \in DOMAIN rows'
       PROVE  \/ i \in 1..Len(rows) /\ rows'[i] = rows[i]
              \/ i - Len(rows) \in 1..n /\ rows'[i] = new[i - Len(rows)]
  <2>1. i \in 1..(Len(rows) + n)
    BY <1>9
  <2>2. CASE i \in 1..Len(rows)
    BY <1>9, <2>2
  <2>3. CASE i \notin 1..Len(rows)
    <3>1. i - Len(rows) \in 1..n /\ i = Len(rows) + (i - Len(rows))
      BY <1>4, <1>9, <2>1, <2>3
    <3> QED
      BY <1>9, <3>1
  <2> QED
    BY <2>2, <2>3
<1>13. \A i \in 1..Len(rows) : \E m \in Listing : Wants(m) /\ ~ToCome(m) /\ rows[i] = RowFor(m)
  BY <1>9 DEF RowsOk
<1>14. ASSUME NEW i \in DOMAIN rows'
       PROVE  \E m \in Listing : Wants(m)' /\ ~ToCome(m)' /\ rows'[i] = RowFor(m)'
  <2>1. CASE i \in 1..Len(rows) /\ rows'[i] = rows[i]
    BY <1>10, <1>13, <2>1
  <2>2. CASE i - Len(rows) \in 1..n /\ rows'[i] = new[i - Len(rows)]
    <3>1. PICK m \in Listing : /\ X!Spelled(m) \in ids /\ Wants(m)
                               /\ new[i - Len(rows)] = RowFor(m)
      BY <1>7, <2>2
    <3> QED
      BY <1>10, <2>2, <3>1
  <2> QED
    BY <1>12, <2>1, <2>2
<1>15. \A m : RowFor(m).id = IdOf(m)
  BY DEF RowFor
<1>16. ASSUME NEW i \in 1..Len(rows), NEW j \in 1..n
       PROVE  rows[i].id # new[j].id
  <2>1. PICK m \in Listing : ~ToCome(m) /\ rows[i] = RowFor(m)
    BY <1>13
  <2>2. PICK k \in Listing : X!Spelled(k) \in ids /\ new[j] = RowFor(k)
    BY <1>7
  <2>3. m # k
    BY <2>1, <2>2 DEF ToCome
  <2> QED
    BY <1>15, <2>1, <2>2, <2>3, IdsDiffer
<1>17. ASSUME NEW i \in 1..n, NEW j \in 1..n, new[i].id = new[j].id
       PROVE  i = j
  <2>1. PICK m \in Listing : kept[i] = X!Spelled(m) /\ new[i] = RowFor(m)
    BY <1>7
  <2>2. PICK k \in Listing : kept[j] = X!Spelled(k) /\ new[j] = RowFor(k)
    BY <1>7
  <2>3. m = k
    BY <1>15, <1>17, <2>1, <2>2, IdsDiffer
  <2> QED
    BY <1>4, <2>1, <2>2, <2>3
<1>18. ASSUME NEW i \in DOMAIN rows', NEW j \in DOMAIN rows', rows'[i].id = rows'[j].id
       PROVE  i = j
  <2>1. CASE i \in 1..Len(rows) /\ j \in 1..Len(rows)
    <3>1. rows'[i] = rows[i] /\ rows'[j] = rows[j]
      BY <1>9, <2>1
    <3>2. i \in DOMAIN rows /\ j \in DOMAIN rows
      BY <2>1 DEF RowsOk
    <3> QED
      BY <1>18, <3>1, <3>2 DEF RowsOk
  <2>2. CASE i \notin 1..Len(rows) /\ j \notin 1..Len(rows)
    <3>1. i - Len(rows) = j - Len(rows)
      BY <1>12, <1>17, <1>18, <2>2
    <3>2. i \in Int /\ j \in Int
      BY <1>9
    <3> QED
      BY <1>9, <3>1, <3>2
  <2>3. CASE i \in 1..Len(rows) /\ j \notin 1..Len(rows)
    BY <1>9, <1>12, <1>16, <1>18, <2>3
  <2>4. CASE i \notin 1..Len(rows) /\ j \in 1..Len(rows)
    BY <1>9, <1>12, <1>16, <1>18, <2>4
  <2> QED
    BY <2>1, <2>2, <2>3, <2>4
<1>19. ASSUME NEW m \in Listing, Wants(m)
       PROVE  \/ ToCome(m)' \/ X!Spelled(m) \in missed' \/ Priceless(m)
              \/ \E i \in DOMAIN rows' : rows'[i].id = IdOf(m)
  <2>1. CASE ToCome(m) /\ X!Spelled(m) \notin ids
    BY <1>10, <2>1
  <2>2. CASE X!Spelled(m) \in ids \ sent
    BY <1>1, <2>2
  <2>3. CASE X!Spelled(m) \in sent /\ ~X!Wanted(X!Spelled(m))
    <3>1. X!Spelled(m) \in rest
      BY <2>3
    <3> QED
      BY <1>19, <2>3, <3>1, RowOfFacts
  <2>4. CASE X!Spelled(m) \in sent /\ X!Wanted(X!Spelled(m))
    <3>1. X!Spelled(m) \in K
      BY <2>4 DEF K
    <3>2. PICK i \in 1..n : kept[i] = X!Spelled(m)
      BY <1>4, <3>1
    <3>3. PICK k \in Listing : kept[i] = X!Spelled(k) /\ new[i] = RowFor(k)
      BY <1>7
    <3>4. k = m
      BY <3>2, <3>3, SpellingsDiffer
    <3>5. Len(rows) + i \in DOMAIN rows' /\ rows'[Len(rows) + i] = RowFor(m)
      BY <1>4, <1>9, <3>3, <3>4
    <3> QED
      BY <1>15, <3>5
  <2>5. CASE ~ToCome(m) /\ X!Spelled(m) \notin ids
    <3>1. \/ X!Spelled(m) \in missed \/ Priceless(m)
          \/ \E i \in DOMAIN rows : rows[i].id = IdOf(m)
      BY <1>19, <2>5 DEF RowsOk
    <3>2. \A i \in DOMAIN rows : i \in DOMAIN rows' /\ rows'[i] = rows[i]
      BY <1>4, <1>9 DEF RowsOk
    <3> QED
      BY <1>1, <3>1, <3>2
  <2> QED
    BY <2>1, <2>2, <2>3, <2>4, <2>5
<1>20. MarketRows' = MarketRows
  BY <1>10 DEF MarketRows
<1>21. RowsOk'
  BY <1>9, <1>10, <1>14, <1>18, <1>19, <1>20 DEF RowsOk
<1> QED
  BY <1>11, <1>21

LEMMA AsksRows ==
  ASSUME X!ExchangeAssumption, RowsInv, X!AsksTickers \/ X!AsksPrices
  PROVE  RowsInv'
<1>1. /\ request = X!NoRequest /\ rows = <<>> /\ answer = X!NoAnswer /\ quoting = "none"
      /\ UNCHANGED <<exchange, value, quoting, rows, missed, answer>>
  <2>1. request = X!NoRequest /\ UNCHANGED <<exchange, value, quoting, rows, missed, answer>>
    BY DEF X!AsksTickers, X!AsksPrices, X!Begins
  <2> QED
    BY <2>1 DEF RowsInv, RequestOk, X!NoRequest
<1>2. \A m : X!Spelled(m)' = X!Spelled(m) /\ X!Parsed(X!Spelled(m))' = X!Parsed(X!Spelled(m))
  BY <1>1 DEF X!Spelled, X!Parsed
<1>3. Spellings' = Spellings /\ \A q : X!Listed(q)' = X!Listed(q)
  BY <1>2 DEF Spellings, X!Listed
<1>4. answer'.kind # "rows"
  BY <1>1 DEF X!NoAnswer
<1>5. CASE X!AsksTickers
  <2>1. PICK q \in Quote : request' = [X!NoRequest EXCEPT !.kind = "tickers", !.quote = q]
                           /\ quotes' = {q} /\ rest' = {}
    BY <1>5 DEF X!AsksTickers, X!Begins
  <2>2. request'.kind = "tickers" /\ request'.quote = q /\ request' # X!NoRequest
    BY <2>1 DEF X!NoRequest
  <2>3. RequestOk'
    BY <1>1, <2>1, <2>2 DEF RequestOk
  <2>4. RowsOk'
    BY <1>1, <2>1, <2>2 DEF RowsOk, Wants, ToCome
  <2> QED
    BY <1>4, <2>3, <2>4 DEF RowsInv
<1>6. CASE X!AsksPrices
  <2>a. PICK n \in 1..MaxAsked : \E asked \in [1..n -> Spellings] :
          /\ request' = [X!NoRequest EXCEPT !.kind = "prices", !.asked = asked]
          /\ quotes' = IF exchange = "v1" THEN {} ELSE {X!Parsed(asked[i]).quote : i \in DOMAIN asked}
          /\ rest' = IF exchange = "v1" THEN {asked[i] : i \in DOMAIN asked} ELSE {}
    BY <1>6 DEF X!AsksPrices, X!Begins, Spellings
  <2>1. PICK asked \in [1..n -> Spellings] :
          /\ request' = [X!NoRequest EXCEPT !.kind = "prices", !.asked = asked]
          /\ quotes' = IF exchange = "v1" THEN {} ELSE {X!Parsed(asked[i]).quote : i \in DOMAIN asked}
          /\ rest' = IF exchange = "v1" THEN {asked[i] : i \in DOMAIN asked} ELSE {}
    BY <2>a
  <2>2. request'.kind = "prices" /\ request'.asked = asked /\ request' # X!NoRequest
    BY <2>1 DEF X!NoRequest
  <2>3. \A i \in DOMAIN asked : asked[i] \in Spellings
    BY <2>1
  <2>4. \A i \in DOMAIN asked : \A m \in Listing : asked[i] = X!Spelled(m)
                                  => X!Parsed(asked[i]).quote = m.quote
    BY ParsedBack
  <2>5. \A i \in DOMAIN asked : X!Parsed(asked[i]).quote \in Quote
    <3> SUFFICES ASSUME NEW i \in DOMAIN asked
                 PROVE  X!Parsed(asked[i]).quote \in Quote
      OBVIOUS
    <3>1. PICK m \in Listing : asked[i] = X!Spelled(m)
      BY <2>3 DEF Spellings
    <3> QED
      BY <2>4, <3>1, MarketFacts
  <2>6. RequestOk'
    <3>1. quotes' \subseteq Quote /\ rest' \subseteq Spellings /\ (quotes' = {} \/ rest' = {})
      BY <2>1, <2>3, <2>5
    <3>2. exchange = "v1" => quotes' = {} /\ \A id \in rest' : \E i \in DOMAIN asked : asked[i] = id
      BY <2>1
    <3> QED
      BY <1>1, <1>3, <2>2, <2>3, <3>1, <3>2 DEF RequestOk
  <2>7. \A m \in Listing : Wants(m)' => ToCome(m)'
    <3> SUFFICES ASSUME NEW m \in Listing, NEW i \in DOMAIN asked, asked[i] = X!Spelled(m)
                 PROVE  ToCome(m)'
      BY <1>2, <2>2 DEF Wants
    <3> QED
      BY <1>2, <2>1, <2>4 DEF ToCome
  <2>8. RowsOk'
    BY <1>1, <2>7 DEF RowsOk
  <2> QED
    BY <1>4, <2>6, <2>8 DEF RowsInv
<1> QED
  BY <1>5, <1>6

(* A list of markets takes the place of its quote currency.                *)
LEMMA ListsRows ==
  ASSUME X!ExchangeAssumption, RowsInv, X!Running, quoting = "none", NEW q \in quotes,
         quotes' = quotes \ {q}, quoting' = q, rest' = X!Listed(q),
         UNCHANGED <<exchange, value, request, rows, missed, answer>>
  PROVE  RowsInv'
<1>1. request # X!NoRequest /\ answer = X!NoAnswer /\ RequestOk /\ RowsOk /\ rest = {}
      /\ q \in Quote /\ q # "none"
  BY DEF X!Running, RowsInv, RequestOk, X!ExchangeAssumption
<1>2. \A m : X!Spelled(m)' = X!Spelled(m)
  BY DEF X!Spelled
<1>3. Spellings' = Spellings /\ \A p : X!Listed(p)' = X!Listed(p)
  BY <1>2 DEF Spellings, X!Listed
<1>4. \A m \in Listing : X!Spelled(m) \in rest' <=> m.quote = q
  BY SpellingsDiffer DEF X!Listed
<1>5. rest' \subseteq Spellings
  BY DEF X!Listed, Spellings
<1>6. RequestOk'
  <2>1. /\ request' = request /\ request # X!NoRequest
        /\ request.kind = "tickers" => q = request.quote
        /\ ~(request.kind = "prices" /\ exchange = "v1")
    BY <1>1 DEF RequestOk
  <2>2. \A m \in Listing : X!Spelled(m) \in rest' => m.quote \notin quotes'
    BY <1>4
  <2>3. X!NoRequest' = X!NoRequest
    BY DEF X!NoRequest
  <2> QED
    BY <1>1, <1>2, <1>3, <1>5, <2>1, <2>2, <2>3 DEF RequestOk
<1>7. \A m \in Listing : ToCome(m)' = ToCome(m)
  BY <1>1, <1>2, <1>4 DEF ToCome
<1>8. RowsOk'
  <2>1. \A m \in Listing : Wants(m)' = Wants(m) /\ RowFor(m)' = RowFor(m) /\ Priceless(m)' = Priceless(m)
    BY <1>2 DEF Wants, RowFor, Priceless
  <2>2. MarketRows' = MarketRows
    BY DEF MarketRows, RowFor
  <2> QED
    BY <1>1, <1>2, <1>7, <2>1, <2>2 DEF RowsOk
<1> QED
  BY <1>1, <1>6, <1>8 DEF RowsInv, X!NoAnswer

LEMMA MissedRows ==
  ASSUME X!ExchangeAssumption, RequestOk, RowsOk, request # X!NoRequest,
         NEW ids, ids \subseteq rest, missed' = missed \cup ids, rest' = rest \ ids,
         UNCHANGED <<exchange, value, request, quotes, quoting, rows, answer>>
  PROVE  RequestOk' /\ RowsOk'
<1>1. \A m : X!Spelled(m)' = X!Spelled(m)
  BY DEF X!Spelled
<1>2. Spellings' = Spellings /\ (\A p : X!Listed(p)' = X!Listed(p)) /\ X!NoRequest' = X!NoRequest
  BY <1>1 DEF Spellings, X!Listed, X!NoRequest
<1>3. RequestOk'
  BY <1>1, <1>2 DEF RequestOk
<1>4. \A m \in Listing : /\ (Wants(m)' <=> Wants(m)) /\ RowFor(m)' = RowFor(m)
                         /\ (Priceless(m)' <=> Priceless(m))
                         /\ (ToCome(m)' => ToCome(m))
                         /\ (ToCome(m) => ToCome(m)' \/ X!Spelled(m) \in missed')
  BY <1>1 DEF Wants, RowFor, Priceless, ToCome
<1>5. MarketRows' = MarketRows
  BY DEF MarketRows, RowFor
<1>6. RowsOk'
  <2>1. rows' \in Seq(MarketRows)' /\ DOMAIN rows' = DOMAIN rows
    BY <1>5 DEF RowsOk
  <2>2. ASSUME NEW i \in DOMAIN rows
        PROVE  \E m \in Listing : Wants(m)' /\ ~ToCome(m)' /\ rows'[i] = RowFor(m)'
    <3>1. PICK m \in Listing : Wants(m) /\ ~ToCome(m) /\ rows[i] = RowFor(m)
      BY DEF RowsOk
    <3> QED
      BY <1>4, <3>1
  <2>3. \A m \in Listing : Wants(m)' =>
          \/ ToCome(m)' \/ X!Spelled(m)' \in missed' \/ Priceless(m)'
          \/ \E i \in DOMAIN rows' : rows'[i].id = IdOf(m)
    <3> SUFFICES ASSUME NEW m \in Listing, Wants(m)'
                 PROVE  \/ ToCome(m)' \/ X!Spelled(m)' \in missed' \/ Priceless(m)'
                        \/ \E i \in DOMAIN rows' : rows'[i].id = IdOf(m)
      OBVIOUS
    <3>1. Wants(m)
      BY <1>4
    <3>2. \/ ToCome(m) \/ X!Spelled(m) \in missed \/ Priceless(m)
          \/ \E i \in DOMAIN rows : rows[i].id = IdOf(m)
      BY <3>1 DEF RowsOk
    <3>3. X!Spelled(m)' = X!Spelled(m) /\ (Priceless(m) => Priceless(m)')
          /\ (ToCome(m) => ToCome(m)' \/ X!Spelled(m)' \in missed')
      BY <1>1, <1>4
    <3> QED
      BY <3>2, <3>3
  <2> QED
    BY <2>1, <2>2, <2>3 DEF RowsOk
<1> QED
  BY <1>3, <1>6

LEMMA FrameRows ==
  ASSUME RowsInv, UNCHANGED <<exchange, value, request, quotes, rest, rows, missed>>,
         quoting' = quoting \/ rest = {},
         request = X!NoRequest => UNCHANGED <<quoting, answer>>,
         answer'.kind = "rows" => \/ answer' = answer
                                  \/ /\ answer'.rows = rows /\ quotes = {} /\ rest = {}
                                     /\ request # X!NoRequest
  PROVE  RowsInv'
<1>1. \A m : X!Spelled(m)' = X!Spelled(m)
  BY DEF X!Spelled
<1>2. Spellings' = Spellings /\ (\A p : X!Listed(p)' = X!Listed(p)) /\ X!NoRequest' = X!NoRequest
      /\ X!NoAnswer' = X!NoAnswer
  BY <1>1 DEF Spellings, X!Listed, X!NoRequest, X!NoAnswer
<1>3. RequestOk'
  BY <1>1, <1>2 DEF RowsInv, RequestOk
<1>4. \A m \in Listing : /\ Wants(m)' = Wants(m) /\ RowFor(m)' = RowFor(m)
                         /\ Priceless(m)' = Priceless(m) /\ ToCome(m)' = ToCome(m)
  BY <1>1 DEF Wants, RowFor, Priceless, ToCome
<1>5. RowsOk => RowsOk'
  <2>1. MarketRows' = MarketRows
    BY DEF MarketRows, RowFor
  <2> QED
    BY <1>1, <1>4, <2>1 DEF RowsOk
<1> QED
  BY <1>2, <1>3, <1>5 DEF RowsInv

LEMMA RowsStep ==
  ASSUME X!ExchangeAssumption, RowsInv, [X!Next]_(X!vars)
  PROVE  RowsInv'
<1>1. ASSUME X!Running, X!Fails
      PROVE  RowsInv'
  BY <1>1, FrameRows DEF X!Running, X!Fails
<1>2. ASSUME X!Running, NEW ids, ids \subseteq rest, X!Arrives(ids)
      PROVE  RowsInv'
  <2>1. RequestOk' /\ RowsOk'
    BY <1>2, ArrivesRows DEF X!Running, RowsInv
  <2> QED
    BY <1>2, <2>1 DEF RowsInv, X!Arrives, X!Running, X!NoAnswer
<1>3. CASE X!ListsMarkets
  BY <1>1, <1>3, ListsRows DEF X!ListsMarkets
<1>4. CASE X!ListEnds
  BY <1>1, <1>4, FrameRows DEF X!ListEnds, X!Running
<1>5. \A ids \in X!Chunk : ids \subseteq rest
  BY DEF X!Chunk
<1>6. CASE X!V1TickerChunk
  <2>1. X!Running /\ request # X!NoRequest /\ answer = X!NoAnswer /\ RequestOk /\ RowsOk
    BY <1>6 DEF X!V1TickerChunk, X!Asking, X!Running, RowsInv
  <2>2. PICK ids \in X!Chunk :
          \/ X!Arrives(ids)
          \/ /\ missed' = missed \cup ids /\ rest' = rest \ ids
             /\ UNCHANGED <<exchange, value, request, quotes, quoting, rows, answer>>
    BY <1>6 DEF X!V1TickerChunk
  <2>3. ASSUME missed' = missed \cup ids, rest' = rest \ ids,
               UNCHANGED <<exchange, value, request, quotes, quoting, rows, answer>>
        PROVE  RowsInv'
    <3>1. RequestOk' /\ RowsOk'
      BY <1>5, <2>1, <2>3, MissedRows
    <3> QED
      BY <2>1, <2>3, <3>1 DEF RowsInv, X!NoAnswer
  <2> QED
    BY <1>2, <1>5, <2>1, <2>2, <2>3
<1>7. CASE X!V1PriceChunk \/ X!BinanceChunk
  BY <1>1, <1>2, <1>5, <1>7 DEF X!V1PriceChunk, X!BinanceChunk, X!Asking
<1>8. CASE X!CoinoneTickers \/ X!KorbitTickers
  BY <1>1, <1>2, <1>8 DEF X!CoinoneTickers, X!KorbitTickers, X!Asking
<1>9. CASE X!Answers
  BY <1>9, FrameRows DEF X!Answers, X!Running
<1>10. CASE UNCHANGED X!vars
  BY <1>10, FrameRows DEF X!vars
<1> QED
  BY <1>3, <1>4, <1>6, <1>7, <1>8, <1>9, <1>10, AsksRows DEF X!Next

(* A list of tickers or of prices has each market that was asked for once, *)
(* under its id and with its price, unless the exchange sent no ticker for *)
(* it or it has no price, for any markets, quote currencies that are bases *)
(* too, chunks of any size and any that fail (getTickers, getCurrentPrices *)
(* of the exchange adapters).                                              *)
THEOREM RowsAreMarketsHolds ==
  ASSUME X!ExchangeAssumption
  PROVE  X!Spec => []X!RowsAreMarkets
<1>1. X!Init => RowsInv
  BY DEF X!Init, RowsInv, RequestOk, X!NoRequest, X!NoAnswer
<1>2. RowsInv /\ [X!Next]_(X!vars) => RowsInv'
  BY RowsStep
<1>3. RowsInv => X!RowsAreMarkets
  <2> SUFFICES ASSUME RowsInv, answer.kind = "rows"
               PROVE  X!RowsAreMarkets
    BY DEF X!RowsAreMarkets
  <2>1. answer.rows = rows /\ quotes = {} /\ rest = {} /\ RowsOk /\ RequestOk
        /\ (request.kind = "tickers" \/ request.kind = "prices")
    BY DEF RowsInv, RequestOk
  <2> DEFINE wanted == IF request.kind = "tickers" THEN {m \in Listing : m.quote = request.quote}
                       ELSE {m \in Listing : \E i \in DOMAIN request.asked :
                                               request.asked[i] = X!Spelled(m)}
             places(m) == {i \in DOMAIN rows : rows[i].id = IdOf(m)}
  <2>2. wanted = {m \in Listing : Wants(m)}
    BY DEF Wants
  <2>3. \A i \in DOMAIN rows : \E m \in wanted :
          rows[i] = [id |-> <<m.quote, "-">> \o m.base, price |-> value[m]]
    BY <2>1, <2>2 DEF RowsOk, RowFor, IdOf
  <2>4. ASSUME NEW m \in wanted
        PROVE  IF places(m) = {}
               THEN X!Spelled(m) \in missed
                    \/ (request.kind = "prices" /\ exchange # "v1" /\ value[m] = 0)
               ELSE X!Cardinality(places(m)) = 1
    <3>1. CASE places(m) = {}
      BY <2>1, <2>2, <3>1 DEF RowsOk, ToCome, Priceless
    <3>2. CASE places(m) # {}
      <4>1. PICK i \in DOMAIN rows : places(m) = {i}
        BY <2>1, <3>2 DEF RowsOk
      <4> QED
        BY <3>2, <4>1, FS_Singleton, RowSizes
    <3> QED
      BY <3>1, <3>2
  <2> QED
    BY <2>1, <2>3, <2>4 DEF X!RowsAreMarkets, IdOf
<1> QED
  BY <1>1, <1>2, <1>3, PTL DEF X!Spec
=============================================================================
