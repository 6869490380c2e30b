-------------------------- MODULE MarketCandleFeed --------------------------
(***************************************************************************)
(* The market.candle channel of /ws/market (src/websocket/wsServer.ts):    *)
(* clients subscribe to (market, timeframe) keys, one five-second interval *)
(* polls the current prices of every subscribed key, folds each price into *)
(* the live candle of its key and sends the candle to the subscribers.     *)
(*                                                                         *)
(* A handler or the part of a poll between two awaits is one action.  A    *)
(* poll awaits its prices: "fetching" until the exchange gave them,        *)
(* "sampled" until the code goes on with them.                             *)
(***************************************************************************)
EXTENDS Integers, FiniteSets

CONSTANTS
  Client, Market,
  Timeframe,      \* bucket lengths
  Price,          \* prices, a set of numbers
  Poll,           \* slots for polls; the first free one is used
  MaxPerClient,   \* MAX_CONTRACT_CANDLE_SUBSCRIPTIONS_PER_CLIENT
  MaxTime         \* bound on the clock

ASSUME TimeframeAssumption == Timeframe \subseteq Nat \ {0}
ASSUME PriceAssumption     == Price \subseteq Nat \ {0}
ASSUME LimitAssumption     == MaxPerClient \in Nat \ {0} /\ MaxTime \in Nat

VARIABLES
  now,
  serverUp,      \* FALSE once closeWebSocketServer has run
  socket,        \* readyState of each client's socket
  registered,    \* the keys of clientSubscriptions
  subs,          \* contractCandles of each client
  armed,         \* marketCandlePollInterval is set
  inFlight,      \* marketCandlePollInFlight
  polls,         \* the running calls of pollContractCandles
  candles,       \* contractLiveCandles
  received       \* the last event each client got for each key (history)

vars == <<now, serverUp, socket, registered, subs, armed, inFlight, polls,
          candles, received>>

Key == Market \X Timeframe
NoPrice  == 0
NoCandle == [bucket |-> -1]
Candle   == [bucket : 0 .. MaxTime, open : Price, high : Price, low : Price,
             close : Price, asOf : 0 .. MaxTime]
Idle     == [stage |-> "idle", keys |-> {}, asOf |-> 0,
             price |-> [m \in Market |-> NoPrice]]
Silent   == [from |-> "none", candle |-> NoCandle]

TypeOK ==
  /\ now \in 0 .. MaxTime /\ serverUp \in BOOLEAN
  /\ armed \in BOOLEAN /\ inFlight \in BOOLEAN
  /\ socket \in [Client -> {"none", "open", "closing", "gone"}]
  /\ registered \subseteq Client
  /\ subs \in [Client -> SUBSET Key]
  /\ \A c \in Client : Cardinality(subs[c]) <= MaxPerClient
  /\ polls \in [Poll -> [stage : {"idle", "fetching", "sampled"},
                         keys : SUBSET Key, asOf : 0 .. MaxTime,
                         price : [Market -> Price \cup {NoPrice}]]]
  /\ candles \in [Key -> Candle \cup {NoCandle}]
  /\ received \in [Client -> [Key -> [from : {"none", "snapshot", "poll"},
                                      candle : Candle \cup {NoCandle}]]]

Init ==
  /\ now = 0 /\ serverUp = TRUE /\ armed = FALSE /\ inFlight = FALSE
  /\ socket = [c \in Client |-> "none"]
  /\ registered = {}
  /\ subs = [c \in Client |-> {}]
  /\ polls = [p \in Poll |-> Idle]
  /\ candles = [k \in Key |-> NoCandle]
  /\ received = [c \in Client |-> [k \in Key |-> Silent]]

Subscribed == UNION {subs[c] : c \in registered}

Bucket(tf) == now - (now % tf)
Receives(c, k) == socket[c] = "open" /\ k \in subs[c]

(* ensureMarketCandlePolling, after the subscriptions became those of subs'. *)
EnsurePolling == armed' = (UNION {subs'[c] : c \in registered'} # {})

-----------------------------------------------------------------------------
(* pollContractCandles up to its await, for the keys subscribed just then. *)
PollStarts(keys) ==
  \E p \in Poll :
    /\ polls[p].stage = "idle"
    /\ p = CHOOSE q \in Poll : polls[q].stage = "idle"
    /\ polls' = [polls EXCEPT ![p] = [Idle EXCEPT !.stage = "fetching",
                                                  !.keys = keys]]
    /\ inFlight' = TRUE

(* Variant: a poll does not look whether another one is running.           *)
PollsUnguarded(keys) ==
  IF keys = {} THEN UNCHANGED <<polls, inFlight>> ELSE PollStarts(keys)

PollOnce(keys) ==
  IF inFlight \/ keys = {} THEN UNCHANGED <<polls, inFlight>>
                           ELSE PollStarts(keys)

Connects(c) ==
  /\ serverUp /\ socket[c] = "none"
  /\ socket' = [socket EXCEPT ![c] = "open"]
  /\ registered' = registered \cup {c}
  /\ UNCHANGED <<now, serverUp, subs, armed, inFlight, polls, candles,
                 received>>

Admits(c, k) == k \in subs[c] \/ Cardinality(subs[c]) < MaxPerClient

(* Subscribing sends the live candle there is, arms the interval and polls *)
(* at once.                                                                *)
Subscribe(c, k) ==
  /\ socket[c] \in {"open", "closing"} /\ c \in registered /\ Admits(c, k)
  /\ subs' = [subs EXCEPT ![c] = @ \cup {k}]
  /\ received' = [received EXCEPT ![c][k] =
       IF candles[k] # NoCandle /\ socket[c] = "open"
       THEN [from |-> "snapshot", candle |-> candles[k]] ELSE Silent]
  /\ UNCHANGED <<now, serverUp, socket, registered, candles>>
  /\ EnsurePolling
  /\ PollOnce(Subscribed \cup {k})

Unsubscribe(c, k) ==
  /\ socket[c] \in {"open", "closing"} /\ c \in registered
  /\ subs' = [subs EXCEPT ![c] = @ \ {k}]
  /\ UNCHANGED <<now, serverUp, socket, registered, inFlight, polls, candles,
                 received>>
  /\ EnsurePolling

(* Either side closes, or sendJson closes a slow consumer.                 *)
Closes(c) ==
  /\ socket[c] = "open"
  /\ socket' = [socket EXCEPT ![c] = "closing"]
  /\ UNCHANGED <<now, serverUp, registered, subs, armed, inFlight, polls,
                 candles, received>>

(* Variant: the client is forgotten, its share of the interval is not.     *)
ForgetsOnly(c) ==
  /\ registered' = registered \ {c}
  /\ subs' = [subs EXCEPT ![c] = {}]
  /\ UNCHANGED armed

(* cleanupClient.                                                          *)
Cleanup(c) ==
  /\ registered' = registered \ {c}
  /\ subs' = [subs EXCEPT ![c] = {}]
  /\ EnsurePolling

(* The close event of the socket.                                          *)
Closed(c) ==
  /\ socket[c] = "closing"
  /\ socket' = [socket EXCEPT ![c] = "gone"]
  /\ Cleanup(c)
  /\ UNCHANGED <<now, serverUp, inFlight, polls, candles, received>>

(* startHeartbeat: an unresponsive client is cleaned up, then closed.      *)
HeartbeatTimesOut(c) ==
  /\ serverUp /\ socket[c] \in {"open", "closing"}
  /\ socket' = [socket EXCEPT ![c] = "closing"]
  /\ Cleanup(c)
  /\ UNCHANGED <<now, serverUp, inFlight, polls, candles, received>>

(* closeWebSocketServer.                                                   *)
CloseServer ==
  /\ serverUp /\ serverUp' = FALSE
  /\ registered' = {}
  /\ subs' = [c \in Client |-> {}]
  /\ armed' = FALSE
  /\ socket' = [c \in Client |-> IF socket[c] = "open" THEN "closing"
                                                       ELSE socket[c]]
  /\ UNCHANGED <<now, inFlight, polls, candles, received>>

-----------------------------------------------------------------------------
IntervalFires ==
  /\ armed
  /\ PollOnce(Subscribed)
  /\ UNCHANGED <<now, serverUp, socket, registered, subs, candles, received>>
  /\ EnsurePolling

(* getCurrentPriceSnapshots: the exchange is asked; a market may be        *)
(* missing from its answer.                                                *)
Samples(p) ==
  /\ polls[p].stage = "fetching"
  /\ \E price \in [Market -> Price \cup {NoPrice}] :
       polls' = [polls EXCEPT ![p].stage = "sampled", ![p].asOf = now,
                              ![p].price = price]
  /\ UNCHANGED <<now, serverUp, socket, registered, subs, armed, inFlight,
                 candles, received>>

Opened(price, bucket, asOf) ==
  [bucket |-> bucket, open |-> price, high |-> price, low |-> price,
   close |-> price, asOf |-> asOf]

Higher(a, b) == IF a >= b THEN a ELSE b
Lower(a, b)  == IF a <= b THEN a ELSE b

Extended(candle, price, asOf) ==
  [candle EXCEPT !.high = Higher(@, price), !.low = Lower(@, price),
                 !.close = price, !.asOf = asOf]

Folded(k, price, asOf) ==
  IF candles[k].bucket # Bucket(k[2]) THEN Opened(price, Bucket(k[2]), asOf)
                                      ELSE Extended(candles[k], price, asOf)

SendsTo(c, k) == c \in registered /\ Receives(c, k)

(* The loop over the keys captured before the await, then the finally.     *)
Applies(p) ==
  LET priced == {k \in polls[p].keys : polls[p].price[k[1]] # NoPrice}
      fold   == [k \in Key |->
                   IF k \in priced
                   THEN Folded(k, polls[p].price[k[1]], polls[p].asOf)
                   ELSE candles[k]]
  IN  /\ polls[p].stage = "sampled"
      /\ candles' = fold
      /\ received' = [c \in Client |-> [k \in Key |->
           IF k \in priced /\ SendsTo(c, k)
           THEN [from |-> "poll", candle |-> fold[k]] ELSE received[c][k]]]
      /\ polls' = [polls EXCEPT ![p] = Idle]
      /\ inFlight' = FALSE
      /\ UNCHANGED <<now, serverUp, socket, registered, subs, armed>>

(* Variant: the flag is cleared after the loop, not in a finally.          *)
FailsWithFlag(p) ==
  /\ polls[p].stage = "fetching"
  /\ polls' = [polls EXCEPT ![p] = Idle]
  /\ UNCHANGED <<now, serverUp, socket, registered, subs, armed, inFlight,
                 candles, received>>

(* The prices cannot be had: catch, then finally.                          *)
Fails(p) ==
  /\ polls[p].stage = "fetching"
  /\ polls' = [polls EXCEPT ![p] = Idle]
  /\ inFlight' = FALSE
  /\ UNCHANGED <<now, serverUp, socket, registered, subs, armed, candles,
                 received>>

Tick ==
  /\ now < MaxTime
  /\ now' = now + 1
  /\ UNCHANGED <<serverUp, socket, registered, subs, armed, inFlight, polls,
                 candles, received>>

Next ==
  \/ Tick \/ IntervalFires \/ CloseServer
  \/ \E c \in Client :
       \/ Connects(c) \/ Closes(c) \/ Closed(c) \/ HeartbeatTimesOut(c)
       \/ \E k \in Key : Subscribe(c, k) \/ Unsubscribe(c, k)
  \/ \E p \in Poll : Samples(p) \/ Applies(p) \/ Fails(p)

Spec == Init /\ [][Next]_vars

(* Timers fire, an await ends, and an exchange that is asked again and     *)
(* again gives the price of a market at last.                              *)
Prices(p, m) == Samples(p) /\ polls'[p].price[m] # NoPrice

Fairness ==
  /\ WF_vars(IntervalFires)
  /\ WF_vars(\E p \in Poll : Samples(p) \/ Fails(p))
  /\ WF_vars(\E p \in Poll : Applies(p))
  /\ \A m \in Market : SF_vars(\E p \in Poll : Prices(p, m))

FairSpec == Spec /\ Fairness

-----------------------------------------------------------------------------
(* The interval runs exactly while a registered client is subscribed:      *)
(* nobody's leaving, by whatever path, leaves it behind, and nobody is     *)
(* left without it (ensureMarketCandlePolling and its callers).            *)
TimerIffSubscribed == armed <=> Subscribed # {}

(* And the state is what it should be: no client is subscribed to more     *)
(* keys than it may be (MAX_CONTRACT_CANDLE_SUBSCRIPTIONS_PER_CLIENT).     *)
PollsIffSubscribed == TypeOK /\ TimerIffSubscribed

(* What a client is sent for a key never goes back: no earlier bucket, no  *)
(* older price over a newer one, and within a bucket the open stands still *)
(* and the range only widens.  New events come for subscribed keys only,   *)
(* and one from a poll belongs to the bucket of the moment.                *)
NeverBack ==
  \A c \in Client, k \in Key :
    LET old == received[c][k].candle
        new == received'[c][k].candle
    IN  /\ old # new /\ old # NoCandle /\ new # NoCandle =>
             /\ k \in subs'[c]
             /\ new.bucket >= old.bucket /\ new.asOf >= old.asOf
             /\ new.bucket = old.bucket =>
                  /\ new.open = old.open
                  /\ new.high >= old.high /\ new.low <= old.low
        /\ old # new /\ received'[c][k].from = "poll"
             => new.bucket = Bucket(k[2])
FeedMonotone == [][NeverBack]_vars

(* A subscriber gets a polled candle, or goes: a key that joins while a    *)
(* poll is running is not in that poll and waits for the interval.         *)
EverySubscriberFed ==
  \A c \in Client, k \in Key :
    Receives(c, k) ~> (received[c][k].from = "poll" \/ ~Receives(c, k))
=============================================================================
