----------------------------- MODULE PublicFanout -----------------------------
(***************************************************************************)
(* The tickers, orderbook and trades channels of /ws/market                *)
(* (src/websocket/wsServer.ts): the inbound budget of a client, its        *)
(* subscriptions, the snapshot it is sent when it subscribes, and the      *)
(* fan-out of what the market event bus publishes.                         *)
(*                                                                         *)
(* What is published on a topic is numbered in the order of publication.   *)
(***************************************************************************)
EXTENDS Naturals, FiniteSets

CONSTANTS
  Client, Market,
  Channel,        \* some of "tickers", "orderbook", "trades"
  MaxPublic,      \* MAX_PUBLIC_SUBSCRIPTIONS_PER_CLIENT
  MaxMessages,    \* MAX_WS_MESSAGES_PER_WINDOW
  MaxNumber       \* bound on what is published

VARIABLES
  socket,      \* readyState of each client's socket
  count,       \* messageCountInWindow
  subs,        \* the keys of clientSubscriptions, by channel
  held,        \* the newest value of each topic in PublicMarketDataStore
  published,   \* the newest value of each topic that was published
  shown        \* the newest value each client was sent (history)

vars == <<socket, count, subs, held, published, shown>>

Topic == Channel \X Market

Init ==
  /\ socket = [c \in Client |-> "none"] /\ count = [c \in Client |-> 0]
  /\ subs = [c \in Client |-> {}]
  /\ held = [t \in Topic |-> 0] /\ published = held
  /\ shown = [c \in Client |-> held]

(* sendJson of the held values of `topics' to those of `clients' that are  *)
(* open; a consumer that is too slow is closed instead.                    *)
Sends(clients, topics, values) ==
  \E slow \in SUBSET {c \in clients : socket[c] = "open"} :
    /\ socket' = [c \in Client |-> IF c \in slow THEN "closing" ELSE socket[c]]
    /\ shown' = [c \in Client |-> [t \in Topic |->
         IF c \in clients \ slow /\ socket[c] = "open" /\ t \in topics
         THEN values[t] ELSE shown[c][t]]]

Connects(c) ==
  /\ socket[c] = "none" /\ socket' = [socket EXCEPT ![c] = "open"]
  /\ UNCHANGED <<count, subs, held, published, shown>>

(* consumeInboundBudget lets the message through.                          *)
Consumes(c) ==
  /\ socket[c] = "open" /\ count[c] < MaxMessages
  /\ count' = [count EXCEPT ![c] = @ + 1]

(* A message too many in its window, or too large; or the client leaves.   *)
Cut(c) ==
  /\ socket[c] = "open" /\ socket' = [socket EXCEPT ![c] = "closing"]
  /\ UNCHANGED <<count, subs, held, published, shown>>

WindowEnds(c) ==
  /\ socket[c] = "open" /\ count[c] > 0 /\ count' = [count EXCEPT ![c] = 0]
  /\ UNCHANGED <<socket, subs, held, published, shown>>

(* A ping, or a message that is answered with an error.                    *)
Trifles(c) ==
  /\ Consumes(c) /\ UNCHANGED <<socket, subs, held, published, shown>>

Topics(channel, markets) == {<<channel, m>> : m \in markets}
OfChannel(c, channel)    == subs[c] \cap (({channel}) \X Market)

(* All the keys of a request are added, or none.                           *)
Admits(c, topics) ==
  \A channel \in Channel :
    Cardinality(OfChannel(c, channel) \cup {t \in topics : t[1] = channel})
      <= MaxPublic

(* Variant: only keys that are new get a snapshot, those that were left    *)
(* before do not.                                                          *)
SubscribesQuietly(c) ==
  \E channel \in Channel, markets \in (SUBSET Market) \ {{}} :
    LET topics == Topics(channel, markets)
    IN  /\ Consumes(c) /\ Admits(c, topics)
        /\ subs' = [subs EXCEPT ![c] = @ \cup topics]
        /\ Sends({c}, {t \in topics : shown[c][t] = 0 /\ held[t] > 0}, held)
        /\ UNCHANGED <<held, published>>

(* handleTickerSubscription and handleKeyedSubscription: the snapshot is   *)
(* of every key of the request.                                            *)
Subscribes(c) ==
  \E channel \in Channel, markets \in (SUBSET Market) \ {{}} :
    LET topics == Topics(channel, markets)
    IN  /\ Consumes(c) /\ Admits(c, topics)
        /\ subs' = [subs EXCEPT ![c] = @ \cup topics]
        /\ Sends({c}, {t \in topics : held[t] > 0}, held)
        /\ UNCHANGED <<held, published>>

Unsubscribes(c) ==
  \E channel \in Channel, markets \in (SUBSET Market) \ {{}} :
    /\ Consumes(c)
    /\ subs' = [subs EXCEPT ![c] = @ \ Topics(channel, markets)]
    /\ UNCHANGED <<socket, held, published, shown>>

(* The close event; cleanupClient.                                         *)
Closed(c) ==
  /\ socket[c] = "closing" /\ socket' = [socket EXCEPT ![c] = "gone"]
  /\ subs' = [subs EXCEPT ![c] = {}] /\ count' = [count EXCEPT ![c] = 0]
  /\ UNCHANGED <<held, published, shown>>

Subscribers(topic) == {c \in Client : topic \in subs[c]}

(* persistTicker, persistOrderbook, persistTrade: the store, then the bus; *)
(* publishTicker, publishOrderbook, publishTrade.  A trade moves the held  *)
(* ticker without a word.                                                  *)
Publishes(topic) ==
  LET silent == {t \in {<<"tickers", topic[2]>>} \cap Topic : topic[1] = "trades" /\ held[t] > 0}
      moved  == [t \in Topic |-> IF t = topic \/ t \in silent THEN held[t] + 1
                                                             ELSE held[t]]
  IN  /\ held[topic] < MaxNumber /\ \A t \in silent : held[t] < MaxNumber
      /\ held' = moved
      /\ published' = [published EXCEPT ![topic] = moved[topic]]
      /\ Sends(Subscribers(topic), {topic}, moved)
      /\ UNCHANGED <<count, subs>>

Next ==
  \/ \E c \in Client : \/ Connects(c) \/ Cut(c) \/ WindowEnds(c) \/ Trifles(c)
                       \/ Subscribes(c) \/ Unsubscribes(c) \/ Closed(c)
  \/ \E topic \in Topic : Publishes(topic)

Spec == Init /\ [][Next]_vars

-----------------------------------------------------------------------------
(* An open client has been shown, of every topic it subscribes to, what    *)
(* was published last, or something newer: nothing falls between the       *)
(* snapshot and the stream, and who comes back is not left with what was   *)
(* shown before.                                                           *)
SubscribersUpToDate ==
  \A c \in Client : socket[c] = "open" =>
    \A t \in subs[c] : shown[c][t] >= published[t]
=============================================================================
