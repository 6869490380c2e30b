---------------------------- MODULE MarketSections ---------------------------
(***************************************************************************)
(* What the market routes answer when providers fail: tickers of one or of *)
(* all exchanges, the order book, the trades, the candles and the summary  *)
(* of a market (domains/market-data/market-data.service.ts).               *)
(***************************************************************************)
EXTENDS Integers, FiniteSets

CONSTANTS
  Exchange, Symbol,
  StaleAfter, Grace,  \* MARKET_DATA_STALE_THRESHOLD_MS, _STALE_GRACE_MS
  MaxAge              \* bound on the age of what is stored

VARIABLES
  listing,  \* what each exchange lists
  stored,   \* the store: the age of a symbol's ticker, book and trades
  answer    \* the last answer of the routes

vars == <<listing, stored, answer>>

None  == -1
Parts == {"ticker", "orderbook", "trades"}

Init ==
  /\ listing \in [Exchange -> SUBSET Symbol]
  /\ stored \in [Exchange -> [Symbol -> [Parts -> {None}]]]
  /\ answer = [route |-> "none"]

(* A call of a provider that fails: no set of symbols.                     *)
Failed == {"failed"}

(* Variant: a ticker that has expired is not fallen back to.               *)
LoadForgets(e, s, provider) ==
  LET age == stored[e][s]["ticker"]
  IN  IF age # None /\ age <= StaleAfter + Grace THEN [ticker |-> "stored", error |-> FALSE]
      ELSE IF provider # Failed /\ s \in provider THEN [ticker |-> "provider", error |-> FALSE]
      ELSE [ticker |-> "none", error |-> provider = Failed]

-----------------------------------------------------------------------------
(* getExchangeTickerLoads without a freshness target: [ticker, error].     *)
Load(e, s, provider) ==
  LET age == stored[e][s]["ticker"]
  IN  IF age # None /\ age <= StaleAfter + Grace THEN [ticker |-> "stored", error |-> FALSE]
      ELSE IF provider # Failed /\ s \in provider THEN [ticker |-> "provider", error |-> FALSE]
      ELSE IF age # None THEN [ticker |-> "stored", error |-> provider = Failed]
      ELSE [ticker |-> "none", error |-> provider = Failed]

(* getTickers for one exchange whose listing has loaded: the rows with a   *)
(* price, those without, and the symbols left out.                         *)
TickerRows(e, asked, provider) ==
  LET load == [s \in asked |-> Load(e, s, provider)]
      held == asked \cap listing[e]
  IN  [priced   |-> {s \in held : load[s].ticker # "none"},
       unpriced |-> {s \in held : load[s].ticker = "none" /\ load[s].error},
       dropped  |-> (asked \ listing[e])
                    \cup {s \in held : load[s].ticker = "none" /\ ~load[s].error}]

(* A request for one exchange fails with it, one for all does without the  *)
(* exchanges that fail while there is another.                             *)
Tickers ==
  \E exchanges \in {Exchange} \cup {{e} : e \in Exchange} :
  \E all \in BOOLEAN : \E symbol \in Symbol :
  \E up \in SUBSET exchanges :
  \E provider \in [up -> (SUBSET Symbol) \cup {Failed}] :
    LET asked(e) == IF all THEN listing[e] ELSE {symbol}
    IN  answer' = [route    |-> "tickers",
                   ok       |-> up # {},
                   asked    |-> [e \in up |-> asked(e)],
                   provider |-> provider,
                   rows     |-> [e \in up |-> TickerRows(e, asked(e), provider[e])]]

-----------------------------------------------------------------------------
(* resolveMarketForRequest: the listing is loaded to find the market.      *)
Refused(route, code) == [route |-> route, code |-> code]
Section(route, from, e, s) ==
  [route |-> route, code |-> "ok", from |-> from,
   age   |-> IF from = "stored" THEN stored[e][s][route] ELSE 0]

(* getOrderbook: a provider that fails is stood in for by the store.       *)
Orderbook ==
  \E e \in Exchange : \E s \in Symbol : \E listed, answers, supported \in BOOLEAN :
    answer' =
      IF ~listed THEN Refused("orderbook", "MARKET_DATA_UNAVAILABLE")
      ELSE IF ~supported \/ s \notin listing[e] THEN Refused("orderbook", "MARKET_DATA_UNSUPPORTED")
      ELSE IF answers THEN Section("orderbook", "provider", e, s)
      ELSE IF stored[e][s]["orderbook"] # None THEN Section("orderbook", "stored", e, s)
      ELSE Refused("orderbook", "MARKET_DATA_UNAVAILABLE")

(* getTradesWithMeta: an empty answer is stood in for as well, but no      *)
(* trades at all are an answer then.                                       *)
Trades ==
  \E e \in Exchange : \E s \in Symbol : \E listed, supported \in BOOLEAN :
  \E provider \in {"some", "empty", "failed"} :
    answer' =
      IF ~listed THEN Refused("trades", "MARKET_DATA_UNAVAILABLE")
      ELSE IF ~supported \/ s \notin listing[e] THEN Refused("trades", "MARKET_DATA_UNSUPPORTED")
      ELSE IF provider = "some" THEN Section("trades", "provider", e, s)
      ELSE IF stored[e][s]["trades"] # None THEN Section("trades", "stored", e, s)
      ELSE IF provider = "empty" THEN Section("trades", "provider", e, s)
      ELSE Refused("trades", "MARKET_DATA_UNAVAILABLE")

(* getCandlesWithMeta over what resolveCandleSnapshot has answered.        *)
Candles ==
  \E e \in Exchange : \E s \in Symbol : \E listed, supported, renderable \in BOOLEAN :
  \E snapshot \in {"unsupported", "loaded", "stale", "empty", "unavailable", "failed"} :
    answer' =
      IF ~listed THEN Refused("candles", "MARKET_DATA_UNAVAILABLE")
      ELSE IF ~supported \/ s \notin listing[e] THEN Refused("candles", "MARKET_DATA_UNSUPPORTED")
      ELSE IF snapshot = "unsupported" /\ ~renderable
        THEN Refused("candles", "MARKET_DATA_UNSUPPORTED")
      ELSE IF snapshot \in {"unavailable", "failed", "empty"} \/ ~renderable
        THEN Refused("candles", "MARKET_DATA_UNAVAILABLE")
      ELSE [route |-> "candles", code |-> "ok", from |-> snapshot, age |-> 0]

(* The store takes what streams and polls bring, and what it has grows old. *)
Stores ==
  \E e \in Exchange : \E s \in Symbol : \E p \in Parts :
    /\ stored' = [stored EXCEPT ![e][s][p] = 0]
    /\ UNCHANGED <<listing, answer>>

Older(t) == IF t = None \/ t = MaxAge THEN t ELSE t + 1
GrowsOld ==
  /\ stored' = [e \in Exchange |-> [s \in Symbol |-> [p \in Parts |->
                  Older(stored[e][s][p])]]]
  /\ UNCHANGED <<listing, answer>>

Next ==
  \/ (Tickers \/ Orderbook \/ Trades \/ Candles) /\ UNCHANGED <<listing, stored>>
  \/ Stores \/ GrowsOld

Spec == Init /\ [][Next]_vars

-----------------------------------------------------------------------------
(* Tickers of exchanges that answer, or that have been heard of, are never *)
(* lost to a provider that fails: every symbol asked for is accounted for  *)
(* once, it is priced if the store has a ticker however old or the         *)
(* provider answered it, has a row without a price if the provider failed, *)
(* and is dropped only if the provider answered without it.                *)
TickersNotLost ==
  answer'.route = "tickers" /\ answer' # answer =>
    \A e \in DOMAIN answer'.rows :
      LET rows == answer'.rows[e]
          prov == answer'.provider[e]
      IN  /\ rows.priced \cup rows.unpriced \cup rows.dropped = answer'.asked[e]
          /\ \A s \in answer'.asked[e] \cap listing[e] :
               /\ s \in rows.priced <=>
                    \/ stored[e][s]["ticker"] # None
                    \/ prov # Failed /\ s \in prov
               /\ s \in rows.dropped => prov # Failed
=============================================================================
