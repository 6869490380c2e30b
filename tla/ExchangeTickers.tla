--------------------------- MODULE ExchangeTickers ---------------------------
(***************************************************************************)
(* The exchange adapters of the market contract                            *)
(* (src/domains/market-data/contracts/exchange-market-data.adapters.ts):   *)
(* a list of tickers is the exchange's list of markets followed by one     *)
(* call per chunk of them, and a list of current prices is the same by     *)
(* market (v1: Upbit and Bithumb) or by quote currency (Binance; Coinone   *)
(* and Korbit, whose tickers come in one call).  Only a v1 ticker list     *)
(* goes on after a chunk fails.                                            *)
(*                                                                         *)
(* The spelling of a market is a sequence of tokens: <<"KRW", "-", "A">>,  *)
(* or <<"A", "USDT">> for Binance; a base such as BTC may be a quote too.  *)
(***************************************************************************)
EXTENDS Integers, Sequences, FiniteSets, SequencesExt

CONSTANTS
  Quote,          \* the quote currencies, all of them tokens
  Listing,        \* the exchange's markets: a set of [base, quote]
  Size,           \* TICKER_CHUNK_SIZE
  Value,          \* prices; 0 is an unreadable one
  MaxAsked        \* bound: markets per price request

VARIABLES
  exchange,       \* the adapter: "v1", "binance", "coinone" or "korbit"
  value,          \* the price of every market
  request,        \* what was asked: a ticker list or prices
  quotes,         \* the quote currencies still to be listed
  listed,         \* the one whose tickers are under way
  rest,           \* the markets still to be asked for
  rows, missed,   \* what came back; the markets no ticker came for
  answer

vars == <<exchange, value, request, quotes, listed, rest, rows, missed, answer>>

Separators == {"-", "_", "/"}

ExchangeAssumption ==
  /\ Quote \subseteq STRING \ (Separators \cup {"none"}) /\ IsFiniteSet(Listing)
  /\ Listing \subseteq [base : Seq(STRING) \ {<<>>}, quote : Quote]
  /\ \A m \in Listing : \A i \in DOMAIN m.base : m.base[i] \notin Separators

NoRequest == [kind |-> "none", quote |-> "none", asked |-> <<>>]
NoAnswer == [kind |-> "none", rows |-> <<>>]

Init == /\ exchange \in {"v1", "binance", "coinone", "korbit"}
        /\ value \in [Listing -> Value]
        /\ request = NoRequest /\ quotes = {} /\ listed = "none" /\ rest = {}
        /\ rows = <<>> /\ missed = {} /\ answer = NoAnswer

-----------------------------------------------------------------------------
(* normalizeMarket                                                         *)
Spelled(m) == IF exchange = "binance" THEN m.base \o <<m.quote>> ELSE <<m.quote, "-">> \o m.base

(* splitQuoteFirstOrBaseFirstMarket, parseMarketIdentityBase: with an      *)
(* underscore or a slash the base comes first, with a dash the quote is    *)
(* looked for in front first; Binance has no separator.                    *)
Parsed(id) ==
  LET at == {i \in DOMAIN id : id[i] \in Separators}
      sep == CHOOSE i \in at : TRUE
      left == SubSeq(id, 1, sep - 1)
      right == SubSeq(id, sep + 1, Len(id))
      oneOf(s) == s \in {<<q>> : q \in Quote}
      split(base, quote) == [base |-> base, quote |-> quote]
  IN IF Cardinality(at) = 1 /\ id[sep] # "-" /\ oneOf(right) THEN split(left, right[1])
     ELSE IF Cardinality(at) = 1 /\ oneOf(left) THEN split(right, left[1])
     ELSE IF Cardinality(at) = 1 /\ oneOf(right) THEN split(left, right[1])
     ELSE IF at = {} /\ exchange = "binance" /\ Len(id) > 1 /\ Last(id) \in Quote
          THEN split(Front(id), Last(id))
     ELSE split(<<>>, "none")

(* normalizeMarketIdentity: the id of the contract.                        *)
Canonical(id, quote) ==
  <<quote, "-">> \o (IF Parsed(id).quote = "none" THEN id ELSE Parsed(id).base)

(* listMarkets                                                             *)
Listed(quote) == {Spelled(m) : m \in {x \in Listing : x.quote = quote}}

-----------------------------------------------------------------------------
Begins(r, qs, ids) ==
  /\ request = NoRequest /\ request' = r /\ quotes' = qs /\ rest' = ids
  /\ UNCHANGED <<exchange, value, listed, rows, missed, answer>>

AsksTickers == \E q \in Quote : Begins([NoRequest EXCEPT !.kind = "tickers", !.quote = q], {q}, {})

(* getCurrentPrices: v1 asks for the distinct spellings; the others for    *)
(* every quote currency among them, each as a whole list of tickers.       *)
AsksPrices ==
  \E n \in 1..MaxAsked : \E asked \in [1..n -> {Spelled(m) : m \in Listing}] :
    Begins([NoRequest EXCEPT !.kind = "prices", !.asked = asked],
           IF exchange = "v1" THEN {} ELSE {Parsed(asked[i]).quote : i \in DOMAIN asked},
           IF exchange = "v1" THEN {asked[i] : i \in DOMAIN asked} ELSE {})

Running == request # NoRequest /\ answer = NoAnswer

Fails == /\ answer' = [kind |-> "failed", rows |-> <<>>]
         /\ UNCHANGED <<exchange, value, request, quotes, listed, rest, rows, missed>>

(* getTickers: the markets of the next quote currency.                     *)
ListsMarkets ==
  /\ Running /\ listed = "none"
  /\ \/ /\ \E q \in quotes : quotes' = quotes \ {q} /\ listed' = q /\ rest' = Listed(q)
        /\ UNCHANGED <<exchange, value, request, rows, missed, answer>>
     \/ quotes # {} /\ Fails

(* No ticker of a list of markets is a failure.                            *)
ListEnds ==
  /\ Running /\ listed # "none" /\ rest = {}
  /\ IF Listed(listed) # {} /\ Listed(listed) \subseteq missed THEN Fails
     ELSE listed' = "none" /\ UNCHANGED <<exchange, value, request, quotes, rest, rows, missed, answer>>

(* toTickerItem: the row of a ticker.  A price of v1 is a number, 0 when   *)
(* it is unreadable.                                                       *)
RowOf(id) ==
  LET m == CHOOSE x \in Listing : Spelled(x) = id
      quote == IF request.kind = "tickers" THEN request.quote ELSE Parsed(id).quote
  IN [id |-> Canonical(id, quote), price |-> value[m]]

(* The tickers of a chunk.  Prices are kept of the markets asked for; the  *)
(* adapters that read whole lists leave those without a price out.         *)
Wanted(id) ==
  \/ request.kind = "tickers"
  \/ exchange = "v1"
  \/ /\ \E i \in DOMAIN request.asked : Parsed(request.asked[i]) = Parsed(id)
     /\ RowOf(id).price # 0

(* chunk: so many of the markets, or those that are left.                  *)
Chunk ==
  LET size == IF Cardinality(rest) < Size THEN Cardinality(rest) ELSE Size
  IN  {ids \in SUBSET rest : Cardinality(ids) = size}

(* The exchange answers with the tickers it has of the chunk.              *)
Arrives(ids) ==
  /\ \E sent \in SUBSET ids :
       LET kept == SetToSeq({id \in sent : Wanted(id)})
       IN /\ rows' = rows \o [i \in DOMAIN kept |-> RowOf(kept[i])]
          /\ missed' = missed \cup (ids \ sent)
  /\ rest' = rest \ ids
  /\ UNCHANGED <<exchange, value, request, quotes, listed, answer>>

Asking(adapter) == Running /\ rest # {} /\ exchange = adapter

V1TickerChunk ==
  /\ Asking("v1") /\ request.kind = "tickers"
  /\ \E ids \in Chunk :
       \/ Arrives(ids)
       \/ /\ missed' = missed \cup ids /\ rest' = rest \ ids
          /\ UNCHANGED <<exchange, value, request, quotes, listed, rows, answer>>

V1PriceChunk ==
  Asking("v1") /\ request.kind = "prices" /\ (Fails \/ \E ids \in Chunk : Arrives(ids))

BinanceChunk == Asking("binance") /\ (Fails \/ \E ids \in Chunk : Arrives(ids))

(* Coinone and Korbit send all tickers at once.                            *)
CoinoneTickers == Asking("coinone") /\ (Fails \/ Arrives(rest))

KorbitTickers == Asking("korbit") /\ (Fails \/ Arrives(rest))

Answers ==
  /\ Running /\ quotes = {} /\ listed = "none" /\ rest = {}
  /\ answer' = [kind |-> "rows", rows |-> rows]
  /\ UNCHANGED <<exchange, value, request, quotes, listed, rest, rows, missed>>

Next == \/ AsksTickers \/ AsksPrices \/ ListsMarkets \/ ListEnds \/ V1TickerChunk
        \/ V1PriceChunk \/ BinanceChunk \/ CoinoneTickers \/ KorbitTickers \/ Answers

Spec == Init /\ [][Next]_vars

-----------------------------------------------------------------------------
TypeOK == /\ request.kind \in {"none", "tickers", "prices"}
          /\ answer.kind \in {"none", "failed", "rows"}

(* A list of tickers or prices has every market that was asked for once,   *)
(* under the id of that market and with its price: a market is missing     *)
(* only when the exchange sent no ticker for it, its chunk of a v1 list    *)
(* failed, or it has no price.  Chunks, quote currencies that are bases    *)
(* too and repeated or differently grouped requests do not change that.    *)
RowsAreMarkets ==
  answer.kind = "rows" =>
    LET id(m) == <<m.quote, "-">> \o m.base
        wanted == IF request.kind = "tickers" THEN {m \in Listing : m.quote = request.quote}
                  ELSE {m \in Listing : \E i \in DOMAIN request.asked : request.asked[i] = Spelled(m)}
        places(m) == {i \in DOMAIN answer.rows : answer.rows[i].id = id(m)}
    IN /\ \A i \in DOMAIN answer.rows : \E m \in wanted : answer.rows[i] = [id |-> id(m), price |-> value[m]]
       /\ \A m \in wanted :
            IF places(m) = {}
            THEN Spelled(m) \in missed \/ (request.kind = "prices" /\ exchange # "v1" /\ value[m] = 0)
            ELSE Cardinality(places(m)) = 1
=============================================================================
