-------------------------- MODULE SparklineBatches --------------------------
(***************************************************************************)
(* One request for the small graphs of several markets                     *)
(* (getMarketSparklineBatch in                                             *)
(* src/domains/market-data/contracts/market-data-contract.service.ts): the *)
(* inputs are resolved to markets, the first PathLimit are matched with    *)
(* the rows of the ticker list and worked on by a bounded number of        *)
(* workers, the others are deferred to a warm-up, and the answer sorts     *)
(* everything that was asked for into items, missing and deferred.         *)
(* SparklineGraphs models where an item's points come from.                *)
(*                                                                         *)
(* An input is a spelling of a market, of a market of another quote        *)
(* currency, of nothing, or a wildcard.                                    *)
(***************************************************************************)
EXTENDS Integers, Sequences, FiniteSets

CONSTANTS
  Input, Wildcard, MarketOf,  \* MarketOf: the inputs that parse, and their market
  OtherQuote,                 \* the markets of another quote currency
  Listed,                     \* the markets of the ticker list
  PathLimit, Workers,
  MaxInputs

(* "none" says that there is no market.                                    *)
BatchAssumption == \A input \in DOMAIN MarketOf : MarketOf[input] # "none"

VARIABLES
  request,      \* mode (marketIds or symbols), priority and inputs
  pc,
  rows,         \* the markets with a row, once the list is there
  next, busy,   \* mapBounded: the next target and those being worked on
  results,      \* the items that are done, by place
  answer

vars == <<request, pc, rows, next, busy, results, answer>>

NoRequest == [mode |-> "marketIds", priority |-> "normal", inputs |-> <<>>]
NoAnswer == [kind |-> "none"]
NoItem == [market |-> "none", points |-> 0]
Points == {0, 1, 24}

Init == /\ request = NoRequest /\ pc = "idle" /\ rows = {} /\ next = 1 /\ busy = {}
        /\ results = <<>> /\ answer = NoAnswer

-----------------------------------------------------------------------------
Interactive == request.priority \in {"top", "interactive"}

Resolved(input) ==
  [input |-> input,
   market |-> IF input \in DOMAIN MarketOf THEN MarketOf[input] ELSE "none",
   reason |-> IF input \notin DOMAIN MarketOf THEN "invalid_market_id"
              ELSE IF MarketOf[input] \in OtherQuote THEN "quote_currency_mismatch" ELSE "none"]

(* A symbol that does not fit the quote currency, or is none, is refused;  *)
(* a market id is reported.                                                *)
Refused(r) ==
  \/ \E i \in DOMAIN r.inputs : r.inputs[i] \in Wildcard
  \/ r.inputs = <<>>
  \/ /\ r.mode = "symbols"
     /\ \E i \in DOMAIN r.inputs : Resolved(r.inputs[i]).reason # "none"

(* The key of unique: the market, or the input when it has none.           *)
KeyOf(x) == IF x.market # "none" THEN x.market ELSE x.input

At(i) == Resolved(request.inputs[i])
Key(i) == KeyOf(At(i))

(* resolveSparklineInputs: the first spelling of a market stands for all.  *)
(* An input is told by its place in the request.                           *)
Inputs == {i \in DOMAIN request.inputs : \A j \in 1..(i - 1) : Key(j) # Key(i)}

Processed == {i \in Inputs : Cardinality({j \in Inputs : j <= i}) <= PathLimit}
Deferred == Inputs \ Processed

HasRow(i) == At(i).reason = "none" /\ At(i).market \in rows
Targets == {i \in Processed : HasRow(i)}
Unsupported == Processed \ Targets

(* The places in K, in order.                                              *)
Ordered(K) ==
  [n \in 1..Cardinality(K) |-> CHOOSE i \in K : Cardinality({j \in K : j <= i}) = n]

Receives ==
  /\ pc = "idle"
  /\ \E mode \in {"marketIds", "symbols"}, priority \in {"normal", "top"},
        n \in 0..MaxInputs : \E inputs \in [1..n -> Input] :
       LET r == [mode |-> mode, priority |-> priority, inputs |-> inputs] IN
       /\ request' = r
       /\ pc' = IF Refused(r) THEN "refused" ELSE "listing"
  /\ UNCHANGED <<rows, next, busy, results, answer>>

(* The ticker list; when it fails an interactive request makes rows of its *)
(* own for the inputs it works on, and another fails.                      *)
ListEnds ==
  /\ pc = "listing"
  /\ \/ rows' = Listed /\ pc' = "working"
     \/ /\ Interactive /\ pc' = "working"
        /\ rows' = {At(i).market : i \in {k \in Processed : At(k).reason = "none"}}
     \/ ~Interactive /\ pc' = "failed" /\ UNCHANGED rows
  /\ UNCHANGED <<request, next, busy, results, answer>>

(* mapBounded                                                              *)
WorkerTakes ==
  /\ pc = "working" /\ next <= Cardinality(Targets) /\ Cardinality(busy) < Workers
  /\ busy' = busy \cup {next} /\ next' = next + 1
  /\ UNCHANGED <<request, pc, rows, results, answer>>

Placed(i, item) ==
  [k \in 1..(IF Len(results) < i THEN i ELSE Len(results)) |->
     IF k = i THEN item ELSE IF k <= Len(results) THEN results[k] ELSE NoItem]

ItemEnds ==
  \E i \in busy, points \in Points :
    /\ busy' = busy \ {i}
    /\ results' = Placed(i, [market |-> At(Ordered(Targets)[i]).market, points |-> points])
    /\ UNCHANGED <<request, pc, rows, next, answer>>

Missing(i) ==
  [of |-> Key(i), reason |-> IF At(i).reason = "none" THEN "market_not_found" ELSE At(i).reason]

Responds ==
  /\ pc = "working" /\ next > Cardinality(Targets) /\ busy = {}
  /\ pc' = "answered"
  /\ LET without == Ordered({i \in DOMAIN results : results[i].points < 2})
         refused == Ordered(Unsupported)
         later   == Ordered(Deferred)
     IN answer' =
          [kind |-> "items", items |-> results,
           missing |-> [n \in DOMAIN refused |-> Missing(refused[n])]
                       \o [n \in DOMAIN without |-> [of |-> results[without[n]].market,
                                                     reason |-> "points"]],
           deferred |-> [n \in DOMAIN later |-> Key(later[n])],
           exceeded |-> Deferred # {}]
  /\ UNCHANGED <<request, rows, next, busy, results>>

Next == Receives \/ ListEnds \/ WorkerTakes \/ ItemEnds \/ Responds

Spec == Init /\ [][Next]_vars

-----------------------------------------------------------------------------
(* Every distinct market or unreadable input of a request is accounted for *)
(* once: with a graph, as missing with the reason, or as deferred; items   *)
(* come in the order of the request whatever order the workers finish in.  *)
BatchAddsUp ==
  answer # NoAnswer =>
    LET places(k) ==
          <<Cardinality({i \in DOMAIN answer.items :
                           answer.items[i].market = k /\ answer.items[i].points >= 2}),
            Cardinality({i \in DOMAIN answer.missing : answer.missing[i].of = k}),
            Cardinality({i \in DOMAIN answer.deferred : answer.deferred[i] = k})>>
        asked == {IF i \in DOMAIN MarketOf THEN MarketOf[i] ELSE i :
                    i \in {request.inputs[k] : k \in DOMAIN request.inputs}}
        place(m) == CHOOSE i \in DOMAIN request.inputs :
                      /\ request.inputs[i] \in DOMAIN MarketOf /\ MarketOf[request.inputs[i]] = m
                      /\ \A j \in 1..(i - 1) :
                           request.inputs[j] \in DOMAIN MarketOf => MarketOf[request.inputs[j]] # m
    IN /\ \A k \in asked : places(k)[1] + places(k)[2] + places(k)[3] = 1
       /\ \A i, j \in DOMAIN answer.items :
            i < j => place(answer.items[i].market) < place(answer.items[j].market)
=============================================================================
