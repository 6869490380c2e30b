------------------------------- MODULE MCParts -------------------------------
(* The parts of the server whose steps are checked one part at a time, against *)
(* everything that can happen in that part:                                    *)
(*   - requests that overlap: on one exchange connection, where a mixed pair   *)
(*     of keys is refused and the exchange may be unreachable, or limit; paper *)
(*     orders; requests for sparklines that share an exchange's slots;         *)
(*   - what answers may be kept in: the provider cache and the REST client     *)
(*     under it, premium rows and snapshots, the candles and sparklines of the *)
(*     charts, the tickers of the markets, the images of the assets;           *)
(*   - what clients are pushed: fills, public topics, live candles; and what   *)
(*     they are answered: rows, pages and lists of markets, snapshots, batches *)
(*     of sparklines and of premiums, news, posts;                             *)
(*   - what that is made of: the store, the trends, the candles.               *)
(* Each module has what the rest of the server does to its part among its own  *)
(* actions, so a behavior here is one of the chosen part alone, and the parts  *)
(* can keep their state in the same variables.  The exchange connection and    *)
(* the REST client, whose modules are extended, have variables of their own.   *)
EXTENDS Sequences, PrivateOperations, RestClient, TLC

CONSTANTS NoImage, NoImageJob, NoDate, NoTrend

ASSUME PartsAssumption == OpAssumption /\ RestAssumption

Symmetry == Permutations(Requests)

MCStoredPairs == {<<1, 1>>}
MCValidPairs == {<<1, 1>>, <<2, 2>>}
MCSubmissions == {<<2, 2>>, <<0, 2>>, <<0, 0>>}

Refusal(httpStatus) == [kind |-> "request", status |-> httpStatus, word |-> "none"]
MCUpstreamFailures == {Refusal(504), Refusal(401)}

Kinds == {"representative", "batch"}
KindOf == [r |-> "representative", s |-> "representative", b |-> "batch"]

Pair(base, quote) == [base |-> base, quote |-> quote]
Listing == {Pair(<<"A">>, "KRW"), Pair(<<"BTC">>, "KRW"), Pair(<<"ETH">>, "BTC"),
            Pair(<<"W", "BTC">>, "KRW")}

Article(url, title, at, mentions, crypto) ==
  [url |-> url, title |-> title, at |-> at, mentions |-> mentions, crypto |-> crypto]
Articles == {Article(1, 1, 2, "text", TRUE), Article(1, 2, 5, "ecosystem", TRUE),
             Article(2, 2, 4, "none", FALSE)}

VARIABLES
  chosen,      \* the part that acts
  \* its state; variables that it does not need stay 0
  x1, x2, x3, x4, x5, x6, x7, x8, x9, x10, x11, x12, x13

PA == INSTANCE PaperOrders WITH
  Order <- {"o1", "o2", "o3"}, Nobody <- "nobody", Coin <- {"c"},
  Price <- {1, 2}, Quantity <- {1}, StartCash <- 3,
  flags <- x1, cash <- x2, holding <- x3, row <- x4, lock <- x5, tx <- x6,
  apart <- x7

CS == INSTANCE CandleSlots WITH
  Market <- {1, 2}, Request <- {"r", "s"}, MinInterval <- 1, Jitter <- 1,
  Cooldown <- 4, MaxAttach <- 2, Margin <- 1, Timeout <- 1, MaxFetches <- 1,
  Concurrency <- 1, WarmupConcurrency <- 1, WarmupDelay <- 1,
  WarmupTimeout <- 1, LastArrival <- 1, MaxTime <- 12,
  now <- x1, nextStartAt <- x2, cooldownUntil <- x3, graphs <- x4,
  inFlight <- x5, status <- x6, dueAt <- x7, todo <- x8, work <- x9,
  deferred <- x10

RC == INSTANCE RequestCache WITH
  Request <- {"r1", "r2", "r3"}, Nobody <- "nobody", Ttl <- 1, StaleTtl <- 2,
  MaxLoad <- 2, Modes <- BOOLEAN, MaxTime <- 5,
  swr <- x1, now <- x2, answers <- x3, entry <- x4, loads <- x5,
  inFlight <- x6, waitsOn <- x7

KR == INSTANCE KimchiRows WITH
  Loader <- {"k"}, Fresh <- 0, Slight <- 1, MarketStale <- 1, FxStale <- 1,
  SkewMax <- 1, LastGoodTtl <- 2, MaxTime <- 2, MaxRestarts <- 1,
  now <- x1, memory <- x2, stored <- x3, late <- x4, lastGood <- x5,
  load <- x6, row <- x7, got <- x8, restarts <- x9

KS == INSTANCE KimchiSnapshots WITH
  Caller <- {"r", "s", "b"}, KindOf <- KindOf, Ttl <- [k \in Kinds |-> 1],
  StaleTtl <- [k \in Kinds |-> 2], MaxLoad <- 1, Fresh <- 0, Slight <- 1,
  MaxTime <- 4,
  now <- x1, cache <- x2, loads <- x3, outcome <- x4, calls <- x5,
  answers <- x6, response <- x7

CA == INSTANCE CandleSnapshots WITH
  Caller <- {"a", "b"}, Job <- {"j1"}, Limit <- {1, 2}, MinFetch <- 1,
  FreshTtl <- 1, UsableTtl <- 2, CooldownBase <- 1, CooldownMax <- 2,
  UnsupportedTtl <- 1, MaxTime <- 2,
  now <- x1, memory <- x2, redis <- x3, writing <- x4, failure <- x5,
  unsupported <- x6, flight <- x7, jobs <- x8, calls <- x9, answers <- x10

SG == INSTANCE SparklineGraphs WITH
  Caller <- {"a"}, Mini <- 1, Shown <- 1, Target <- 2, Big <- 3, FullTtl <- 1,
  PartialTtl <- 1, Usable <- 2, Timeout <- 1, MaxTime <- 4,
  now <- x1, flat <- x2, fast <- x3, lastKnownGood <- x4, ring <- x5,
  warming <- x6, job <- x7, answer <- x8

SP == INSTANCE MarketSparklines WITH
  Caller <- {"a"}, Symbol <- {"s", "u"}, Listed <- {"s"}, FastPath <- 1,
  FreshTtl <- 1, StaleTtl <- 2, UsableTtl <- 3, MaxTime <- 3,
  now <- x1, items <- x2, cache <- x3, refreshing <- x4, calls <- x5,
  answers <- x6

SE == INSTANCE MarketSections WITH
  Exchange <- {"e"}, Symbol <- {"s"}, StaleAfter <- 0, Grace <- 0, MaxAge <- 1,
  listing <- x1, stored <- x2, answer <- x3

AI == INSTANCE AssetImages WITH
  Caller <- {"e"}, Eager <- {"e"}, Asset <- {"a", "b"}, Lookup <- {{"a"}},
  Curated <- {"a"}, Disabled <- {}, Listed <- {}, Aliased <- {}, Warm <- {"b"},
  Stored <- {"a"}, Id <- {1}, IdOf <- [k \in {"a", "b"} |-> 1],
  NoEntry <- NoImage, NoJob <- NoImageJob, Positive <- 2, Fallback <- 1,
  Usable <- 3, NotFoundTtl <- 1, ListTtl <- 2, MaxPasses <- 2, MaxTime <- 0,
  started <- x1, memory <- x2, redis <- x3, pending <- x4, timer <- x5,
  batch <- x6, notFound <- x7, listAt <- x8, call <- x9, now <- x10

PF == INSTANCE PrivateStreams WITH
  Exchange <- {"upbit", "binance"}, Offered <- {"fills"}, Poll <- {1, 2},
  MaxVersion <- 2, Recent <- 2, MaxKnown <- 3, MaxSubs <- 1,
  truth <- x1, socket <- x2, registered <- x3, subs <- x4, timer <- x5,
  inFlight <- x6, running <- x7, walk <- x8, digests <- x9, sentFills <- x10,
  received <- x11, log <- x12, snapshot <- x13

FO == INSTANCE PublicFanout WITH
  Client <- {"a"}, Market <- {"m", "n"}, Channel <- {"tickers", "trades"},
  MaxPublic <- 1, MaxMessages <- 1, MaxNumber <- 2,
  socket <- x1, count <- x2, subs <- x3, held <- x4, published <- x5,
  shown <- x6

ET == INSTANCE ExchangeTickers WITH
  Quote <- {"KRW", "BTC", "ETH"}, Listing <- Listing, Size <- 1,
  Value <- {0, 1}, MaxAsked <- 2,
  exchange <- x1, value <- x2, request <- x3, quotes <- x4, listed <- x5,
  rest <- x6, rows <- x7, missed <- x8, answer <- x9

TP == INSTANCE TickerPages WITH
  Market <- {1, 2, 3}, Value <- {1}, Found <- {1, 3}, Limit <- 1,
  CacheTtl <- 1, CursorTtl <- 1, MaxTime <- 1, MaxMoves <- 1,
  now <- x1, listing <- x2, moves <- x3, cache <- x4, flight <- x5,
  params <- x6, pc <- x7, cursor <- x8, askedAt <- x9, seen <- x10,
  steady <- x11

ML == INSTANCE MarketLists WITH
  Symbol <- {1, 2, 3}, Representative <- {2}, Mapped <- {1},
  Comparable <- {1, 3}, Volume <- {1}, Change <- {1}, Limit <- 2, MaxMoves <- 1,
  items <- x1, moves <- x2, walk <- x3

MS == INSTANCE MarketSnapshots WITH
  Symbol <- {"s", "t"}, Priority <- {"s"}, Target <- 1, PriorityTarget <- 0,
  StaleAfter <- 0, Grace <- 0, RefreshAfter <- 0, HardStaleAfter <- 0,
  UniverseAfter <- 1, MaxTime <- 1, MaxListings <- 1,
  now <- x1, started <- x2, store <- x3, listed <- x4, snap <- x5, flight <- x6

SB == INSTANCE SparklineBatches WITH
  Input <- {"a", "aa", "b", "u", "q", "x", "all"}, Wildcard <- {"all"},
  MarketOf <- [a |-> "A", aa |-> "A", b |-> "B", u |-> "U", q |-> "Q"],
  OtherQuote <- {"Q"}, Listed <- {"A", "B"}, PathLimit <- 2, Workers <- 2,
  MaxInputs <- 3,
  request <- x1, pc <- x2, rows <- x3, next <- x4, busy <- x5, results <- x6,
  answer <- x7

KB == INSTANCE KimchiBatches WITH
  Token <- {"a", "b", "bb", "u", "all"},
  SymbolOf <- [a |-> "A", b |-> "B", bb |-> "B", u |-> "U"],
  Comparable <- {"A", "B"}, Representative <- {"A"}, ChunkSize <- 1,
  FastPath <- 2, MaxTokens <- 3,
  request <- x1, chunks <- x2, answer <- x3

NF == INSTANCE NewsFeed WITH
  Caller <- {"a"}, Item <- Articles, Scope <- {"market"}, Date <- {},
  NoDate <- NoDate, Day <- 3, Offset <- 1, Ttl <- 1, MaxTime <- 1,
  MaxRestarts <- 1, MaxFetched <- 2,
  now <- x1, restarts <- x2, selected <- x3, keyed <- x4, memory <- x5,
  row <- x6, job <- x7, answer <- x8

RE == INSTANCE Relationships WITH
  User <- {"u", "v"}, Call <- {"c", "d"},
  OpOf <- [c |-> {"block", "unblock"}, d |-> {"follow", "unfollow", "view", "list", "delete"}],
  MaxRestarts <- 1,
  memory <- x1, rows <- x2, gone <- x3, calls <- x4, standing <- x5,
  lost <- x6, clean <- x7, restarts <- x8

CO == INSTANCE Community WITH
  User <- {"u", "v"}, Nobody <- "gone", Capacity <- 2, Limit <- 1,
  MaxRequests <- 3,
  posts <- x1, made <- x2, requests <- x3, commented <- x4, liked <- x5,
  voted <- x6, admitted <- x7, deleting <- x8, forgotten <- x9, late <- x10,
  blocked <- x11, walk <- x12

MD == INSTANCE MarketDataStore WITH
  Price <- {1}, MaxStamp <- 3, TickerGap <- 2, TradeGap <- 1, TradeLimit <- 1,
  HistoryLimit <- 1, TrendLimit <- 2, MaxFlight <- 1,
  ticker <- x1, tickerHistory <- x2, trades <- x3, trend <- x4, pending <- x5,
  timer <- x6, flight <- x7, redis <- x8, lost <- x9

MT == INSTANCE MarketTrends WITH
  Caller <- {"a"}, Collector <- "h", NoAnswer <- NoTrend, Value <- {0, 1},
  DayLength <- 1, RangeDays <- 2, Required <- 2, MaxPoints <- 2, MaxTime <- 1,
  MaxRestarts <- 1,
  collector <- x1, snapshots <- x2, history <- x3, rows <- x4, writes <- x5,
  call <- x6, now <- x7, restarts <- x8

CC == INSTANCE ContractCandles WITH
  Caller <- {"a"}, Span <- 2, Limit <- 2, Cap <- 3, CacheTtl <- 1,
  Price <- {1, 2}, MaxTime <- 4,
  now <- x1, traded <- x2, cache <- x3, keptGood <- x4, flight <- x5,
  waiting <- x6, answer <- x7

LC == INSTANCE LiveCandles WITH
  Client <- {"a"}, Price <- {1, 2}, Span <- 2, MaxLate <- 1, MaxTime <- 3,
  now <- x1, started <- x2, tracked <- x3, live <- x4, stored <- x5,
  open <- x6, subs <- x7, awaits <- x8, shown <- x9

partVars == <<x1, x2, x3, x4, x5, x6, x7, x8, x9, x10, x11, x12, x13>>

SumInit ==
  /\ OpInit /\ (chosen = "exchange" \/ row = NoRow)
  /\ RestInit
  /\ \/ /\ chosen \in {"exchange", "rest"}
        /\ x1 = 0 /\ x2 = 0 /\ x3 = 0 /\ x4 = 0 /\ x5 = 0 /\ x6 = 0 /\ x7 = 0
        /\ x8 = 0 /\ x9 = 0 /\ x10 = 0 /\ x11 = 0 /\ x12 = 0 /\ x13 = 0
     \/ /\ chosen = "paper" /\ PA!Init
        /\ x8 = 0 /\ x9 = 0 /\ x10 = 0 /\ x11 = 0 /\ x12 = 0 /\ x13 = 0
     \/ chosen = "slots" /\ CS!Init /\ x11 = 0 /\ x12 = 0 /\ x13 = 0
     \/ /\ chosen = "cache" /\ RC!Init
        /\ x8 = 0 /\ x9 = 0 /\ x10 = 0 /\ x11 = 0 /\ x12 = 0 /\ x13 = 0
     \/ /\ chosen = "premium rows" /\ KR!Init
        /\ x10 = 0 /\ x11 = 0 /\ x12 = 0 /\ x13 = 0
     \/ /\ chosen = "kimchi" /\ KS!Init
        /\ x8 = 0 /\ x9 = 0 /\ x10 = 0 /\ x11 = 0 /\ x12 = 0 /\ x13 = 0
     \/ chosen = "candles" /\ CA!Init /\ x11 = 0 /\ x12 = 0 /\ x13 = 0
     \/ /\ chosen = "graphs" /\ SG!Init
        /\ x9 = 0 /\ x10 = 0 /\ x11 = 0 /\ x12 = 0 /\ x13 = 0
     \/ /\ chosen = "sparklines" /\ SP!Init
        /\ x7 = 0 /\ x8 = 0 /\ x9 = 0 /\ x10 = 0 /\ x11 = 0 /\ x12 = 0 /\ x13 = 0
     \/ /\ chosen = "sections" /\ SE!Init
        /\ x4 = 0 /\ x5 = 0 /\ x6 = 0 /\ x7 = 0 /\ x8 = 0 /\ x9 = 0 /\ x10 = 0 /\ x11 = 0 /\ x12 = 0 /\ x13 = 0
     \/ chosen = "images" /\ AI!Init /\ x11 = 0 /\ x12 = 0 /\ x13 = 0
     \/ chosen = "fills" /\ PF!Init
     \/ /\ chosen = "fanout" /\ FO!Init
        /\ x7 = 0 /\ x8 = 0 /\ x9 = 0 /\ x10 = 0 /\ x11 = 0 /\ x12 = 0 /\ x13 = 0
     \/ chosen = "rows" /\ ET!Init /\ x10 = 0 /\ x11 = 0 /\ x12 = 0 /\ x13 = 0
     \/ chosen = "pages" /\ TP!Init /\ x12 = 0 /\ x13 = 0
     \/ /\ chosen = "lists" /\ ML!Init
        /\ x4 = 0 /\ x5 = 0 /\ x6 = 0 /\ x7 = 0 /\ x8 = 0 /\ x9 = 0 /\ x10 = 0 /\ x11 = 0 /\ x12 = 0 /\ x13 = 0
     \/ /\ chosen = "snapshots" /\ MS!Init
        /\ x7 = 0 /\ x8 = 0 /\ x9 = 0 /\ x10 = 0 /\ x11 = 0 /\ x12 = 0 /\ x13 = 0
     \/ /\ chosen = "batches" /\ SB!Init
        /\ x8 = 0 /\ x9 = 0 /\ x10 = 0 /\ x11 = 0 /\ x12 = 0 /\ x13 = 0
     \/ /\ chosen = "premiums" /\ KB!Init
        /\ x4 = 0 /\ x5 = 0 /\ x6 = 0 /\ x7 = 0 /\ x8 = 0 /\ x9 = 0 /\ x10 = 0 /\ x11 = 0 /\ x12 = 0 /\ x13 = 0
     \/ /\ chosen = "news" /\ NF!Init
        /\ x9 = 0 /\ x10 = 0 /\ x11 = 0 /\ x12 = 0 /\ x13 = 0
     \/ /\ chosen = "relations" /\ RE!Init
        /\ x9 = 0 /\ x10 = 0 /\ x11 = 0 /\ x12 = 0 /\ x13 = 0
     \/ chosen = "community" /\ CO!Init /\ x13 = 0
     \/ /\ chosen = "store" /\ MD!StoreInit
        /\ x10 = 0 /\ x11 = 0 /\ x12 = 0 /\ x13 = 0
     \/ /\ chosen = "trends" /\ MT!Init
        /\ x9 = 0 /\ x10 = 0 /\ x11 = 0 /\ x12 = 0 /\ x13 = 0
     \/ /\ chosen = "contract" /\ CC!Init
        /\ x8 = 0 /\ x9 = 0 /\ x10 = 0 /\ x11 = 0 /\ x12 = 0 /\ x13 = 0
     \/ chosen = "live" /\ LC!Init /\ x10 = 0 /\ x11 = 0 /\ x12 = 0 /\ x13 = 0

SumNext ==
  /\ UNCHANGED chosen
  /\ \/ /\ chosen = "exchange" /\ OpNext
        /\ UNCHANGED <<partVars, restVars>>
     \/ /\ chosen = "rest" /\ RestNext
        /\ UNCHANGED <<partVars, vars>>
     \/ /\ UNCHANGED <<vars, restVars>>
        /\ \/ /\ chosen = "paper" /\ PA!Next
              /\ UNCHANGED <<x8, x9, x10, x11, x12, x13>>
           \/ chosen = "slots" /\ CS!Next /\ UNCHANGED <<x11, x12, x13>>
           \/ /\ chosen = "cache" /\ RC!Next
              /\ UNCHANGED <<x8, x9, x10, x11, x12, x13>>
           \/ /\ chosen = "premium rows" /\ KR!Next
              /\ UNCHANGED <<x10, x11, x12, x13>>
           \/ /\ chosen = "kimchi" /\ KS!Next
              /\ UNCHANGED <<x8, x9, x10, x11, x12, x13>>
           \/ chosen = "candles" /\ CA!Next /\ UNCHANGED <<x11, x12, x13>>
           \/ /\ chosen = "graphs" /\ SG!Next
              /\ UNCHANGED <<x9, x10, x11, x12, x13>>
           \/ /\ chosen = "sparklines" /\ SP!Next
              /\ UNCHANGED <<x7, x8, x9, x10, x11, x12, x13>>
           \/ /\ chosen = "sections" /\ SE!Next
              /\ UNCHANGED <<x4, x5, x6, x7, x8, x9, x10, x11, x12, x13>>
           \/ chosen = "images" /\ AI!Next /\ UNCHANGED <<x11, x12, x13>>
           \/ chosen = "fills" /\ PF!Next
           \/ /\ chosen = "fanout" /\ FO!Next
              /\ UNCHANGED <<x7, x8, x9, x10, x11, x12, x13>>
           \/ chosen = "rows" /\ ET!Next /\ UNCHANGED <<x10, x11, x12, x13>>
           \/ chosen = "pages" /\ TP!Next /\ UNCHANGED <<x12, x13>>
           \/ /\ chosen = "lists" /\ ML!Next
              /\ UNCHANGED <<x4, x5, x6, x7, x8, x9, x10, x11, x12, x13>>
           \/ /\ chosen = "snapshots" /\ MS!Next
              /\ UNCHANGED <<x7, x8, x9, x10, x11, x12, x13>>
           \/ /\ chosen = "batches" /\ SB!Next
              /\ UNCHANGED <<x8, x9, x10, x11, x12, x13>>
           \/ /\ chosen = "premiums" /\ KB!Next
              /\ UNCHANGED <<x4, x5, x6, x7, x8, x9, x10, x11, x12, x13>>
           \/ /\ chosen = "news" /\ NF!Next
              /\ UNCHANGED <<x9, x10, x11, x12, x13>>
           \/ /\ chosen = "relations" /\ RE!Next
              /\ UNCHANGED <<x9, x10, x11, x12, x13>>
           \/ chosen = "community" /\ CO!Next /\ UNCHANGED x13
           \/ /\ chosen = "store" /\ MD!StoreNext
              /\ UNCHANGED <<x10, x11, x12, x13>>
           \/ /\ chosen = "trends" /\ MT!Next
              /\ UNCHANGED <<x9, x10, x11, x12, x13>>
           \/ /\ chosen = "contract" /\ CC!Next
              /\ UNCHANGED <<x8, x9, x10, x11, x12, x13>>
           \/ chosen = "live" /\ LC!Next /\ UNCHANGED <<x10, x11, x12, x13>>

sumVars == <<chosen, partVars, vars, restVars>>

SumSpec == SumInit /\ [][SumNext]_sumVars

-----------------------------------------------------------------------------

(* The books balance: every order an exchange accepted is on record, but for *)
(* those whose record failed, and paper orders that did not overlap leave    *)
(* cash and holdings that add up.                                            *)
LedgersBalance ==
  /\ OrderLedger
  /\ chosen = "paper" => PA!BooksBalance

(* However many requests and warm-ups reserve slots before it, a list of     *)
(* sparklines is answered by its budget and one call's timeout; and a key is *)
(* being warmed by one target at most.                                       *)
SlotsKeepTime == chosen = "slots" => CS!TypeOK /\ CS!SlotsKeepTime

(* The Kimchi snapshots keep the safety of BoundedStaleness: answers of      *)
(* bounded age, never older than what was handed out before.                 *)
SnapshotsKeepPromise ==
  [][chosen = "kimchi" => KS!Representatives!AStep /\ KS!Batches!AStep]_sumVars

(* Whoever is refused, told that it is cold or shown nothing could not have  *)
(* been given what was kept: neither by the provider cache, nor by a premium *)
(* row whose component was received lately, nor by the Kimchi snapshots.     *)
NothingUsableWasKept ==
  [][/\ chosen = "cache" => RC!ErrorOnlyWithoutStale
     /\ chosen = "premium rows" => KR!ColdMeansNothingKept
     /\ chosen = "kimchi" => KS!ReadyWhileAnyUsable]_sumVars

(* What is labelled live or loaded is, and nothing is shown later than it    *)
(* may be: premium rows, the candles of the charts, the sparkline graphs and *)
(* the graphs that stand in for a market's item.                             *)
LabelsAreTrue ==
  /\ chosen = "premium rows" => KR!LoadedIsLive
  /\ chosen = "candles" => CA!CandlesInTime
  /\ chosen = "graphs" => SG!TypeOK /\ SG!CandlesNotTooOld
  /\ chosen = "sparklines" => SP!LastGraphShown

(* A failing or empty load takes nothing away: tickers that are there stay   *)
(* in the answer, and a real image is not replaced by a placeholder          *)
(* (getMarketTickers, AssetMetadataService).                                 *)
NothingLost ==
  [][/\ chosen = "sections" => SE!TickersNotLost
     /\ chosen = "images" => AI!ImagesKept]_sumVars

(* Asset keys that wait for their image always have a timer or a batch to    *)
(* take them on, and an eager call that waited sees an entry for each.       *)
ImagesResolved ==
  chosen = "images" => AI!TypeOK /\ AI!PendingIsCarried /\ AI!EagerSeesEntries

(* Of the last fills the client was sent none was sent twice, whatever polls *)
(* failed and however it subscribed meanwhile (pollPrivateClient); and who   *)
(* is subscribed to a public topic has been shown its newest value.          *)
PushedOnceAndUpToDate ==
  /\ chosen = "fills" => PF!TypeOK /\ PF!FillsNotRepeated
  /\ chosen = "fanout" => FO!SubscribersUpToDate

(* A row of the answer is of a market that was asked for and exists, with    *)
(* its own price; a walk through the pages of the tickers shows a market     *)
(* that did not change once, and one through the markets' pages all of them. *)
ListsSound ==
  /\ chosen = "rows" => ET!TypeOK /\ ET!RowsAreMarkets
  /\ chosen = "pages" => TP!SteadyShownOnce
  /\ chosen = "lists" => ML!PagesCover

(* Nothing that was asked for is missing from an answer that is made of many *)
(* loads: the items and failures of a snapshot, of a batch of sparklines and *)
(* of a batch of premiums account for each symbol.                           *)
AnswersAddUp ==
  /\ chosen = "snapshots" => MS!AnswersAddUp
  /\ chosen = "batches" => SB!BatchAddsUp
  /\ chosen = "premiums" => KB!EveryTokenAccountedFor

(* News answered as fresh was fetched within its time, what was kept is      *)
(* answered when nothing can be fetched, and of what was fetched only what   *)
(* repeats a url or a title is left out (NewsService).                       *)
NewsSound == chosen = "news" => NF!NewsSound

(* What the proofs about these parts take as hypotheses holds of the         *)
(* constants given to them here.                                             *)
ASSUME InstancesAssumption ==
  /\ KS!KimchiAssumption /\ KR!RowsAssumption /\ LC!LiveAssumption
  /\ CA!CandleAssumption /\ CS!SlotAssumption /\ RE!RelationAssumption
  /\ SG!GraphAssumption /\ SP!SparklineAssumption
  /\ NF!NewsAssumption /\ CO!CommunityAssumption /\ ML!ListAssumption
  /\ PA!PaperAssumption /\ AI!ImagesAssumption
  /\ MT!TrendsAssumption /\ PF!FillsAssumption /\ TP!PagesAssumption
  /\ ET!ExchangeAssumption /\ SB!BatchAssumption /\ KB!KimchiBatchAssumption
  /\ CC!ContractAssumption

(* Nobody comes to follow across a block that stands, of a deleted user      *)
(* nothing is left behind that was not under way, and a walk through the     *)
(* posts repeats none and misses none but those its cursors name.            *)
CommunityHolds ==
  /\ [][chosen = "relations" => RE!BlockForbidsFollow]_sumVars
  /\ [](chosen = "relations" => RE!TypeOK /\ RE!GoneLeaveNoTrace)
  /\ [](chosen = "community" => CO!TypeOK /\ CO!GoneAreNotNamed /\ CO!WalkAddsUp)

(* Points of a trend and of the market's history come in the order of their  *)
(* times, one for each, whatever order what they are made of came in.        *)
TrendsInOrder ==
  /\ chosen = "store" => MD!StoreTypeOK /\ MD!TrendOrdered
  /\ chosen = "trends" => MT!TypeOK /\ MT!TrendsInOrder

(* Candles contain their prices: the low and the high bound the open and the *)
(* close, and no bucket is missing, repeated or out of order; and a client   *)
(* of live candles is shown the candle the stream is at.                     *)
CandlesWhole ==
  /\ [](chosen = "contract" => CC!CandlesWhole)
  /\ [](chosen = "live" => LC!LiveCandleSane)
  /\ [][chosen = "live" => LC!ShownIsCurrent]_sumVars
===============================================================================
