--------------------------- MODULE MarketSparklines --------------------------
(***************************************************************************)
(* The graphs of the market list of one exchange: getMarketSparkline and   *)
(* refreshMarketSparklineRows (domains/market-data/market-data.service.ts) *)
(* with their cache of rows.  A row has a graph or has too few points for  *)
(* one.                                                                    *)
(***************************************************************************)
EXTENDS Integers, FiniteSets

CONSTANTS
  Caller, Symbol,
  Listed,                        \* the symbols of the exchange's listing
  FastPath,                      \* as many symbols may be served stale (20)
  FreshTtl, StaleTtl, UsableTtl, \* MARKET_SPARKLINE_*_TTL_MS
  MaxTime                        \* bound on the clock

SparklineAssumption ==
  /\ {FreshTtl, StaleTtl, UsableTtl} \subseteq Nat
  /\ FreshTtl <= StaleTtl /\ StaleTtl <= UsableTtl

VARIABLES
  now,
  items,      \* the snapshot items: without a graph, or with one
  cache,      \* marketSparklineCache
  refreshing, \* marketSparklineRefreshInFlight: sets of symbols
  calls, answers

vars == <<now, items, cache, refreshing, calls, answers>>

NoRow      == [graph |-> FALSE, at |-> -1]
Row(graph) == [graph |-> graph, at |-> now]
Idle       == [stage |-> "idle"]

Init ==
  /\ now = 0
  /\ items \in [Listed -> {"bare", "graph"}]
  /\ cache = [s \in Listed |-> NoRow]
  /\ refreshing = {}
  /\ calls = [c \in Caller |-> Idle]
  /\ answers = [c \in Caller |-> Idle]

YoungerThan(row, ttl) == row # NoRow /\ row.at + ttl > now

-----------------------------------------------------------------------------
(* Where the graph of a listed symbol is taken from when it is asked for.  *)
Source(s, allowStale, fast) ==
  IF YoungerThan(cache[s], FreshTtl) THEN "fresh_cache"
  ELSE IF allowStale /\ YoungerThan(cache[s], StaleTtl) THEN "stale_cache"
  ELSE IF allowStale /\ fast /\ cache[s].graph /\ YoungerThan(cache[s], UsableTtl)
    THEN "stale_cache"
  ELSE IF items[s] = "graph" THEN "snapshot"
  ELSE "provider_fetch"

(* What a symbol shows in an answer.                                       *)
Shown(source, row) == [source |-> source, row |-> row]

(* An answer: usable and missing symbols, the source and the freshness of  *)
(* the whole (summarizeSparklineResponseSource, summarizeSparklineFreshness). *)
Answered(call, shown, unavailable) ==
  LET usable  == {s \in DOMAIN shown : shown[s].row.graph}
      from    == {IF shown[s].source = "snapshot" THEN "fresh_cache" ELSE shown[s].source :
                    s \in {t \in DOMAIN shown : \/ shown[t].source # "snapshot"
                                              \/ shown[t].row.graph}}
  IN  [stage     |-> "answered",
       call      |-> call,
       shown     |-> shown,
       usable    |-> usable,
       missing   |-> call.symbols \ usable,
       unavailable |-> unavailable,
       source    |-> IF Cardinality(from) = 1 THEN CHOOSE f \in from : TRUE ELSE "mixed"]

Answers(c, a) ==
  /\ answers' = [answers EXCEPT ![c] = a]
  /\ calls' = [calls EXCEPT ![c] = Idle]

(* Rows that are served stale are refreshed behind, a set of symbols once. *)
RefreshesStale(stale, fast) ==
  refreshing' = IF fast /\ stale # {} THEN refreshing \cup {stale} ELSE refreshing

(* A snapshot item with a graph is cached as if it was new.                *)
Asks(c, symbols, allowStale) ==
  /\ calls[c] = Idle
  /\ LET fast   == Cardinality(symbols) <= FastPath
         known  == symbols \cap Listed
         source == [s \in known |-> Source(s, allowStale, fast)]
         from(k) == {s \in known : source[s] = k}
         rowOf(s) == IF source[s] = "snapshot" THEN Row(TRUE) ELSE cache[s]
         call   == [stage    |-> "hydrating",
                    symbols  |-> symbols,
                    shown    |-> [s \in known \ from("provider_fetch")
                                    |-> Shown(source[s], rowOf(s))],
                    hydrate  |-> from("provider_fetch"),
                    fallback |-> [s \in {t \in from("provider_fetch") :
                                     allowStale /\ cache[t].graph
                                       /\ YoungerThan(cache[t], UsableTtl)}
                                    |-> cache[s]],
                    owed     |-> {t \in known : allowStale /\ cache[t].graph
                                     /\ YoungerThan(cache[t], UsableTtl)},
                    began    |-> now]
     IN  /\ cache' = [s \in Listed |-> IF s \in from("snapshot") THEN Row(TRUE)
                                                                ELSE cache[s]]
         /\ RefreshesStale(from("stale_cache"), fast)
         /\ IF call.hydrate = {}
            THEN Answers(c, Answered(call, call.shown, {}))
            ELSE /\ calls' = [calls EXCEPT ![c] = call]
                 /\ answers' = [answers EXCEPT ![c] = Idle]
  /\ UNCHANGED <<now, items>>

-----------------------------------------------------------------------------

(* A symbol whose ticker was asked for: the ticker's row if it has a graph, *)
(* the cached row that is still usable, the ticker's row without a graph,  *)
(* the snapshot item as it is by now.                                      *)
Hydrated(call, s, graph) ==
  IF graph = "graph" \/ (graph = "few" /\ s \notin DOMAIN call.fallback)
  THEN Shown("provider_fetch", Row(graph = "graph"))
  ELSE IF s \in DOMAIN call.fallback THEN Shown("stale_cache", call.fallback[s])
  ELSE Shown("snapshot", [graph |-> items[s] = "graph", at |-> now])

(* getExchangeTickerLoads has answered the call: per symbol a ticker with  *)
(* the points of a graph, with fewer, or no ticker.                        *)
Hydrates(c) ==
  /\ calls[c] # Idle
  /\ LET call == calls[c]
     IN  \E found \in [call.hydrate -> {"graph", "few", "none"}] :
           LET fresh == [s \in call.hydrate |-> Hydrated(call, s, found[s])]
               shown == [s \in DOMAIN call.shown \cup call.hydrate |->
                           IF s \in call.hydrate THEN fresh[s] ELSE call.shown[s]]
               fetched == {s \in call.hydrate : fresh[s].source = "provider_fetch"}
           IN  /\ cache' = [s \in Listed |-> IF s \in fetched THEN fresh[s].row
                                                              ELSE cache[s]]
               /\ Answers(c, Answered(call, shown,
                    {s \in call.hydrate : \/ fresh[s].source = "snapshot"
                                          \/ s \in fetched /\ ~fresh[s].row.graph}))
  /\ UNCHANGED <<now, items, refreshing>>

(* refreshMarketSparklineRows: each row with a ticker is cached, one       *)
(* without a graph over one with a graph too.                              *)
RefreshEnds ==
  \E symbols \in refreshing :
    /\ \E found \in [symbols -> {"graph", "few", "none"}] :
         cache' = [s \in Listed |-> IF s \in symbols /\ found[s] # "none"
                                    THEN Row(found[s] = "graph") ELSE cache[s]]
    /\ refreshing' = refreshing \ {symbols}
    /\ UNCHANGED <<now, items, calls, answers>>

(* The stream or a refresh of the snapshot moves an item.                  *)
ItemMoves ==
  \E s \in Listed : \E to \in {"bare", "graph"} :
    /\ items' = [items EXCEPT ![s] = to]
    /\ UNCHANGED <<now, cache, refreshing, calls, answers>>

Tick ==
  /\ now < MaxTime
  /\ now' = now + 1
  /\ UNCHANGED <<items, cache, refreshing, calls, answers>>

Next ==
  \/ \E c \in Caller :
       \/ Hydrates(c)
       \/ \E symbols \in (SUBSET Symbol) \ {{}}, allowStale \in BOOLEAN :
            Asks(c, symbols, allowStale)
  \/ RefreshEnds \/ ItemMoves \/ Tick

Spec == Init /\ [][Next]_vars

-----------------------------------------------------------------------------
(* A caller that takes stale graphs is never shown less than the cache     *)
(* could show when it asked (getMarketSparkline): the graph that was there *)
(* and usable, or a newer one; and nothing it is shown was cached longer   *)
(* ago than its source may be.                                             *)
LastGraphShown ==
  \A c \in Caller :
    LET a == answers[c]
    IN  a # Idle =>
          /\ a.call.owed \subseteq a.usable
          /\ \A s \in DOMAIN a.shown :
               LET age == a.call.began - a.shown[s].row.at
               IN  CASE a.shown[s].source = "fresh_cache" -> age < FreshTtl
                     [] a.shown[s].source = "stale_cache" ->
                          /\ age < UsableTtl
                          /\ age < StaleTtl \/ a.shown[s].row.graph
                     [] OTHER -> age <= 0
=============================================================================
