--------------------------- MODULE MarketSnapshots ---------------------------
(***************************************************************************)
(* The snapshot cache of one exchange (domains/market-data/                *)
(* market-data.service.ts) over the public store: an entry with one item   *)
(* for each listed market, replaced by refreshes that first load the       *)
(* listing and then the tickers (ticker-snapshot.resolver.ts), and changed *)
(* in place by every ticker and trade of the stream.                       *)
(*                                                                         *)
(* A ticker is the time it carries.  What runs between two awaits is one   *)
(* action.                                                                 *)
(***************************************************************************)
EXTENDS Integers, FiniteSets

CONSTANTS
  Symbol,
  Priority,                 \* getRepresentativeSymbolsForExchange
  Target, PriorityTarget,   \* PRIORITY_FRESHNESS_TARGET_MS
  StaleAfter, Grace,        \* MARKET_DATA_STALE_THRESHOLD_MS, _STALE_GRACE_MS
  RefreshAfter, HardStaleAfter, UniverseAfter,
  MaxTime,                  \* bound on the clock
  MaxListings               \* bound on the changes of what is listed

VARIABLES
  now, started,
  store,     \* publicMarketDataStore.getTicker: a time, or None
  listed,    \* what the exchange lists (tradable), and how often it changed
  snap,      \* exchangeMarketSnapshotCache
  flight     \* exchangeMarketSnapshotRefreshInFlight

vars == <<now, started, store, listed, snap, flight>>

None     == -1
NoSnap   == [bundle |-> {}, items |-> <<>>, failed |-> {}, refreshedAt |-> -1,
             loadedAt |-> -1]
NoFlight == [stage |-> "none"]

Init ==
  /\ now = 0 /\ started = FALSE
  /\ store = [s \in Symbol |-> None]
  /\ listed \in [symbols : SUBSET Symbol, changes : {0}]
  /\ snap = NoSnap
  /\ flight = NoFlight

-----------------------------------------------------------------------------
(* getExchangeTickerLoads: what the store can say of a symbol.             *)
AgeOf(at)   == IF at > now THEN 0 ELSE now - at
TargetOf(s) == IF s \in Priority THEN PriorityTarget ELSE Target

LoadKind(s, at) ==
  IF at = None THEN "miss"
  ELSE IF AgeOf(at) > TargetOf(s) THEN "too old"
  ELSE IF AgeOf(at) <= StaleAfter THEN "hit"
  ELSE IF AgeOf(at) <= StaleAfter + Grace THEN "grace"
  ELSE "expired"

(* The source of a load, resolveTickerDataMode and                         *)
(* mapTickerDataModeToSnapshotSource.                                      *)
SourceOf(kind, answered) ==
  IF kind = "hit" THEN "public_store_cache"
  ELSE IF answered \/ kind = "miss" THEN "provider_snapshot"
  ELSE IF kind = "expired" THEN "public_store_expired"
  ELSE "public_store_stale"

ModeOf(source) ==
  CASE source = "public_store_cache" -> "streaming"
    [] source = "provider_snapshot"  -> "snapshot"
    [] OTHER                         -> "cached_snapshot"

(* createFreshnessMetadata, createSnapshotItemFromTicker and               *)
(* createPendingSnapshotItem.                                              *)
IsStale(at) == AgeOf(at) > StaleAfter

ItemOf(at, mode) ==
  [at     |-> at,
   status |-> IF IsStale(at) THEN "stale" ELSE "live",
   source |-> CASE mode = "snapshot" -> "snapshot"
                [] mode = "cached_snapshot" /\ IsStale(at) -> "fallback"
                [] OTHER -> "cache"]
Pending == [at |-> None, status |-> "pending", source |-> "cache"]

StreamMode(at)   == IF IsStale(at) THEN "cached_snapshot" ELSE "streaming"
StreamItem(at)   == ItemOf(at, StreamMode(at))

-----------------------------------------------------------------------------
(* buildSnapshotItemsFromRows and buildExchangeSnapshotCacheEntry.         *)
Entry(bundle, rows, loadedAt) ==
  LET items == [s \in bundle |-> IF s \in DOMAIN rows THEN rows[s] ELSE Pending]
  IN  [bundle      |-> bundle,
       items       |-> items,
       failed      |-> {s \in bundle : items[s].status # "live"},
       refreshedAt |-> now,
       loadedAt    |-> loadedAt]

(* buildTickerRowsFromPublicStore: every symbol of the store, listed or    *)
(* not.                                                                    *)
StoreRows == [s \in {t \in Symbol : store[t] # None} |-> StreamItem(store[s])]

(* refreshExchangeMarketSnapshotCache from the rows on.  Without a listing *)
(* nothing is built; without rows what there was stays.                    *)
EndsFlight(loaded, rows, bundle, loadedAt) ==
  /\ flight' = NoFlight
  /\ snap' = IF ~loaded \/ (DOMAIN rows = {} /\ snap # NoSnap)
             THEN snap ELSE Entry(bundle, rows, loadedAt)

Loading(bundle, loadedAt) ==
  [stage |-> "tickers", bundle |-> bundle, loadedAt |-> loadedAt, kept |-> store]

(* A refresh joins the one in flight, whatever that one was asked to do.   *)
Refreshes(provider, force) ==
  flight' =
    IF flight # NoFlight THEN flight
    ELSE IF force \/ snap = NoSnap \/ now - snap.loadedAt >= UniverseAfter
    THEN [stage |-> "universe", provider |-> provider]
    ELSE Loading(snap.bundle, snap.loadedAt)

(* buildProviderMarketUniverse has come back, or failed and the listing of *)
(* before is kept; the binance listing it compares with is loaded first.   *)
UniverseEnds(known, bundle, loadedAt) ==
  /\ flight.stage = "universe"
  /\ IF known /\ flight.provider
     THEN flight' = Loading(bundle, loadedAt) /\ UNCHANGED snap
     ELSE EndsFlight(known, StoreRows, bundle, loadedAt)
  /\ UNCHANGED <<now, started, store, listed>>

UniverseLoads == UniverseEnds(TRUE, listed.symbols, now)
UniverseFails == UniverseEnds(snap # NoSnap, snap.bundle, snap.loadedAt)

(* loadTickerRowsFromSources: the provider is asked for what the store had *)
(* not, or not young enough, when the load began.  It answers some of them *)
(* (all chunks or none, a chunk that fails fails them all), with tickers   *)
(* as old as the last trade there; for the others what was in the store    *)
(* then is used, however old.                                              *)
TickersLoad ==
  /\ flight.stage = "tickers"
  /\ LET kept   == flight.kept
         kind   == [s \in flight.bundle |-> LoadKind(s, kept[s])]
         wanted == {s \in flight.bundle : kind[s] \in {"miss", "too old", "expired"}}
     IN  \E answered \in SUBSET wanted : \E at \in [answered -> 0 .. now] :
           LET rows == [s \in {t \in flight.bundle : kept[t] # None \/ t \in answered}
                          |-> ItemOf(IF s \in answered THEN at[s] ELSE kept[s],
                                     ModeOf(SourceOf(kind[s], s \in answered)))]
           IN  EndsFlight(TRUE, rows, flight.bundle, flight.loadedAt)
  /\ UNCHANGED <<now, started, store, listed>>

-----------------------------------------------------------------------------
(* Variant: a projection does not touch the list of failures.              *)
ProjectedKeepsFailures(e, s, at) ==
  [e EXCEPT !.items[s] = StreamItem(at), !.refreshedAt = now]

(* updateCachedSnapshotItemProjection and synchronizeCachedSnapshotFailure. *)
(* The time of the refresh is set: the entry counts as refreshed.          *)
Projected(e, s, at) ==
  [e EXCEPT !.items[s] = StreamItem(at),
            !.failed = (@ \ {s}) \cup (IF IsStale(at) THEN {s} ELSE {}),
            !.refreshedAt = now]

Projects(s, at) ==
  snap' = IF started /\ snap # NoSnap /\ s \in snap.bundle /\ at # None
          THEN Projected(snap, s, at) ELSE snap

(* A ticker of the stream: the store takes it, then the listeners see it.  *)
TickerArrives(s) ==
  \E at \in {now, now - 1} \cap Nat :
    /\ store' = [store EXCEPT ![s] = at]
    /\ Projects(s, at)
    /\ UNCHANGED <<now, started, listed, flight>>

TradeArrives(s) ==
  /\ Projects(s, store[s])
  /\ UNCHANGED <<now, started, store, listed, flight>>

(* startMarketSnapshotCache, stopMarketSnapshotCache and the interval.     *)
Starts ==
  /\ ~started /\ started' = TRUE
  /\ Refreshes(FALSE, TRUE)
  /\ UNCHANGED <<now, store, listed, snap>>

Stops ==
  /\ started /\ started' = FALSE
  /\ UNCHANGED <<now, store, listed, snap, flight>>

IntervalFires ==
  /\ started
  /\ Refreshes(FALSE, TRUE)
  /\ UNCHANGED <<now, started, store, listed, snap>>

(* getMarketSnapshot: an entry that has not been refreshed for a while is  *)
(* served and refreshed behind.  A second, forced refresh of one that is   *)
(* hard stale joins the first.                                             *)
AsksSnapshot ==
  /\ IF snap = NoSnap THEN Refreshes(TRUE, TRUE)
     ELSE /\ now - snap.refreshedAt > RefreshAfter
          /\ Refreshes(TRUE, flight # NoFlight /\ now - snap.refreshedAt > HardStaleAfter)
  /\ UNCHANGED <<now, started, store, listed, snap>>

(* ensureViewportExchangeMarketSnapshot.                                   *)
AsksViewport ==
  /\ snap = NoSnap \/ now - snap.loadedAt > UniverseAfter
  /\ Refreshes(FALSE, TRUE)
  /\ UNCHANGED <<now, started, store, listed, snap>>

(* The exchange lists a market, or delists one.                            *)
Lists ==
  /\ listed.changes < MaxListings
  /\ \E s \in Symbol :
       listed' = [symbols |-> IF s \in listed.symbols THEN listed.symbols \ {s}
                              ELSE listed.symbols \cup {s},
                  changes |-> listed.changes + 1]
  /\ UNCHANGED <<now, started, store, snap, flight>>

Tick ==
  /\ now < MaxTime
  /\ now' = now + 1
  /\ UNCHANGED <<started, store, listed, snap, flight>>

Next ==
  \/ \E s \in Symbol : TickerArrives(s) \/ TradeArrives(s)
  \/ UniverseLoads \/ UniverseFails \/ TickersLoad
  \/ Starts \/ Stops \/ IntervalFires \/ AsksSnapshot \/ AsksViewport
  \/ Lists \/ Tick

Spec == Init /\ [][Next]_vars

-----------------------------------------------------------------------------
(* filterSnapshotItemsForSymbols, summarizeSnapshotStatus and              *)
(* summarizeSnapshotSource of an answer.                                   *)
Answer(e, symbols) ==
  LET found  == symbols \cap e.bundle
      shown  == {s \in found : e.items[s].status # "pending"}
      from   == {e.items[s].source : s \in found}
  IN  [items    |-> found,
       unlisted |-> symbols \ e.bundle,
       failures |-> (e.failed \cap symbols) \cup (symbols \ e.bundle),
       status   |-> IF shown = {} THEN "failure"
                    ELSE IF \E s \in found : e.items[s].status # "live" THEN "partial_success"
                    ELSE "success",
       source   |-> CASE from = {} -> "snapshot"
                      [] Cardinality(from) = 1 -> CHOOSE f \in from : TRUE
                      [] OTHER -> "mixed"]

(* Whatever symbols are asked for, and however refreshes and the stream    *)
(* have taken turns on the entry, every symbol comes back as an item or as *)
(* unlisted, exactly the symbols without a live item have a failure, and   *)
(* the status agrees (partialFailures is kept apart from the items).       *)
AnswersAddUp ==
  snap # NoSnap =>
    \A symbols \in SUBSET Symbol :
      LET a == Answer(snap, symbols)
      IN  /\ a.items \cup a.unlisted = symbols
          /\ a.failures = {s \in symbols :
                s \notin a.items \/ snap.items[s].status # "live"}
          /\ a.status = "success" => a.failures = a.unlisted

=============================================================================
