----------------------------- MODULE KimchiRows -----------------------------
(***************************************************************************)
(* One row of the kimchi premium (src/domains/kimchi-premium/              *)
(* kimchi-premium.service.ts): three components, the USD/KRW rate, the     *)
(* Binance reference and the domestic ticker, each fetched with a timeout  *)
(* and each retained as last known good for a while, and the rate's own    *)
(* provider (src/providers/fx/exchange-rate-host.provider.ts) with its     *)
(* memory, its Redis copy and the configured fallback rate it starts with. *)
(*                                                                         *)
(* A component is its timestamp; prices are positive, so a premium exists  *)
(* as soon as the three components do.  Ages are compared with thresholds  *)
(* that keep the order of the code's: Fresh < Slight < MarketStale.        *)
(***************************************************************************)
EXTENDS Integers, FiniteSets, FiniteSetsExt

CONSTANTS Loader,          \* snapshot loads that may overlap
          Fresh, Slight, MarketStale, FxStale, SkewMax, LastGoodTtl,
          MaxTime, MaxRestarts

RowsAssumption ==
  /\ Fresh \in Nat /\ Slight \in Nat /\ MarketStale \in Nat /\ FxStale \in Nat
  /\ SkewMax \in Nat /\ LastGoodTtl \in Nat

VARIABLES now,
          memory, stored,  \* the provider's memoryCache and its Redis copy
          late,            \* a rate request no load waits for is on its way
          lastGood,        \* kimchiLastKnownGoodStore
          load,            \* where each load is, the rate it got, and
                           \* (history) whether there was none to get
          row,             \* the row that was made last
          got,             \* history: when each component was last received
          restarts

vars == <<now, memory, stored, late, lastGood, load, row, got, restarts>>

None == -1
NoRate == [provider |-> "none", kept |-> FALSE, at |-> None]
Fallback(t) == [provider |-> "fallback", kept |-> FALSE, at |-> t]
HostRate(t) == [provider |-> "host", kept |-> FALSE, at |-> t]
Nothing == [fx |-> NoRate, reference |-> None, domestic |-> None]
NeverGot == [fx |-> None, reference |-> None, domestic |-> None]
NoLoad == [pc |-> "idle", fx |-> NoRate, failed |-> FALSE, cold |-> FALSE]
NoRow == [status |-> "none", code |-> "none", stable |-> "none", hint |-> "none",
          fallback |-> FALSE, kept |-> FALSE, oldest |-> None, skew |-> 0]

Init == /\ now = 0 /\ memory = Fallback(0) /\ stored = NoRate
        /\ late = FALSE /\ lastGood = Nothing
        /\ load = [l \in Loader |-> NoLoad] /\ row = NoRow
        /\ got = NeverGot /\ restarts = 0

Usable(t) == t # None /\ now - t <= LastGoodTtl

-----------------------------------------------------------------------------

(* applyLastKnownGoodFx: the rate is kept, or the kept rate is used under  *)
(* a provider name of its own.                                             *)
TakesRate(l, rate, failed) ==
  LET kept == [lastGood.fx EXCEPT !.kept = TRUE]
      used == IF rate # NoRate THEN rate
              ELSE IF Usable(lastGood.fx.at) THEN kept ELSE NoRate
  IN /\ lastGood' = IF rate # NoRate THEN [lastGood EXCEPT !.fx = rate] ELSE lastGood
     /\ got' = IF rate # NoRate THEN [got EXCEPT !.fx = rate.at] ELSE got
     /\ load' = [load EXCEPT ![l] = [pc |-> "tickers", fx |-> used, failed |-> failed,
                                      cold |-> rate = NoRate /\ ~Usable(got.fx)]]

(* getUsdKrwRate: the Redis copy replaces the memory; what is not stale is *)
(* used as it is, the fallback of the start too, and else it is fetched.   *)
Begins(l) ==
  /\ load[l].pc = "idle"
  /\ \E reachable \in BOOLEAN :
       memory' = IF reachable /\ stored # NoRate THEN stored ELSE memory
  /\ IF memory'.at + FxStale > now
     THEN TakesRate(l, memory', FALSE)
     ELSE /\ load' = [load EXCEPT ![l] = [NoLoad EXCEPT !.pc = "rate"]]
          /\ UNCHANGED <<lastGood, got>>
  /\ UNCHANGED <<now, stored, late, row, restarts>>

(* The request ends; when it fails, the provider answers with its memory.  *)
Fetched == \/ memory' = HostRate(now) /\ stored' \in {stored, HostRate(now)}
           \/ UNCHANGED <<memory, stored>>

RateArrives(l) ==
  /\ load[l].pc = "rate"
  /\ Fetched /\ TakesRate(l, memory', FALSE)
  /\ UNCHANGED <<now, late, row, restarts>>

LateRateArrives ==
  /\ late /\ Fetched /\ late' \in BOOLEAN
  /\ UNCHANGED <<now, lastGood, load, row, got, restarts>>

(* The stage's own timeout is shorter than the request's attempts.         *)
RateTimesOut(l) ==
  /\ load[l].pc = "rate"
  /\ TakesRate(l, NoRate, TRUE) /\ late' = TRUE
  /\ UNCHANGED <<now, memory, stored, row, restarts>>

-----------------------------------------------------------------------------
(* applyLastKnownGoodTicker                                                *)
Component(ticker, good) ==
  [at |-> IF ticker # None THEN ticker ELSE IF Usable(good) THEN good ELSE None,
   kept |-> ticker = None /\ Usable(good)]

Age(t) == IF t = None THEN 0 ELSE now - t

Present(reference, domestic, fx) == {reference.at, domestic.at, fx.at} \ {None}

Skew(times) == IF times = {} THEN 0 ELSE Max(times) - Min(times)

(* determineKimchiFreshness, and the retained components after it          *)
Freshness(all, oldest, skew, fallback, kept) ==
  IF ~all THEN "partial"
  ELSE IF Max({oldest, skew}) > Slight \/ fallback THEN "stale"
  ELSE IF Max({oldest, skew}) > Fresh \/ kept THEN "slightly_stale"
  ELSE "fresh"

IsStale(times, fx, kept, freshness) ==
  \/ \E t \in times : Age(t) > MarketStale
  \/ Age(fx.at) > FxStale \/ Skew(times) > SkewMax
  \/ kept \/ freshness = "stale"

Status(all, any, error, stale) ==
  IF all THEN IF stale THEN "stale" ELSE "loaded"
  ELSE IF any THEN "partial" ELSE IF error THEN "failed" ELSE "unavailable"

(* determineKimchiSnapshotErrorCode                                        *)
Code(supported, prices, error, fx, stale) ==
  IF ~supported THEN "UNSUPPORTED_SYMBOL"
  ELSE IF ~prices THEN IF error THEN "EXCHANGE_TEMPORARILY_UNAVAILABLE" ELSE "PARTIAL_DATA"
  ELSE IF fx = NoRate \/ (fx.provider = "fallback" /\ ~fx.kept) THEN "FX_RATE_UNAVAILABLE"
  ELSE IF stale THEN "SNAPSHOT_STALE"
  ELSE "none"

(* buildKimchiDisplayMeta: stable status and hint                          *)
Stable(all, any, stale) ==
  IF all THEN IF stale THEN "stale" ELSE "ready" ELSE IF any THEN "partial" ELSE "unavailable"
Hint(stable) == IF stable = "unavailable" THEN "unavailable_cold" ELSE "keep_last_good"

(* The row of a load: what the providers answered, with last known goods.  *)
RowOf(l, reference, domestic, listed, error) ==
  LET fx        == load[l].fx
      times     == Present(reference, domestic, fx)
      all       == None \notin {reference.at, domestic.at, fx.at}
      any       == times # {}
      prices    == None \notin {reference.at, domestic.at}
      kept      == reference.kept \/ domestic.kept \/ fx.kept
      oldest    == Max({Age(t) : t \in times} \cup {0})
      fallback  == fx.provider = "fallback" /\ ~fx.kept
      freshness == Freshness(all, oldest, Skew(times), fallback, kept)
      stale     == IsStale(times, fx, kept, freshness)
      supported == \A c \in {<<"reference", reference>>, <<"domestic", domestic>>} :
                     c[1] \in listed \/ c[2].at # None
      status    == Status(all, {reference.at, domestic.at} # {None},
                          error \/ load[l].failed, stale)
      final     == IF supported THEN status ELSE "unavailable"
      \* the stale freshness of a row whose rate is missing never occurs
      stable    == Stable(all, any, kept \/ final = "stale" \/ freshness = "stale")
  IN [status |-> final, code |-> Code(supported, prices, error \/ load[l].failed, fx, stale),
      stable |-> stable, hint |-> Hint(stable),
      fallback |-> fx.provider = "fallback", kept |-> kept,
      oldest |-> IF any THEN oldest ELSE None, skew |-> Skew(times)]

(* The ticker loads of both exchanges are in, each found now, found old in *)
(* the store, missing, or failed; the row is made of them.                 *)
TickersArrive(l) ==
  /\ load[l].pc = "tickers"
  /\ \E r, d \in {None, now} \cup {Max({now - MarketStale - 1, 0})},
        listed \in {{"reference", "domestic"}, {}}, error \in BOOLEAN :
       /\ error => None \in {r, d}
       /\ row' = RowOf(l, Component(r, lastGood.reference),
                       Component(d, lastGood.domestic), listed, error)
       /\ lastGood' = [lastGood EXCEPT !.reference = IF r = None THEN @ ELSE r,
                                       !.domestic = IF d = None THEN @ ELSE d]
       /\ got' = [got EXCEPT !.reference = IF r = None THEN @ ELSE r,
                             !.domestic = IF d = None THEN @ ELSE d]
  /\ load' = [load EXCEPT ![l] = NoLoad]
  /\ UNCHANGED <<now, memory, stored, late, restarts>>

Tick == /\ now < MaxTime /\ now' = now + 1
        /\ UNCHANGED <<memory, stored, late, lastGood, load, row, got, restarts>>

(* The process starts again: only the Redis copy survives.                 *)
Restart ==
  /\ restarts < MaxRestarts /\ restarts' = restarts + 1
  /\ memory' = Fallback(now) /\ late' = FALSE
  /\ lastGood' = Nothing /\ got' = NeverGot
  /\ load' = [l \in Loader |-> NoLoad] /\ row' = NoRow
  /\ UNCHANGED <<now, stored>>

Next == \/ Tick \/ Restart \/ LateRateArrives
        \/ \E l \in Loader : \/ Begins(l) \/ RateArrives(l) \/ RateTimesOut(l)
                             \/ TickersArrive(l)

Spec == Init /\ [][Next]_vars /\ WF_vars(Next)

-----------------------------------------------------------------------------
(* A row that says "loaded" shows a premium of three live components: none *)
(* retained, none from the fallback rate, none old, none out of step.      *)
LoadedIsLive ==
  row.status = "loaded" =>
    /\ ~row.fallback /\ ~row.kept
    /\ row.oldest <= Slight /\ row.skew <= Slight

(* The cold hint, and a row without any value, are for a process that has  *)
(* nothing: while a component it received is within its last-known-good    *)
(* time when it is looked for, whichever fetch fails, the row keeps it and *)
(* tells the client so.                                                    *)
ColdMeansNothingKept ==
  \A l \in Loader :
    row'.hint = "unavailable_cold" /\ load[l].pc = "tickers" /\ load'[l] = NoLoad =>
      load[l].cold /\ ~Usable(got'.reference) /\ ~Usable(got'.domestic)

=============================================================================
