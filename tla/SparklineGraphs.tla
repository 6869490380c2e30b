-------------------------- MODULE SparklineGraphs --------------------------
(***************************************************************************)
(* Where the small graph of one market comes from                          *)
(* (src/domains/market-data/contracts/market-data-contract.service.ts):    *)
(* the fast cache with a fresh and a usable time, the last known good      *)
(* graph that is never dropped, the ring buffer of observed prices and the *)
(* candles of the provider, as a list row and as an item of a sparkline    *)
(* batch see them.  Writes to the caches are ranked by quality.            *)
(*                                                                         *)
(* Points are counted in steps: Mini is 8 points, Shown 12, Target 24 and  *)
(* Big 60.  Whether the market's price moves is chosen once (flat).  The   *)
(* slots of the provider and the deadlines are those of CandleSlots: here  *)
(* a call may be refused, and is answered or timed out within Timeout.     *)
(***************************************************************************)
EXTENDS Integers, FiniteSets

CONSTANTS Caller, Mini, Shown, Target, Big,
          FullTtl, PartialTtl, Usable, Timeout, MaxTime

GraphAssumption ==
  {Mini, Shown, Target, Big, FullTtl, PartialTtl, Usable, Timeout} \subseteq Nat

VARIABLES now, flat,
          fast, lastKnownGood, ring,     \* the caches and the ring buffer
          warming,                       \* sparklineWarmupInFlight has the key
          job,                           \* what a caller waits for
          answer                         \* history: the item this step answered with

vars == <<now, flat, fast, lastKnownGood, ring, warming, job, answer>>

NoGraph == [points |-> 0, limit |-> Target, quality |-> "none", upTo |-> 0]
NoEntry == [graph |-> NoGraph, expiresAt |-> 0, staleUntil |-> 0]
Unavailable == [source |-> "unavailable", quality |-> "none", points |-> 0, age |-> 0, ring |-> 0]
NoAnswer == [Unavailable EXCEPT !.source = "none"]
NoJob == [pc |-> "idle", kind |-> "list", limit |-> Target, since |-> 0,
          partial |-> NoGraph, row |-> NoAnswer]

Init == /\ now = 0 /\ flat \in BOOLEAN
        /\ fast = NoEntry /\ lastKnownGood = NoGraph
        /\ ring = [points |-> 0, at |-> 0] /\ warming = FALSE
        /\ job = [c \in Caller |-> NoJob] /\ answer = NoAnswer

-----------------------------------------------------------------------------
(* sparklineQualityRank: a full graph of hourly candles (mini) is behind a *)
(* partial one.                                                            *)
Rank(g) == CASE g.quality = "minutes" -> 100 [] g.quality = "prepared" -> 90
             [] g.quality = "partial" -> 80  [] g.quality = "live" -> 70
             [] g.quality = "mini" -> 60     [] OTHER -> 0

(* isDisplayableRealSparkline                                              *)
Displayable(g) == g.points >= Mini /\ ~flat

(* buildProviderCandleSparklineItem, buildPreparedSparklineItem            *)
ProviderGraph(points, limit, upTo) ==
  [points |-> points, limit |-> limit, upTo |-> upTo,
   quality |-> IF points < limit THEN "partial" ELSE IF limit = Big THEN "minutes" ELSE "mini"]

RingGraph(limit) ==
  IF ring.points < Mini THEN NoGraph
  ELSE [points |-> IF ring.points < limit THEN ring.points ELSE limit,
        limit |-> limit, upTo |-> ring.at,
        quality |-> IF ring.points < limit THEN "live" ELSE "prepared"]

(* readCachedSparklineItem: an entry past its usable time is deleted.      *)
Kept == IF fast.staleUntil <= now THEN NoEntry ELSE fast
Stale(entry) == entry.expiresAt <= now

(* writeRealSparklineCache                                                 *)
Writes(entry, g) ==
  LET previous == IF entry # NoEntry THEN entry.graph ELSE lastKnownGood
      better   == /\ Displayable(previous)
                  /\ \/ Rank(previous) > Rank(g)
                     \/ Rank(previous) = Rank(g) /\ previous.points > g.points
  IN IF Displayable(g) /\ ~better
     THEN /\ fast' = [graph |-> g, staleUntil |-> now + Usable,
                      expiresAt |-> now + IF g.points >= g.limit THEN FullTtl ELSE PartialTtl]
          /\ lastKnownGood' = g
     ELSE fast' = entry /\ UNCHANGED lastKnownGood

(* scheduleSparklineWarmup for this market: not when a graph that can be   *)
(* displayed is cached, a stale one included.                              *)
Warms(entry) == warming' = (warming \/ ~Displayable(entry.graph))

(* appendPreparedSparklineSample: every list request adds a sample.        *)
Sampled == [points |-> IF ring.points < Big THEN ring.points + 1 ELSE Big, at |-> now]

Answered(source, g) ==
  [source |-> source, quality |-> g.quality, points |-> g.points,
   age |-> now - g.upTo, ring |-> ring.points]

Answers(c, a) == answer' = a /\ job' = [job EXCEPT ![c] = NoJob]

-----------------------------------------------------------------------------
(* attachListSparkline                                                     *)
Attached(entry) ==
  IF entry # NoEntry THEN Answered("cache", entry.graph)
  ELSE IF lastKnownGood # NoGraph THEN Answered("previous", lastKnownGood)
  ELSE IF ring.points >= Shown THEN Answered("ring", RingGraph(Target))
  ELSE Unavailable

(* shouldFetchProviderListSparkline                                        *)
ShouldFetch(row) == row.source \in {"ring", "unavailable"} \/ row.points < Target

(* A list request samples the price and attaches what there is; a row that *)
(* needs candles waits for the provider when it gets a slot, or is left to *)
(* a warm-up.                                                              *)
ListAsks(c) ==
  LET entry == Kept row == Attached(entry) IN
  /\ job[c] = NoJob
  /\ ring' = Sampled /\ fast' = entry
  /\ \/ /\ ShouldFetch(row)
        /\ job' = [job EXCEPT ![c] = [NoJob EXCEPT !.pc = "fetching", !.since = now, !.row = row]]
        /\ answer' = NoAnswer /\ UNCHANGED warming
     \/ Answers(c, row) /\ IF ShouldFetch(row) THEN Warms(entry) ELSE UNCHANGED warming
  /\ UNCHANGED <<now, flat, lastKnownGood>>

(* fetchProviderListSparklineAttach: only a full graph replaces the row.   *)
ListFetched(c) ==
  /\ job[c].pc = "fetching" /\ job[c].kind = "list"
  /\ \/ /\ \E upTo \in {job[c].since, now} :
             LET g == ProviderGraph(Target, Target, upTo) IN
             Writes(fast, g) /\ Answers(c, Answered("provider", g))
     \/ Answers(c, job[c].row) /\ UNCHANGED <<fast, lastKnownGood>>
  /\ UNCHANGED <<now, flat, ring, warming>>

-----------------------------------------------------------------------------
(* getMarketSparklineBatch asks for the ticker list first, which samples   *)
(* this market's price too; an interactive request does without the list   *)
(* when that fails.                                                        *)
BatchAsks(c) ==
  /\ job[c] = NoJob
  /\ \E kind \in {"batch", "top"}, limit \in {Target, Big} :
       job' = [job EXCEPT ![c] = [NoJob EXCEPT !.pc = "listing", !.kind = kind, !.limit = limit]]
  /\ ring' \in {Sampled, ring}
  /\ answer' = NoAnswer /\ UNCHANGED <<now, flat, fast, lastKnownGood, warming>>

BatchListFails(c) ==
  /\ job[c].pc = "listing" /\ job[c].kind = "batch"
  /\ job' = [job EXCEPT ![c] = NoJob]
  /\ answer' = NoAnswer /\ UNCHANGED <<now, flat, fast, lastKnownGood, ring, warming>>

(* The item of the batch, up to the call of the provider: a cached graph,  *)
(* then the ring buffer's, which an interactive request keeps in reserve   *)
(* when it is partial; then the provider, if the budget and the slot allow.*)
BatchReads(c) ==
  LET entry == Kept
      limit == job[c].limit
      prepared == RingGraph(limit)
      settled == prepared # NoGraph /\ (job[c].kind = "batch" \/ prepared.points >= limit)
  IN /\ job[c].pc = "listing"
     /\ \/ /\ Displayable(entry.graph)
           /\ Answers(c, Answered("cache", entry.graph))
           /\ fast' = entry /\ UNCHANGED lastKnownGood
           /\ IF Stale(entry) THEN Warms(entry) ELSE UNCHANGED warming
        \/ /\ ~Displayable(entry.graph)
           /\ Writes(entry, prepared)
           /\ IF settled THEN Answers(c, Answered("ring", prepared))
              ELSE \/ /\ job' = [job EXCEPT ![c].pc = "fetching", ![c].since = now, ![c].partial = prepared]
                      /\ answer' = NoAnswer
                   \/ Answers(c, IF prepared = NoGraph THEN Unavailable ELSE Answered("ring", prepared))
           /\ UNCHANGED warming
     /\ UNCHANGED <<now, flat, ring>>

StillGood == lastKnownGood # NoGraph /\ now - lastKnownGood.upTo <= Usable

(* What is left when the provider had too little or failed.                *)
WithoutProvider(c, timedOut) ==
  IF job[c].partial # NoGraph
  THEN Answers(c, Answered("ring", job[c].partial)) /\ UNCHANGED warming
  ELSE IF StillGood /\ ~timedOut
  THEN Answers(c, Answered("last_known_good", lastKnownGood)) /\ Warms(fast)
  ELSE /\ \/ ring.points >= Shown /\ Answers(c, Answered("preview", RingGraph(Target)))
          \/ Answers(c, Unavailable)
       /\ UNCHANGED warming

BatchFetched(c) ==
  /\ job[c].pc = "fetching" /\ job[c].kind # "list"
  /\ \/ /\ \E points \in Mini..job[c].limit, upTo \in {job[c].since, now} :
             LET g == ProviderGraph(points, job[c].limit, upTo) IN
             /\ Writes(fast, g) /\ Answers(c, Answered("provider", g))
        /\ UNCHANGED warming
     \/ \E timedOut \in BOOLEAN :
          WithoutProvider(c, timedOut) /\ UNCHANGED <<fast, lastKnownGood>>
  /\ UNCHANGED <<now, flat, ring>>

(* A warm-up asks for minute candles and falls back to the ring buffer; in *)
(* the end its key leaves sparklineWarmupInFlight.                         *)
WarmupEnds ==
  /\ warming /\ warming' = FALSE
  /\ \/ \E points \in Mini..Big : Writes(fast, ProviderGraph(points, Big, now))
     \/ Writes(fast, RingGraph(Big))
     \/ UNCHANGED <<fast, lastKnownGood>>
  /\ answer' = NoAnswer /\ UNCHANGED <<now, flat, ring, job>>

Tick == /\ now < MaxTime /\ now' = now + 1
        /\ \A c \in Caller : /\ job[c].pc # "listing"
                             /\ job[c].pc = "fetching" => now < job[c].since + Timeout
        /\ answer' = NoAnswer /\ UNCHANGED <<flat, fast, lastKnownGood, ring, warming, job>>

Next == \/ \E c \in Caller : \/ ListAsks(c) \/ ListFetched(c) \/ BatchAsks(c)
                             \/ BatchListFails(c) \/ BatchReads(c) \/ BatchFetched(c)
        \/ WarmupEnds \/ Tick

Spec == Init /\ [][Next]_vars

-----------------------------------------------------------------------------
TypeOK == /\ ring.points \in 0..Big /\ warming \in BOOLEAN
          /\ fast # NoEntry => Displayable(fast.graph) /\ lastKnownGood = fast.graph

(* No item shows candles older than the time a cached graph may be used    *)
(* for and the one call that fetched them, although the last known good    *)
(* graph outlives the cache and slow calls write what others read.  Only a *)
(* list row's previous snapshot is of any age; and graphs of the ring      *)
(* buffer are as old as the last list request.                             *)
CandlesNotTooOld ==
  answer.quality \in {"minutes", "partial", "mini"} /\ answer.source # "previous" =>
    answer.age <= Usable + Timeout

=============================================================================
