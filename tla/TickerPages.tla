---------------------------- MODULE TickerPages ----------------------------
(***************************************************************************)
(* The ticker list of the market contract and its cursor                   *)
(* (src/domains/market-data/contracts/market-data-contract.service.ts):    *)
(* every page is cut out of the list as the cache has it then, sorted by a *)
(* value, descending or ascending, with the unknown values last and the    *)
(* market's id between equals; the cursor is the sort position of the last *)
(* row, tied to the parameters of the list and to a lifetime.              *)
(*                                                                         *)
(* One reader pages through one list while prices move, markets come and   *)
(* go, other requests fill the same cache entry and loads fail.  Markets   *)
(* are numbers in the order of their ids; a value is a number or Unknown.  *)
(***************************************************************************)
EXTENDS Integers, Sequences, FiniteSets

CONSTANTS Market, Value,
          Found,                 \* the markets that match the search
          Limit, CacheTtl, CursorTtl,
          MaxTime, MaxMoves

PagesAssumption ==
  /\ Market \subseteq Nat /\ IsFiniteSet(Market) /\ Value \subseteq Int
  /\ Limit \in Nat \ {0} /\ CacheTtl \in Nat

VARIABLES now, listing, moves,   \* the exchange: the value of what it lists
          cache, flight,         \* the list's entry and whether it is loading
          params,                \* sort key, order and search of the reader
          pc, cursor, askedAt,
          seen, steady           \* history: how often each market was shown,
                                 \* and the rows every page's list agreed on

vars == <<now, listing, moves, cache, flight, params, pc, cursor, askedAt, seen, steady>>

Unknown == -1
Absent == -2
Expired == [rows |-> <<>>, expiresAt |-> -1]
NoCursor == [market |-> 0, value |-> Unknown, at |-> -1]
Params == [sort : {"changeRate", "name"}, order : {"asc", "desc"}, searched : BOOLEAN]

Init == /\ now = 0 /\ moves = 0
        /\ listing \in [Market -> Value \cup {Unknown, Absent}]
        /\ cache = Expired /\ flight = FALSE
        /\ params \in Params /\ pc = "ready" /\ cursor = NoCursor /\ askedAt = 0
        /\ seen = [m \in Market |-> 0] /\ steady = [m \in Market |-> <<>>]

-----------------------------------------------------------------------------
SortValue(m, list) == IF params.sort = "name" THEN m ELSE list[m]

(* compareTickerSortTuple                                                  *)
Before(v, m, w, n) ==
  IF v = w THEN m < n
  ELSE IF v = Unknown \/ w = Unknown THEN w = Unknown
  ELSE IF params.order = "asc" THEN v < w ELSE v > w

(* dedupeTickerItemsByCanonical, tickerSearchMatches                       *)
Matching(list) ==
  {m \in Market : list[m] # Absent /\ (params.searched => m \in Found)}

(* stableSortTickerItems                                                   *)
Precedes(m, n, list) == Before(SortValue(m, list), m, SortValue(n, list), n)

(* Variant: among equal values the cursor does not look at the market.     *)
AfterByValue(c, list) ==
  {m \in Matching(list) : Before(c.value, 0, SortValue(m, list), 0)}

After(c, list) ==
  {m \in Matching(list) : Before(c.value, c.market, SortValue(m, list), m)}

(* paginateTickerItems: the first rows of those after the cursor.          *)
Shows(list) ==
  LET rest == IF cursor = NoCursor THEN Matching(list) ELSE After(cursor, list)
      page == {m \in rest : Cardinality({n \in rest : Precedes(n, m, list)}) < Limit}
      last == CHOOSE m \in page : \A n \in page : n = m \/ Precedes(n, m, list)
      next == page # rest
  IN /\ cursor' = IF next
                  THEN [market |-> last, value |-> SortValue(last, list), at |-> askedAt']
                  ELSE cursor
     /\ pc' = IF next THEN "ready" ELSE "finished"
     /\ seen' = [m \in Market |-> seen[m] + IF m \in page THEN 1 ELSE 0]
     /\ steady' = [m \in Market |->
          IF cursor = NoCursor \/ steady[m] = <<list[m]>> THEN <<list[m]>> ELSE <<>>]

(* validateTickerCursor, when the list is there                            *)
CursorExpired == cursor # NoCursor /\ now - cursor.at > CursorTtl

Pages(list) ==
  IF CursorExpired
  THEN pc' = "expired" /\ UNCHANGED <<cursor, seen, steady>>
  ELSE Shows(list)

-----------------------------------------------------------------------------
Cached == cache.expiresAt > now

(* getMarketTickerList through ttlCache                                    *)
AsksCached ==
  /\ pc = "ready" /\ Cached
  /\ askedAt' = now /\ Pages(cache.rows)
  /\ UNCHANGED <<now, listing, moves, cache, flight, params>>

AsksWaiting ==
  /\ pc = "ready" /\ ~Cached
  /\ askedAt' = now /\ pc' = "waiting" /\ flight' = TRUE
  /\ UNCHANGED <<now, listing, moves, cache, params, cursor, seen, steady>>

OthersAsk ==
  /\ ~Cached /\ ~flight /\ flight' = TRUE
  /\ UNCHANGED <<now, listing, moves, cache, params, pc, cursor, askedAt, seen, steady>>

LoadEnds ==
  /\ flight /\ flight' = FALSE
  /\ cache' = [rows |-> listing, expiresAt |-> now + CacheTtl]
  /\ IF pc = "waiting" THEN UNCHANGED askedAt /\ Pages(listing)
     ELSE UNCHANGED <<pc, cursor, askedAt, seen, steady>>
  /\ UNCHANGED <<now, listing, moves, params>>

(* The request fails; the reader asks for the same page again.             *)
LoadFails ==
  /\ flight /\ flight' = FALSE
  /\ pc' = IF pc = "waiting" THEN "ready" ELSE pc
  /\ UNCHANGED <<now, listing, moves, cache, params, cursor, askedAt, seen, steady>>

(* A cursor that was made for other parameters is refused.                 *)
AsksOtherwise ==
  /\ pc = "ready" /\ cursor # NoCursor
  /\ pc' = "refused"
  /\ UNCHANGED <<now, listing, moves, cache, flight, params, cursor, askedAt, seen, steady>>

Moves ==
  /\ moves < MaxMoves /\ moves' = moves + 1
  /\ \E m \in Market, v \in Value \cup {Unknown, Absent} :
       listing' = [listing EXCEPT ![m] = v] /\ v # listing[m]
  /\ UNCHANGED <<now, cache, flight, params, pc, cursor, askedAt, seen, steady>>

Tick == /\ now < MaxTime /\ now' = now + 1
        /\ UNCHANGED <<listing, moves, cache, flight, params, pc, cursor, askedAt, seen, steady>>

Next == AsksCached \/ AsksWaiting \/ OthersAsk \/ LoadEnds \/ LoadFails
        \/ AsksOtherwise \/ Moves \/ Tick

Spec == Init /\ [][Next]_vars

-----------------------------------------------------------------------------
(* Whatever else moves, appears or goes while a reader pages, a market     *)
(* whose row was the same in every list its pages were cut from is shown   *)
(* once: never on two pages, and by the last page never skipped.           *)
SteadyShownOnce ==
  \A m \in Market :
    steady[m] \notin {<<>>, <<Absent>>} /\ (params.searched => m \in Found) =>
      seen[m] <= 1 /\ (pc = "finished" => seen[m] = 1)
=============================================================================
