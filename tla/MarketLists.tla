------------------------------ MODULE MarketLists ----------------------------
(***************************************************************************)
(* The ordered lists of one exchange's markets and the pages a client      *)
(* reads of them: getMarketList and listComparableKimchiSymbols            *)
(* (domains/market-data/market-data.service.ts).  Every page is cut from   *)
(* an order made anew of the snapshot items of that moment; the comparable *)
(* symbols are ordered when the entry is built, here anew as well.         *)
(***************************************************************************)
EXTENDS Integers, FiniteSets, Sequences

CONSTANTS
  Symbol,          \* numbers: their order is that of the names
  Representative,  \* ranked by REPRESENTATIVE_MARKET_SYMBOLS, here by name
  Mapped,          \* registryMapped
  Comparable,      \* kimchiComparable
  Volume, Change,  \* values of an item
  Limit,           \* markets of a page
  MaxMoves         \* bound on the moves of items

ListAssumption ==
  /\ IsFiniteSet(Symbol) /\ Symbol \cup Volume \cup Change \subseteq Int
  /\ Comparable \subseteq Symbol /\ Limit \in Nat

VARIABLES
  items,   \* the snapshot items
  moves,   \* how often one has moved
  walk     \* a client that reads a list from its first page to its last

vars == <<items, moves, walk>>

Sorts == {"volume", "change", "symbol", "price"}
Lists == {"all", "representatives", "comparable"}

Missing == -1    \* null: less than any volume and price
Pending == [status |-> "pending", volume |-> Missing, change |-> Missing]
Item    == {Pending} \cup
           [status : {"live", "stale"}, volume : Volume, change : Change \cup {Missing}]
NoWalk  == [reading |-> FALSE, offset |-> 0, shown |-> [s \in Symbol |-> 0],
            sort |-> "volume", list |-> "all", moved |-> FALSE]

Init ==
  /\ items \in [Symbol -> Item]
  /\ moves = 0
  /\ walk = NoWalk

-----------------------------------------------------------------------------
(* A comparison by several keys in turn.                                   *)
Before(k, l) ==
  \E i \in DOMAIN k : k[i] < l[i] /\ \A j \in 1 .. (i - 1) : k[j] = l[j]

StatusRank(s) == CASE items[s].status = "live"  -> 0
                   [] items[s].status = "stale" -> 1
                   [] OTHER                     -> 2
(* Math.abs turns the -Infinity of a change that is missing into Infinity. *)
ChangeRank(s) == IF items[s].change = Missing THEN -1000 ELSE -items[s].change
TopRank(s)    == IF s \in Representative THEN s ELSE 1000

(* compareSnapshotItems, comparePrioritySnapshotItems and                  *)
(* compareViewportCandidates.                                              *)
SnapshotKey(s) ==
  <<StatusRank(s), -items[s].volume, ChangeRank(s),
    IF s \in Mapped THEN 0 ELSE 1, s>>
PriorityKey(s) == <<StatusRank(s), TopRank(s)>> \o SnapshotKey(s)
ViewportKey(sort, s) ==
  CASE sort = "symbol" -> <<TopRank(s), s>>
    [] sort = "change" -> <<TopRank(s), ChangeRank(s)>> \o SnapshotKey(s)
    [] OTHER           -> <<TopRank(s), -items[s].volume>> \o SnapshotKey(s)

KeyOf(list, sort, s) ==
  IF list = "comparable" THEN PriorityKey(s) ELSE ViewportKey(sort, s)

(* buildViewportCandidateItems.                                            *)
Candidates(list) ==
  CASE list = "representatives" -> Representative \cap Symbol
    [] list = "comparable"      -> Comparable
    [] OTHER                    -> Symbol

Position(list, sort, s) ==
  Cardinality({t \in Candidates(list) :
                 Before(KeyOf(list, sort, t), KeyOf(list, sort, s))})

-----------------------------------------------------------------------------
Page(list, sort, offset) ==
  {s \in Candidates(list) : /\ Position(list, sort, s) >= offset
                            /\ Position(list, sort, s) < offset + Limit}

(* buildCursorPage: whether there is a next page.                          *)
NextCursor(offset, total) == offset + Limit < total

(* parseCursorOffset: the client sends the cursor it was given.  The rows  *)
(* whose ticker could not be had are listed as skipped: both count.        *)
Reads(w) ==
  LET page  == Page(w.list, w.sort, w.offset)
      total == Cardinality(Candidates(w.list))
  IN  walk' = [w EXCEPT !.shown = [s \in Symbol |-> @[s] + (IF s \in page THEN 1 ELSE 0)],
                        !.offset  = w.offset + Limit,
                        !.reading = NextCursor(w.offset, total)]

Opens ==
  /\ ~walk.reading
  /\ \E list \in Lists : \E sort \in Sorts :
       Reads([NoWalk EXCEPT !.list = list, !.sort = sort])
  /\ UNCHANGED <<items, moves>>

ReadsOn ==
  /\ walk.reading
  /\ Reads(walk)
  /\ UNCHANGED <<items, moves>>

(* The stream or a refresh moves an item.                                  *)
ItemMoves ==
  /\ moves < MaxMoves
  /\ \E s \in Symbol : \E i \in Item \ {items[s]} :
       items' = [items EXCEPT ![s] = i]
  /\ moves' = moves + 1
  /\ walk' = [walk EXCEPT !.moved = @ \/ walk.reading]

Next == Opens \/ ReadsOn \/ ItemMoves

Spec == Init /\ [][Next]_vars

-----------------------------------------------------------------------------
(* A client that follows the cursors sees every market of the list exactly *)
(* once, whatever the list is ordered by, unless an item moved on the way: *)
(* the orders decide between any two items, and cursors neither skip nor   *)
(* repeat.                                                                 *)
PagesCover ==
  walk # NoWalk /\ ~walk.reading /\ ~walk.moved =>
    \A s \in Symbol : walk.shown[s] = (IF s \in Candidates(walk.list) THEN 1 ELSE 0)
=============================================================================
