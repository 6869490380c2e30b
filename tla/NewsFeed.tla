------------------------------ MODULE NewsFeed ------------------------------
(***************************************************************************)
(* Market and coin news (src/domains/news/news.service.ts): a fresh answer *)
(* of the memory or, after a restart, of the database; else the selected   *)
(* provider, then NewsAPI, then the RSS feeds; and a stale answer when all *)
(* of them have nothing.  What was fetched is told apart, kept, and cut to *)
(* the date and the coin that were asked for.                              *)
(*                                                                         *)
(* An item is a record of its url and title, when it was published, how it *)
(* mentions the coin and whether it is about crypto at all.  Days have Day *)
(* hours, and the service's day starts Offset hours before the UTC one.    *)
(***************************************************************************)
EXTENDS Integers, Sequences, FiniteSets, SequencesExt

CONSTANTS Caller, Item, Scope, Date, NoDate, Day, Offset, Ttl, MaxTime, MaxRestarts,
          MaxFetched             \* bound: items per provider

NewsAssumption == Ttl \in Nat

VARIABLES now, restarts,
          selected, keyed,       \* NEWS_PROVIDER; NewsAPI's key is configured
          memory, row,           \* newsCacheByKey, the newsCache table
          job,                   \* the calls of listNews under way
          answer                 \* history: the answer of this step

vars == <<now, restarts, selected, keyed, memory, row, job, answer>>

Key == Scope \X (Date \cup {NoDate})

NoEntry == [items |-> <<>>, at |-> 0, expiresAt |-> 0]
NoJob == [pc |-> "idle", key |-> <<"market", NoDate>>, fallback |-> FALSE,
          cached |-> NoEntry, fetched |-> <<>>, since |-> 0]
NoAnswer == [kind |-> "none", items |-> <<>>, related |-> <<>>, source |-> <<>>, at |-> 0,
             hit |-> FALSE, stale |-> FALSE, job |-> NoJob]

Init == /\ now = 0 /\ restarts = 0
        /\ selected \in {"newsapi", "other"} /\ keyed \in BOOLEAN
        /\ memory = [k \in Key |-> NoEntry] /\ row = [k \in Key |-> NoEntry]
        /\ job = [c \in Caller |-> NoJob] /\ answer = NoAnswer

-----------------------------------------------------------------------------
(* dedupeNewsItems: an item whose url or title was kept before is dropped. *)
WithItem(kept, x) ==
  IF \E i \in DOMAIN kept : kept[i].url = x.url \/ kept[i].title = x.title
  THEN kept ELSE Append(kept, x)

Deduped(items) ==
  LET kept[i \in 0 .. Len(items)] == IF i = 0 THEN <<>> ELSE WithItem(kept[i - 1], items[i])
  IN  kept[Len(items)]

(* coinRelevanceScoreForItem, in hundredths.                               *)
Score(x) == CASE x.mentions = "symbol" -> 100 [] x.mentions = "keywords" -> 94
              [] x.mentions = "name" -> 88    [] x.mentions = "keyword" -> 76
              [] x.mentions = "text" -> 72    [] x.mentions = "ecosystem" -> 65
              [] OTHER -> 0

(* isWithinDateRange of kstDateToUtcRange                                  *)
Within(x, date) ==
  date = NoDate \/ (x.at >= date * Day - Offset /\ x.at < date * Day - Offset + Day)

Sorted(items) == SortSeq(items, LAMBDA a, b : a.at > b.at)

(* filterMarketItems and itemLooksLikeCryptoMarketNews                     *)
Filtered(items, scope, date) ==
  SelectSeq(Sorted(items), LAMBDA x : Within(x, date) /\ (scope = "coin" \/ x.crypto))

(* latestAvailableDate: the UTC day of the newest item.                    *)
LatestDay(items) == Sorted(items)[1].at \div Day

(* The items of the date, or with fallback those of the latest date.       *)
Base(items, key, fallback) ==
  LET asked == Filtered(items, key[1], key[2])
  IN IF key[2] # NoDate /\ fallback /\ asked = <<>> /\ items # <<>> /\ LatestDay(items) # key[2]
     THEN Filtered(items, key[1], LatestDay(items)) ELSE asked

(* The direct and the related items of a coin.                             *)
Direct(base) == SelectSeq(base, LAMBDA x : Score(x) >= 70)
Related(base) == SelectSeq(Direct(base), LAMBDA x : Score(x) < 70)

(* The rest of listNews once fetchExternalNews is back.                    *)
Returns(c, items, at, hit, stale) ==
  LET base == Base(items, job[c].key, job[c].fallback) IN
  /\ answer' =
       [kind |-> IF job[c].key[1] = "market" THEN "market" ELSE "coin",
        items |-> IF job[c].key[1] = "market" THEN base ELSE Direct(base),
        related |-> IF job[c].key[1] = "market" THEN <<>> ELSE Related(base),
        source |-> items, at |-> at, hit |-> hit, stale |-> stale, job |-> job[c]]
  /\ job' = [job EXCEPT ![c] = NoJob]

-----------------------------------------------------------------------------
(* Variant: an answer of the cache is fresh for as long as it is there.    *)
ServesAny(c, entry) ==
  IF entry.items # <<>> THEN Returns(c, entry.items, entry.at, TRUE, FALSE)
  ELSE /\ job' = [job EXCEPT ![c].pc = "primary", ![c].cached = entry]
       /\ answer' = NoAnswer

(* A cached answer while it is fresh; else the provider is asked.          *)
Serves(c, entry) ==
  IF entry.items # <<>> /\ entry.expiresAt > now
  THEN Returns(c, entry.items, entry.at, TRUE, FALSE)
  ELSE /\ job' = [job EXCEPT ![c].pc = "primary", ![c].cached = entry]
       /\ answer' = NoAnswer

Begins(c) ==
  /\ job[c] = NoJob
  /\ \E key \in Key, fallback \in BOOLEAN :
       job' = [job EXCEPT ![c] = [NoJob EXCEPT !.pc = "cache", !.key = key, !.fallback = fallback,
                                               !.since = now]]
  /\ answer' = NoAnswer /\ UNCHANGED <<now, restarts, selected, keyed, memory, row>>

(* readNewsCache: the memory, or the row; the database may fail.           *)
ReadsCache(c) ==
  /\ job[c].pc = "cache"
  /\ LET key == job[c].key IN
     IF memory[key].items # <<>> THEN Serves(c, memory[key])
     ELSE \E entry \in {row[key], NoEntry} : Serves(c, entry)
  /\ UNCHANGED <<now, restarts, selected, keyed, memory, row>>

Results == UNION {{s \in [1..n -> Item] : \A i, j \in 1..n : i # j => s[i] # s[j]} : n \in 0..MaxFetched}

(* writeNewsCache: the memory at once, and the row when the upsert is done.*)
Keeps(c, items) ==
  LET entry == [items |-> Deduped(items), at |-> now, expiresAt |-> now + Ttl] IN
  /\ memory' = [memory EXCEPT ![job[c].key] = entry]
  /\ job' = [job EXCEPT ![c].pc = "writing", ![c].fetched = items, ![c].cached = entry]
  /\ answer' = NoAnswer

(* Nothing was fetched: what was read of the cache, however stale.         *)
FallsBack(c) ==
  LET e == job[c].cached IN
  /\ Returns(c, e.items, e.at, e.items # <<>>, e.items # <<>>) /\ UNCHANGED memory

Primary(c) ==
  /\ job[c].pc = "primary"
  /\ \E items \in IF selected = "newsapi" /\ ~keyed THEN {<<>>} ELSE Results :
       IF items # <<>> THEN Keeps(c, items)
       ELSE IF selected = "newsapi" THEN FallsBack(c)
       ELSE job' = [job EXCEPT ![c].pc = "newsapi"] /\ answer' = NoAnswer /\ UNCHANGED memory
  /\ UNCHANGED <<now, restarts, selected, keyed, row>>

NewsApi(c) ==
  /\ job[c].pc = "newsapi"
  /\ \E items \in IF keyed THEN Results ELSE {<<>>} :
       IF items # <<>> THEN Keeps(c, items)
       ELSE job' = [job EXCEPT ![c].pc = "rss"] /\ answer' = NoAnswer /\ UNCHANGED memory
  /\ UNCHANGED <<now, restarts, selected, keyed, row>>

(* Every feed is asked at once and those that fail are empty.              *)
Rss(c) ==
  /\ job[c].pc = "rss"
  /\ \E items \in Results : IF items # <<>> THEN Keeps(c, items) ELSE FallsBack(c)
  /\ UNCHANGED <<now, restarts, selected, keyed, row>>

RowWritten(c) ==
  /\ job[c].pc = "writing"
  /\ row' \in {row, [row EXCEPT ![job[c].key] = job[c].cached]}
  /\ Returns(c, job[c].cached.items, job[c].cached.at, FALSE, FALSE)
  /\ UNCHANGED <<now, restarts, selected, keyed, memory>>

Restart ==
  /\ restarts < MaxRestarts /\ restarts' = restarts + 1
  /\ memory' = [k \in Key |-> NoEntry] /\ job' = [c \in Caller |-> NoJob]
  /\ answer' = NoAnswer /\ UNCHANGED <<now, selected, keyed, row>>

Tick == /\ now < MaxTime /\ now' = now + 1
        /\ answer' = NoAnswer /\ UNCHANGED <<restarts, selected, keyed, memory, row, job>>

Next == \/ \E c \in Caller : \/ Begins(c) \/ ReadsCache(c) \/ Primary(c) \/ NewsApi(c)
                             \/ Rss(c) \/ RowWritten(c)
        \/ Restart \/ Tick

Spec == Init /\ [][Next]_vars

-----------------------------------------------------------------------------
(* What is answered as fresh of a cache was fetched within its time, though *)
(* late upserts overwrite the rows of later fetches and a restart goes back *)
(* to them; what is answered as fetched was fetched for this call; and news *)
(* that was kept is answered when nothing can be fetched.                   *)
NewsInTime ==
  answer.kind # "none" =>
    /\ answer.hit /\ ~answer.stale => now - answer.at < Ttl
    /\ ~answer.hit /\ answer.source # <<>> => answer.at >= answer.job.since
    /\ answer.job.cached.items # <<>> => answer.source # <<>>

(* An item that was fetched is only left out for one of the same url or     *)
(* title, and then is left out (dedupeNewsItems).                           *)
NewsSound ==
  /\ NewsInTime
  /\ answer.kind # "none" =>
       LET fetched == answer.job.fetched source == answer.source IN
       /\ \A i \in DOMAIN fetched : \E j \in DOMAIN source :
            fetched[i].url = source[j].url \/ fetched[i].title = source[j].title
       /\ \A i, j \in DOMAIN source :
            i # j => source[i].url # source[j].url /\ source[i].title # source[j].title
=============================================================================
