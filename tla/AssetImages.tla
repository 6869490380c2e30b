----------------------------- MODULE AssetImages -----------------------------
(***************************************************************************)
(* The coin images of src/src/domains/assets/asset-metadata.service.ts: a  *)
(* memory cache over Redis, and a queue of keys to resolve at CoinGecko.   *)
(* A caller gets at once what is cached, or a local fallback, and leaves   *)
(* the missing and stale keys in `pending`; a timer turns the queue into   *)
(* one batch at a time.  An eager caller waits for the queue to drain and  *)
(* reads again.                                                            *)
(*                                                                         *)
(* A view is abstracted to whether the caller saw an entry; an entry to    *)
(* the kind of its image ("image", "kept" for one marked stale_cache, and  *)
(* "alias" or "placeholder" for a local one) and its two deadlines.  The   *)
(* registries are sets of keys.  The keys of a batch are taken in any      *)
(* order, and a key is looked up in the negative cache when it is matched. *)
(***************************************************************************)
EXTENDS Integers, FiniteSets

CONSTANTS Caller,       \* concurrent calls of getAssetViews and getAssetViewsEager
          Eager,        \* those of getAssetViewsEager
          Asset,        \* canonical asset keys
          Lookup,       \* the sets of keys asked for together
          Curated,      \* keys with a curated CoinGecko id
          Disabled,     \* keys whose lookup is switched off
          Listed,       \* keys the coin list resolves to one id
          Aliased,      \* keys with an icon of their own
          Warm,         \* keys resolved in the background
          Stored,       \* keys an earlier process may have left in Redis
          Id, IdOf,     \* CoinGecko ids, and that of a key
          NoEntry, NoJob,
          Positive, Fallback, Usable, NotFoundTtl, ListTtl,
          MaxPasses,    \* passes of drainResolutionWork
          MaxTime

VARIABLES started,      \* "new", "on" or "off"
          memory,       \* memoryCache
          redis,        \* the rows in Redis
          pending,      \* pendingResolutions
          timer,        \* resolveTimer is set
          batch,        \* the batch of resolutionInFlight
          notFound,     \* coingeckoNotFoundCache: when an id's verdict ends
          listAt,       \* coinListLoadedAt
          call,         \* what each caller is doing
          now

vars == <<started, memory, redis, pending, timer, batch, notFound, listAt, call, now>>

Never == -100
Time == 0 .. MaxTime + Usable
Entry == [kind : {"image", "kept", "alias", "placeholder"}, staleAt : Time, until : Time]
Idle == [pc |-> "idle", asked |-> {}, seen |-> {}, at |-> 0, row |-> [k \in {} |-> NoEntry], passes |-> 0,
         on |-> FALSE]
NoBatch == [phase |-> "none", at |-> 0, todo |-> {}, list |-> FALSE, fetch |-> {}, found |-> {}, job |-> NoJob]

\* What is under way for one key of a batch.
KeyJob == [key : Asset, step : {"fall"}] \cup [key : Asset, step : {"write"}, entry : Entry]
          \cup [key : Asset, step : {"read"}, answered : BOOLEAN, row : Entry \cup {NoEntry}]

\* What the proofs assume: no entry outlives its use (thirty days, by
\* ASSET_METADATA_POSITIVE_USABLE_TTL_MS) while the model's clock runs.
ImagesAssumption ==
  /\ MaxTime \in Nat /\ Usable \in Nat /\ MaxTime < Usable
  /\ Positive \in 0 .. Usable /\ Fallback \in 0 .. Usable /\ NotFoundTtl \in 0 .. Usable
  /\ MaxPasses \in Nat /\ MaxPasses >= 2
  /\ Lookup \subseteq SUBSET Asset /\ Warm \subseteq Asset /\ Stored \subseteq Asset
  /\ IdOf \in [Asset -> Id] /\ Eager \subseteq Caller
  /\ NoEntry \notin Entry /\ NoJob \notin KeyJob

TypeOK ==
  /\ started \in {"new", "on", "off"}
  /\ memory \in [Asset -> Entry \cup {NoEntry}]
  /\ redis \in [Asset -> Entry \cup {NoEntry}]
  /\ pending \subseteq Asset
  /\ timer \in BOOLEAN
  /\ batch.phase \in {"none", "list", "sort", "ask", "keep"}
  /\ batch.todo \cup batch.fetch \cup batch.found \subseteq Asset
  /\ notFound \in [Id -> Time \cup {Never}]
  /\ listAt \in Time \cup {Never}
  /\ \A c \in Caller : call[c].pc \in {"idle", "asking", "draining", "waiting", "rereading", "done"}
  /\ now \in 0 .. MaxTime

Real(entry) == entry # NoEntry /\ entry.kind \in {"image", "kept"}
Lives(entry, at) == entry # NoEntry /\ entry.until > at

\* readMemory: an entry past its use is forgotten by whoever looks at it.
Dropped(keys, at) == [k \in Asset |-> IF k \in keys /\ ~Lives(memory[k], at) THEN NoEntry ELSE memory[k]]

\* scheduleResolve for a set of keys; only a started service queues.
Schedules(keys) ==
  IF started = "on" /\ keys # {}
  THEN pending' = pending \cup keys /\ timer' = TRUE
  ELSE UNCHANGED <<pending, timer>>

\* shouldRefreshForPreferredImage, and hasNewCuratedImageTarget of a batch
WantsCurated(k, entry) == k \in Curated /\ (entry = NoEntry \/ entry.kind = "placeholder")

Init ==
  /\ started = "new"
  /\ memory = [k \in Asset |-> NoEntry]
  /\ \E rows \in [Stored -> {NoEntry} \cup [kind : {"image", "placeholder"}, staleAt : {0}, until : {Usable}]] :
       redis = [k \in Asset |-> IF k \in Stored THEN rows[k] ELSE NoEntry]
  /\ pending = {} /\ timer = FALSE /\ batch = NoBatch
  /\ notFound = [i \in Id |-> Never] /\ listAt = Never
  /\ call = [c \in Caller |-> Idle]
  /\ now = 0

----------------------------------------------------------------------------
(* The service's life, and the two ways to queue without asking            *)

Start ==
  /\ started = "new"
  /\ started' = "on" /\ pending' = pending \cup Warm /\ timer' = (timer \/ Warm # {})
  /\ UNCHANGED <<memory, redis, batch, notFound, listAt, call, now>>

\* stop: the queue and the timers go, the batch in flight carries on.
Stop ==
  /\ started = "on"
  /\ started' = "off" /\ pending' = {} /\ timer' = FALSE
  /\ UNCHANGED <<memory, redis, batch, notFound, listAt, call, now>>

\* The six-hour refresh queues every warm key.
Refresh ==
  /\ started = "on" /\ Warm # {}
  /\ Schedules(Warm)
  /\ UNCHANGED <<started, memory, redis, batch, notFound, listAt, call, now>>

\* preloadAssetLookups: keys not queued, and missing or stale in memory
Preload(keys) ==
  LET looked == keys \ pending
      wanted == {k \in looked : ~Lives(memory[k], now) \/ memory[k].staleAt <= now}
  IN  /\ wanted # {}
      /\ memory' = Dropped(looked, now)
      /\ Schedules(wanted)
      /\ UNCHANGED <<started, redis, batch, notFound, listAt, call, now>>

Fresh(at) == at # Never /\ now - at < ListTtl

----------------------------------------------------------------------------
(* Callers                                                                 *)

\* The tail of getAssetViews, with `view` the entries found: keys without a
\* view, or whose view should be a curated image, are queued with `stale`.
Answers(c, asked, view, stale, pc, on) ==
  LET seen == {k \in asked : view[k] # NoEntry}
  IN  /\ Schedules(stale \cup {k \in asked : k \notin seen \/ WantsCurated(k, view[k])})
      /\ call' = [call EXCEPT ![c] = [Idle EXCEPT !.pc = pc, !.asked = asked, !.seen = seen, !.on = on]]

\* What follows a first answer: an eager caller drains when there is work.
AfterFirst(c) == IF c \in Eager THEN "draining" ELSE "done"

\* getAssetViews as far as its await: memory hits are seen, stale ones queued
\* at once, and the rest is asked of Redis.
Looks(c, asked, waiting, ended, on) ==
  LET kept  == Dropped(asked, now)
      stale == {k \in asked : kept[k] # NoEntry /\ kept[k].staleAt <= now}
      rest  == {k \in asked : kept[k] = NoEntry}
  IN  /\ memory' = kept
      /\ IF rest = {}
         THEN Answers(c, asked, kept, stale, ended, on)
         ELSE /\ Schedules(stale)
              /\ call' = [call EXCEPT ![c] = [Idle EXCEPT !.pc = waiting, !.asked = asked,
                            !.seen = asked \ rest, !.at = now, !.on = on]]
      /\ UNCHANGED <<started, redis, batch, notFound, listAt, now>>

Asks(c, asked) == call[c].pc = "idle" /\ Looks(c, asked, "asking", AfterFirst(c), started = "on")

\* readPersistentMany: Redis reads the rows, or the command fails and every
\* key counts as missing.  The reply is still on its way.
Served(c) ==
  LET rest == call[c].asked \ call[c].seen
  IN  /\ call[c].pc \in {"asking", "rereading"} /\ DOMAIN call[c].row = {}
      /\ \E answered \in BOOLEAN :
           call' = [call EXCEPT ![c].row = [k \in rest |-> IF answered THEN redis[k] ELSE NoEntry]]
      /\ UNCHANGED <<started, memory, redis, pending, timer, batch, notFound, listAt, now>>

\* The reply is put into memory whatever memory holds by then.
Received(c) ==
  LET rest == call[c].asked \ call[c].seen
      row  == [k \in rest |-> IF Lives(call[c].row[k], now) THEN call[c].row[k] ELSE NoEntry]
      held == {k \in rest : row[k] # NoEntry}
      view == [k \in call[c].asked |-> IF k \in rest THEN row[k] ELSE memory[k]]
  IN  /\ call[c].pc \in {"asking", "rereading"} /\ DOMAIN call[c].row = rest
      /\ memory' = [k \in Asset |-> IF k \in held THEN row[k] ELSE memory[k]]
      /\ Answers(c, call[c].asked, view, {k \in held : row[k].staleAt <= call[c].at},
                 IF call[c].pc = "asking" THEN AfterFirst(c) ELSE "done", call[c].on)
      /\ UNCHANGED <<started, redis, batch, notFound, listAt, now>>

----------------------------------------------------------------------------
(* The queue                                                               *)

\* The batch of a non-empty queue: it loads the coin list if a key needs it.
BatchOf(keys) == [NoBatch EXCEPT !.todo = keys, !.at = now, !.list = (listAt # Never),
                    !.phase = IF keys \subseteq Curated \cup Disabled THEN "sort" ELSE "list"]

\* flushPendingResolutions takes the whole queue, unless a batch runs.
Flushed ==
  IF batch # NoBatch \/ pending = {}
  THEN UNCHANGED <<pending, batch>>
  ELSE pending' = {} /\ batch' = BatchOf(pending)

TimerFires ==
  /\ timer
  /\ timer' = FALSE /\ Flushed
  /\ UNCHANGED <<started, memory, redis, notFound, listAt, call, now>>

\* Callers that awaited the batch run again.
Woken == [c \in Caller |-> IF call[c].pc = "waiting" THEN [call[c] EXCEPT !.pc = "draining"] ELSE call[c]]

\* Variant: the end of a batch leaves the queue to the timer.
BatchEndsQuietly ==
  /\ batch.phase = "keep" /\ batch.fetch = {} /\ batch.job = NoJob
  /\ batch' = NoBatch /\ call' = Woken
  /\ UNCHANGED <<started, memory, redis, pending, timer, notFound, listAt, now>>

\* The batch ends; what was queued meanwhile is the next one.
BatchEnds ==
  /\ batch.phase = "keep" /\ batch.fetch = {} /\ batch.job = NoJob
  /\ pending' = {}
  /\ batch' = IF pending = {} THEN NoBatch ELSE BatchOf(pending)
  /\ call' = Woken
  /\ UNCHANGED <<started, memory, redis, timer, notFound, listAt, now>>

HasWork == batch # NoBatch \/ pending # {}

\* drainResolutionWork goes round again while there is work and a pass left.
KeepsDraining(c) == HasWork /\ call[c].passes < MaxPasses

\* A pass of drainResolutionWork waits for the batch in flight, or for the
\* one it starts.
Drains(c) ==
  /\ call[c].pc = "draining" /\ KeepsDraining(c)
  /\ Flushed
  /\ call' = [call EXCEPT ![c].pc = "waiting", ![c].passes = @ + 1]
  /\ UNCHANGED <<started, memory, redis, timer, notFound, listAt, now>>

\* The queue is drained, or the passes are used up: getAssetViews again; or
\* there was nothing to wait for and the first answer stands.
Drained(c) ==
  /\ call[c].pc = "draining" /\ ~KeepsDraining(c)
  /\ IF call[c].passes = 0
     THEN /\ call' = [call EXCEPT ![c].pc = "done"]
          /\ UNCHANGED <<started, memory, redis, pending, timer, batch, notFound, listAt, now>>
     ELSE Looks(c, call[c].asked, "rereading", "done", call[c].on)

Leaves(c) ==
  /\ call[c].pc = "done"
  /\ call' = [call EXCEPT ![c] = Idle]
  /\ UNCHANGED <<started, memory, redis, pending, timer, batch, notFound, listAt, now>>

----------------------------------------------------------------------------
(* The batch: resolveBatch                                                 *)

\* ensureCoinListLoaded: fresh, fetched, or failed with the old list usable
ListLoads ==
  /\ batch.phase = "list"
  /\ \E loaded \in BOOLEAN :
       listAt' = IF ~Fresh(listAt) /\ loaded THEN now ELSE listAt
  /\ batch' = [batch EXCEPT !.phase = "sort", !.at = now, !.list = (listAt' # Never)]
  /\ UNCHANGED <<started, memory, redis, pending, timer, notFound, call, now>>

\* A key of the batch is dropped when memory holds a fresh enough entry.
Sorts(k) ==
  LET entry    == IF Lives(memory[k], batch.at) THEN memory[k] ELSE NoEntry
      fresh    == entry # NoEntry /\ entry.staleAt > batch.at /\ ~WantsCurated(k, entry)
      matched  == k \notin Disabled /\ (k \in Curated \/ (batch.list /\ k \in Listed))
      refused  == notFound[IdOf[k]] > batch.at
      rest     == [batch EXCEPT !.todo = @ \ {k}]
  IN  /\ batch.phase = "sort" /\ batch.job = NoJob /\ k \in batch.todo
      /\ memory' = [memory EXCEPT ![k] = entry]
      /\ batch' = IF fresh THEN rest
                  ELSE IF matched /\ ~refused THEN [rest EXCEPT !.fetch = @ \cup {k}]
                  ELSE [rest EXCEPT !.job = [key |-> k, step |-> "fall"]]
      /\ UNCHANGED <<started, redis, pending, timer, notFound, listAt, call, now>>

\* The markets of the ids, in chunks that fail one by one, then a detail call
\* for each id without an image.  An id whose chunk failed is not found,
\* whatever its detail says; a detail that answers 404 is remembered.
Fetches ==
  LET ids == {IdOf[k] : k \in batch.fetch}
  IN  /\ batch.phase = "sort" /\ batch.todo = {} /\ batch.job = NoJob
      /\ \E failed \in SUBSET ids :
         \E pictured \in SUBSET (ids \ failed) :
         \E detailed \in SUBSET {i \in ids \ pictured : notFound[i] <= now} :
         \E missing \in SUBSET {i \in ids \ (pictured \cup detailed) : notFound[i] <= now} :
           /\ notFound' = [i \in Id |-> IF i \in missing THEN now + NotFoundTtl ELSE notFound[i]]
           /\ batch' = [batch EXCEPT !.phase = "keep",
                          !.found = {k \in batch.fetch : IdOf[k] \in pictured \cup (detailed \ failed)}]
      /\ UNCHANGED <<started, memory, redis, pending, timer, listAt, call, now>>

\* Each fetched key gets its image, or falls back.
Keeps(k) ==
  /\ batch.phase = "keep" /\ batch.job = NoJob /\ k \in batch.fetch
  /\ IF k \in batch.found
     THEN LET entry == [kind |-> "image", staleAt |-> batch.at + Positive, until |-> batch.at + Usable]
          IN  /\ memory' = [memory EXCEPT ![k] = entry]
              /\ batch' = [batch EXCEPT !.fetch = @ \ {k}, !.job = [key |-> k, step |-> "write", entry |-> entry]]
     ELSE /\ batch' = [batch EXCEPT !.fetch = @ \ {k}, !.job = [key |-> k, step |-> "fall"]]
          /\ UNCHANGED memory
  /\ UNCHANGED <<started, redis, pending, timer, notFound, listAt, call, now>>

\* The entry a key falls back to: its real image marked as kept, else a local
\* one; either is asked for again soon.
KeptAs(k, existing) ==
  [kind    |-> IF Real(existing) THEN "kept" ELSE IF k \in Aliased THEN "alias" ELSE "placeholder",
   staleAt |-> batch.at + Fallback, until |-> batch.at + Usable]

\* persistFallbackEntry: what memory holds, whatever its age, is the existing
\* entry; without one Redis is asked, which may fail, and once it has answered
\* memory is not looked at again.
FallsBack ==
  LET k     == batch.job.key
      held  == IF batch.job.step = "read" THEN batch.job.row ELSE memory[k]
      entry == KeptAs(k, held)
  IN  /\ batch.job # NoJob
      /\ batch.job.step = "read" \/ (batch.job.step = "fall" /\ memory[k] # NoEntry)
      /\ memory' = [memory EXCEPT ![k] = entry]
      /\ batch' = [batch EXCEPT !.job = [key |-> k, step |-> "write", entry |-> entry]]
      /\ UNCHANGED <<started, redis, pending, timer, notFound, listAt, call, now>>

ReadsRow ==
  LET k == batch.job.key
  IN  /\ batch.job # NoJob /\ batch.job.step = "fall" /\ memory[k] = NoEntry
      /\ \E answered \in BOOLEAN :
           batch' = [batch EXCEPT !.job = [key |-> k, step |-> "read", answered |-> answered,
                       row |-> IF answered /\ Lives(redis[k], now) THEN redis[k] ELSE NoEntry]]
      /\ UNCHANGED <<started, memory, redis, pending, timer, notFound, listAt, call, now>>

\* The end of persistEntry: the row is written, or the failure swallowed.
Writes ==
  /\ batch.job # NoJob /\ batch.job.step = "write"
  /\ \E written \in BOOLEAN :
       redis' = IF written THEN [redis EXCEPT ![batch.job.key] = batch.job.entry] ELSE redis
  /\ batch' = [batch EXCEPT !.job = NoJob]
  /\ UNCHANGED <<started, memory, pending, timer, notFound, listAt, call, now>>

\* A batch lasts less than its entries: every request of it is bounded.
Tick ==
  /\ now < MaxTime
  /\ batch # NoBatch => now + 1 < batch.at + Usable
  /\ now' = now + 1
  /\ UNCHANGED <<started, memory, redis, pending, timer, batch, notFound, listAt, call>>

\* A caller that drains runs on before any timer or reply.
Next ==
  \/ \E c \in Caller : Drains(c) \/ Drained(c)
  \/ /\ \A c \in Caller : call[c].pc # "draining"
     /\ \/ \E c \in Caller, asked \in Lookup : Asks(c, asked)
        \/ \E c \in Caller : Served(c) \/ Received(c) \/ Leaves(c)
        \/ \E keys \in Lookup : Preload(keys)
        \/ Start \/ Stop \/ Refresh \/ TimerFires \/ Tick
        \/ ListLoads \/ Fetches \/ ReadsRow \/ FallsBack \/ Writes \/ BatchEnds
        \/ \E k \in Asset : Sorts(k) \/ Keeps(k)

Spec == Init /\ [][Next]_vars

----------------------------------------------------------------------------

(* Whatever is queued will be taken: a timer is set or a batch is running, *)
(* whose end takes it; no key is left behind by a timer that fired while   *)
(* another batch ran.                                                      *)
PendingIsCarried == pending # {} => timer \/ batch # NoBatch

(* Once an eager call that had something to wait for answers, every key it *)
(* asked has an entry, as long as the service runs: it waited for the      *)
(* batch ahead of its keys and for theirs                                  *)
(* (tests/asset-metadata.service.test.ts:500), and what others queued,     *)
(* stored or read meanwhile takes nothing away.                            *)
EagerSeesEntries ==
  \A c \in Eager : call[c].pc = "done" /\ call[c].on /\ started = "on" => call[c].seen = call[c].asked

\* The entry a batch could find for a key
Known(k) == IF memory[k] # NoEntry THEN memory[k] ELSE IF Lives(redis[k], now) THEN redis[k] ELSE NoEntry

(* A key that falls back keeps the real image that memory, or without an   *)
(* entry there Redis, holds for it: it is marked and asked for again, never *)
(* replaced by a placeholder (tests/asset-metadata.service.test.ts:652),   *)
(* unless Redis failed to tell the batch of it.                            *)
ImagesKept ==
  FallsBack => \/ batch.job.step = "read" /\ ~batch.job.answered
               \/ \A k \in Asset : Real(Known(k)) => Real(Known(k)')
=============================================================================
