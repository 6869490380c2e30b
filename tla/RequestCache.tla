---------------------------- MODULE RequestCache ----------------------------
(***************************************************************************)
(* BaseExchangeProvider.withRequestCache                                   *)
(* (src/providers/exchanges/base-exchange.provider.ts) for one cache key:  *)
(* a TTL entry, one shared in-flight load, stale answers while a refresh   *)
(* runs and a stale fallback when a load fails.                            *)
(*                                                                         *)
(* A load is named by the request that started it, so the model can tell   *)
(* two loads apart if the in-flight map ever let two run.  A value is its  *)
(* instant: when the exchange had the data.  Settling (.then / .catch) and *)
(* the deletion in .finally are separate microtasks; the clock stands      *)
(* still between them.                                                     *)
(***************************************************************************)
EXTENDS Integers, FiniteSets

CONSTANTS
  Request,               \* calls of withRequestCache for this key
  Nobody,                \* no request
  Ttl, StaleTtl,         \* params.ttlMs and max(staleTtlMs ?? ttlMs, ttlMs)
  MaxLoad,               \* longest a loader runs (the REST client's budget)
  Modes,                 \* values of params.staleWhileRevalidate in use
  MaxTime                \* bound on the clock

CacheAssumption ==
  /\ Nobody \notin Request /\ Modes \subseteq BOOLEAN
  /\ Ttl \in Nat /\ StaleTtl \in Nat /\ Ttl <= StaleTtl
  /\ MaxLoad \in Nat \ {0} /\ MaxTime \in Nat

VARIABLES
  swr,           \* params.staleWhileRevalidate of this key's operation
  now,
  answers,       \* what each call returned (its floor is history)
  entry,         \* requestCache.get(cacheKey)
  loads,         \* the loader of each request that started one
  inFlight,      \* inFlightRequests.get(cacheKey): whose load
  waitsOn        \* the load whose promise each call returned

vars == <<swr, now, answers, entry, loads, inFlight, waitsOn>>

Promise == INSTANCE BoundedStaleness
             WITH MaxAge <- StaleTtl + 2 * MaxLoad - 1

None    == Promise!None
Instant == Promise!Instant
Unasked == Promise!Unasked
Newest  == Promise!Newest

NoEntry == [asOf |-> None, cachedAt |-> None]
Entry   == [asOf : Instant, cachedAt : Instant]

(* Variant: an entry never expires.                                        *)
FreshForever(e) == e # NoEntry

IsFresh(e) == e # NoEntry /\ e.cachedAt + Ttl > now
IsUsable(e) == e # NoEntry /\ e.cachedAt + StaleTtl > now

(* fallback: what the load's .catch may answer with; asOf: its result.     *)
NoLoad == [state |-> "none", refresh |-> FALSE, startedAt |-> None,
           fallback |-> NoEntry, asOf |-> None]
Load == [state : {"none", "running", "resolved", "rejected"},
         refresh : BOOLEAN, startedAt : Instant \cup {None},
         fallback : Entry \cup {NoEntry}, asOf : Instant \cup {None}]

TypeOK ==
  /\ swr \in BOOLEAN
  /\ Promise!ATypeOK
  /\ entry \in Entry \cup {NoEntry}
  /\ loads \in [Request -> Load]
  /\ inFlight \in Request \cup {Nobody}
  /\ waitsOn \in [Request -> Request \cup {Nobody}]

Init ==
  /\ swr \in Modes
  /\ Promise!AInit
  /\ entry = NoEntry
  /\ loads = [r \in Request |-> NoLoad]
  /\ inFlight = Nobody
  /\ waitsOn = [r \in Request |-> Nobody]

Settled(l) == loads[l].state \in {"resolved", "rejected"}

Tick ==
  /\ now < MaxTime
  /\ \A l \in Request :
       /\ ~Settled(l)
       /\ loads[l].state = "running" => now < loads[l].startedAt + MaxLoad
  /\ now' = now + 1
  /\ UNCHANGED <<swr, answers, entry, loads, inFlight, waitsOn>>

-----------------------------------------------------------------------------
Serve(r, asOf) ==
  answers' = [answers EXCEPT ![r] =
                [status |-> "served", asOf |-> asOf, floor |-> Newest]]

Wait(r, load) ==
  /\ answers' = [answers EXCEPT ![r] =
                   [status |-> "waiting", asOf |-> None, floor |-> Newest]]
  /\ waitsOn' = [waitsOn EXCEPT ![r] = load]

StartLoad(r, isRefresh) ==
  /\ loads' = [loads EXCEPT ![r] =
                 [state |-> "running", refresh |-> isRefresh,
                  startedAt |-> now, fallback |-> entry, asOf |-> None]]
  /\ inFlight' = r

Asks(r) == answers[r].status = "unasked"

HitFresh(r) ==
  /\ Asks(r) /\ IsFresh(entry)
  /\ Serve(r, entry.asOf)
  /\ UNCHANGED <<swr, now, entry, loads, inFlight, waitsOn>>

MayServeStale == swr /\ IsUsable(entry) /\ ~IsFresh(entry)

ServeStale(r) ==
  /\ Asks(r) /\ MayServeStale
  /\ Serve(r, entry.asOf)
  /\ IF inFlight = Nobody
     THEN StartLoad(r, TRUE)
     ELSE UNCHANGED <<loads, inFlight>>
  /\ UNCHANGED <<swr, now, entry, waitsOn>>

MissesCache(r) == Asks(r) /\ ~IsFresh(entry) /\ ~MayServeStale

JoinLoad(r) ==
  /\ MissesCache(r)
  /\ inFlight # Nobody
  /\ Wait(r, inFlight)
  /\ UNCHANGED <<swr, now, entry, loads, inFlight>>

LoadOnMiss(r) ==
  /\ MissesCache(r)
  /\ inFlight = Nobody
  /\ StartLoad(r, FALSE)
  /\ Wait(r, r)
  /\ UNCHANGED <<swr, now, entry>>

-----------------------------------------------------------------------------

LoaderResolves(l) ==
  /\ loads[l].state = "running"
  /\ \E t \in loads[l].startedAt..now :
       /\ entry' = [asOf |-> t, cachedAt |-> now]
       /\ loads' = [loads EXCEPT ![l].state = "resolved", ![l].asOf = t]
  /\ UNCHANGED <<swr, now, answers, inFlight, waitsOn>>

(* Variant: a failed load forgets the stale entry.                         *)
FallsBackOnRefresh(l) == loads[l].refresh

(* A refresh answers with the entry it was started for; a load only while  *)
(* that entry's stale window lasts.                                        *)
FallsBack(l) == loads[l].refresh \/ IsUsable(loads[l].fallback)

LoaderRejects(l) ==
  /\ loads[l].state = "running"
  /\ loads' = [loads EXCEPT ![l] =
                 IF FallsBack(l)
                 THEN [@ EXCEPT !.state = "resolved",
                                !.asOf = loads[l].fallback.asOf]
                 ELSE [@ EXCEPT !.state = "rejected"]]
  /\ UNCHANGED <<swr, now, answers, entry, inFlight, waitsOn>>

(* .finally, then everyone who holds the promise of this load.             *)
LoadFinishes(l) ==
  /\ Settled(l)
  /\ inFlight' = Nobody
  /\ answers' = [r \in Request |->
       IF waitsOn[r] # l THEN answers[r]
       ELSE IF loads[l].state = "resolved"
       THEN [answers[r] EXCEPT !.status = "served", !.asOf = loads[l].asOf]
       ELSE [answers[r] EXCEPT !.status = "failed"]]
  /\ waitsOn' = [r \in Request |-> IF waitsOn[r] = l THEN Nobody ELSE waitsOn[r]]
  /\ loads' = [loads EXCEPT ![l] = NoLoad]
  /\ UNCHANGED <<swr, now, entry>>

Next ==
  \/ Tick
  \/ \E r \in Request :
       \/ HitFresh(r) \/ ServeStale(r) \/ JoinLoad(r) \/ LoadOnMiss(r)
       \/ LoaderResolves(r) \/ LoaderRejects(r) \/ LoadFinishes(r)

(* Promises settle: the REST client bounds every attempt with a timeout.   *)
Fairness ==
  \A l \in Request : /\ WF_vars(LoaderResolves(l) \/ LoaderRejects(l))
                     /\ WF_vars(LoadFinishes(l))

Spec == Init /\ [][Next]_vars /\ Fairness

-----------------------------------------------------------------------------
(* However the calls overlap, the exchange sees one request per key.       *)
SingleLoad ==
  \A k, l \in Request :
    loads[k].state = "running" /\ loads[l].state = "running" => k = l

(* A caller sees an upstream failure only when no entry is inside its      *)
(* stale window: a join of a refresh or of a load keeps the fallback.      *)
ErrorOnlyWithoutStale ==
  \A r \in Request :
    answers[r].status # "failed" /\ answers'[r].status = "failed" =>
      ~IsUsable(entry)

(* The cache keeps the promise of BoundedStaleness: answers are at most    *)
(* StaleTtl plus two loads old, never older than what was already handed   *)
(* out, and every caller is answered.                                      *)
KeepsPromise == Promise!ASpec
=============================================================================
