-------------------------- MODULE KimchiSnapshots --------------------------
(***************************************************************************)
(* The snapshot caches of the kimchi premium for one exchange              *)
(* (src/domains/kimchi-premium/kimchi-premium.service.ts): the             *)
(* representative rows, and a batch or list of rows, each with a fresh and *)
(* a stale time, one shared load and the outcome of the last call; and the *)
(* answer, put together after the caller has awaited the snapshot and,     *)
(* for the representatives, the asset images.                              *)
(*                                                                         *)
(* A snapshot is the instant it was computed, the one it was cached, and   *)
(* whether a representative row of it is usable.  Promise callbacks run    *)
(* before the next event of the outside world: nothing arrives while one   *)
(* is due.                                                                 *)
(***************************************************************************)
EXTENDS Integers, FiniteSets

CONSTANTS
  Caller, KindOf,          \* the calls, and the cache each of them reads
  Ttl, StaleTtl,           \* by kind: representative, batch
  MaxLoad,                 \* the timeouts of the stages, added up
  Fresh, Slight,           \* thresholds of the freshness buckets
  MaxTime

Kind == {"representative", "batch"}

KimchiAssumption ==
  /\ KindOf \in [Caller -> Kind]
  /\ Ttl \in [Kind -> Nat] /\ StaleTtl \in [Kind -> Nat]
  /\ \A k \in Kind : Ttl[k] <= StaleTtl[k]
  /\ MaxLoad \in Nat \ {0} /\ MaxTime \in Nat

VARIABLES
  now,
  cache,         \* the snapshot of each kind's key
  loads,         \* kimchiSnapshotInFlight: the load of each kind
  outcome,       \* kimchiSnapshotLastOutcome
  calls,         \* where each call is, and the entries it was given
  answers,       \* what each call answered (status, asOf and floor)
  response       \* the meta data of its answer

vars == <<now, cache, loads, outcome, calls, answers, response>>

None == -1
Unasked == [status |-> "unasked", asOf |-> None, floor |-> None]
NoSnapshot == [asOf |-> None, cachedAt |-> None, usable |-> FALSE]
NoLoad == [state |-> "none", refresh |-> FALSE, startedAt |-> None,
           kept |-> NoSnapshot, value |-> NoSnapshot]
NoResponse == [meta |-> NoSnapshot, ready |-> FALSE, badge |-> "none"]

Of(k) == {c \in Caller : KindOf[c] = k}

Representatives == INSTANCE BoundedStaleness
  WITH Request <- Of("representative"),
       answers <- [c \in Of("representative") |-> answers[c]],
       MaxAge  <- StaleTtl["representative"] + 2 * MaxLoad - 1

Batches == INSTANCE BoundedStaleness
  WITH Request <- Of("batch"),
       answers <- [c \in Of("batch") |-> answers[c]],
       MaxAge  <- StaleTtl["batch"] + 2 * MaxLoad - 1

Init == /\ now = 0
        /\ cache = [k \in Kind |-> NoSnapshot]
        /\ loads = [k \in Kind |-> NoLoad]
        /\ outcome = [k \in Kind |-> "none"]
        /\ calls = [c \in Caller |-> [pc |-> "new", entries |-> NoSnapshot]]
        /\ answers = [c \in Caller |-> Unasked]
        /\ response = [c \in Caller |-> NoResponse]

Newest(k) ==
  LET given == {answers[c].asOf : c \in Of(k)} \cup {None}
  IN  CHOOSE t \in given : \A u \in given : u <= t

(* Variant: a stale snapshot never expires.                                *)
UsableForever(k) == cache[k] # NoSnapshot

IsFresh(k) == cache[k] # NoSnapshot /\ cache[k].cachedAt + Ttl[k] > now
IsUsable(k) == cache[k] # NoSnapshot /\ cache[k].cachedAt + StaleTtl[k] > now

CallbacksDue ==
  \/ \E k \in Kind : loads[k].state \in {"resolved", "rejected"}
  \/ \E c \in Caller : calls[c].pc \in {"resumed", "given"}

-----------------------------------------------------------------------------
Given(c, snapshot) ==
  /\ calls' = [calls EXCEPT ![c] = [pc |-> "given", entries |-> snapshot]]
  /\ answers' = [answers EXCEPT ![c] = [status |-> "served", asOf |-> snapshot.asOf,
                                        floor |-> Newest(KindOf[c])]]

Waits(c, pc) ==
  /\ calls' = [calls EXCEPT ![c].pc = pc]
  /\ answers' = [answers EXCEPT ![c].status = "waiting", ![c].floor = Newest(KindOf[c])]

Starts(k, refresh) ==
  loads' = [loads EXCEPT ![k] = [NoLoad EXCEPT !.state = "running", !.refresh = refresh,
                                  !.startedAt = now, !.kept = cache[k]]]

(* getKimchiPremium: a fresh snapshot, the load on its way, a stale        *)
(* snapshot with a refresh, or a load.                                     *)
AsksFresh(c) ==
  LET k == KindOf[c]
  IN /\ calls[c].pc = "new" /\ ~CallbacksDue /\ IsFresh(k)
     /\ Given(c, cache[k])
     /\ outcome' = [outcome EXCEPT ![k] = "cache_hit"]
     /\ UNCHANGED <<now, cache, loads, response>>

AsksJoining(c) ==
  LET k == KindOf[c]
  IN /\ calls[c].pc = "new" /\ ~CallbacksDue /\ ~IsFresh(k) /\ loads[k] # NoLoad
     /\ Waits(c, "joined")
     /\ UNCHANGED <<now, cache, loads, outcome, response>>

AsksStale(c) ==
  LET k == KindOf[c]
  IN /\ calls[c].pc = "new" /\ ~CallbacksDue /\ ~IsFresh(k) /\ loads[k] = NoLoad
     /\ IsUsable(k)
     /\ Given(c, cache[k]) /\ Starts(k, TRUE)
     /\ outcome' = [outcome EXCEPT ![k] = "stale_cache"]
     /\ UNCHANGED <<now, cache, response>>

AsksCold(c) ==
  LET k == KindOf[c]
  IN /\ calls[c].pc = "new" /\ ~CallbacksDue /\ loads[k] = NoLoad /\ ~IsUsable(k)
     /\ Waits(c, "owner") /\ Starts(k, FALSE)
     /\ UNCHANGED <<now, cache, outcome, response>>

-----------------------------------------------------------------------------
LoadResolves(k) ==
  /\ loads[k].state = "running" /\ ~CallbacksDue
  /\ \E t \in loads[k].startedAt..now, usable \in BOOLEAN :
       LET snapshot == [asOf |-> t, cachedAt |-> now, usable |-> usable]
       IN /\ cache' = [cache EXCEPT ![k] = snapshot]
          /\ loads' = [loads EXCEPT ![k].state = "resolved", ![k].value = snapshot]
  /\ outcome' = [outcome EXCEPT ![k] = "external_fetch"]
  /\ UNCHANGED <<now, calls, answers, response>>

(* A refresh that fails gives the snapshot it was started for, a load one  *)
(* that is still usable.                                                   *)
LoadRejects(k) ==
  /\ loads[k].state = "running" /\ ~CallbacksDue
  /\ IF loads[k].refresh
     THEN /\ loads' = [loads EXCEPT ![k].state = "resolved", ![k].value = loads[k].kept]
          /\ UNCHANGED outcome
     ELSE IF IsUsable(k)
     THEN /\ loads' = [loads EXCEPT ![k].state = "resolved", ![k].value = cache[k]]
          /\ outcome' = [outcome EXCEPT ![k] = "stale_cache"]
     ELSE loads' = [loads EXCEPT ![k].state = "rejected"] /\ UNCHANGED outcome
  /\ UNCHANGED <<now, cache, calls, answers, response>>

(* .finally, then those who wait for the load.                             *)
LoadEnds(k) ==
  LET l    == loads[k]
      here == {c \in Caller : KindOf[c] = k /\ calls[c].pc \in {"joined", "owner"}}
  IN /\ l.state \in {"resolved", "rejected"}
     /\ loads' = [loads EXCEPT ![k] = NoLoad]
     /\ calls' = [c \in Caller |->
          IF c \notin here THEN calls[c]
          ELSE IF l.state = "rejected" THEN [calls[c] EXCEPT !.pc = "failed"]
          ELSE [pc |-> IF calls[c].pc = "joined" THEN "resumed" ELSE "given",
                         entries |-> l.value]]
     /\ answers' = [c \in Caller |->
          IF c \notin here THEN answers[c]
          ELSE IF l.state = "rejected" THEN [answers[c] EXCEPT !.status = "failed"]
          ELSE [answers[c] EXCEPT !.status = "served", !.asOf = l.value.asOf]]
     /\ UNCHANGED <<now, cache, outcome, response>>

Resumes(c) ==
  LET k == KindOf[c]
  IN /\ calls[c].pc = "resumed"
     /\ calls' = [calls EXCEPT ![c].pc = "given"]
     /\ outcome' = IF cache[k] = NoSnapshot THEN outcome
                   ELSE [outcome EXCEPT ![k] = "inflight_dedupe"]
     /\ UNCHANGED <<now, cache, loads, answers, response>>

-----------------------------------------------------------------------------

Bucket(snapshot) ==
  LET age == now - snapshot.asOf
  IN IF ~snapshot.usable THEN 4 ELSE IF age <= Fresh THEN 0 ELSE IF age <= Slight THEN 1
     ELSE IF age <= StaleTtl["representative"] THEN 2 ELSE 3

(* preferRepresentativeSummary: of the entries and the usable snapshot of  *)
(* the representative cache, the one that is ready, then the fresher one.  *)
Summary(c) ==
  LET mine == calls[c].entries
      kept == cache["representative"]
  IN IF ~IsUsable("representative") THEN mine
     ELSE IF mine.usable # kept.usable THEN IF mine.usable THEN mine ELSE kept
     ELSE IF Bucket(mine) <= Bucket(kept) THEN mine ELSE kept

Badge(snapshot) ==
  IF ~snapshot.usable THEN "sync" ELSE IF Bucket(snapshot) <= 1 THEN "ready" ELSE "delayed"

Responds(c) == [response EXCEPT ![c].ready = Summary(c).usable, ![c].badge = Badge(Summary(c))]

(* getKimchiPremiumSnapshot reads the cache a second time; a batch answers *)
(* at once, the representatives after their images.                        *)
Collects(c) ==
  /\ calls[c].pc = "given"
  /\ response' = [Responds(c) EXCEPT ![c].meta = cache[KindOf[c]],
                    ![c].badge = IF KindOf[c] = "batch" THEN @ ELSE "none"]
  /\ calls' = [calls EXCEPT ![c].pc = IF KindOf[c] = "batch" THEN "done" ELSE "images"]
  /\ UNCHANGED <<now, cache, loads, outcome, answers>>

AnswersRepresentatives(c) ==
  /\ calls[c].pc = "images" /\ ~CallbacksDue
  /\ response' = Responds(c)
  /\ calls' = [calls EXCEPT ![c].pc = "done"]
  /\ UNCHANGED <<now, cache, loads, outcome, answers>>

Tick ==
  /\ now < MaxTime /\ ~CallbacksDue
  /\ \A k \in Kind : loads[k].state = "running" => now < loads[k].startedAt + MaxLoad
  /\ now' = now + 1
  /\ UNCHANGED <<cache, loads, outcome, calls, answers, response>>

Next ==
  \/ Tick
  \/ \E k \in Kind : LoadResolves(k) \/ LoadRejects(k) \/ LoadEnds(k)
  \/ \E c \in Caller :
       \/ AsksFresh(c) \/ AsksJoining(c) \/ AsksStale(c) \/ AsksCold(c)
       \/ Resumes(c) \/ Collects(c) \/ AnswersRepresentatives(c)

(* Every stage of a load has a timeout, and callbacks run.                 *)
Fairness ==
  /\ \A k \in Kind : WF_vars(LoadResolves(k) \/ LoadRejects(k)) /\ WF_vars(LoadEnds(k))
  /\ \A c \in Caller : WF_vars(Resumes(c) \/ Collects(c))

Spec == Init /\ [][Next]_vars
FairSpec == Spec /\ Fairness

-----------------------------------------------------------------------------
(* Each kind of snapshot keeps the promise of BoundedStaleness: entries of *)
(* bounded age, never older than what was handed out before, everyone      *)
(* answered.                                                               *)
SnapshotsKeepPromise == Representatives!ASpec /\ Batches!ASpec

(* An answer says that the representatives are not ready only when neither *)
(* its own entries nor the representative snapshot that is still usable    *)
(* has one to show; the badge says sync then, and only then.               *)
ReadyWhileAnyUsable ==
  \A c \in Caller :
    calls'[c].pc = "done" /\ calls[c].pc # "done" =>
      /\ response'[c].ready = \/ calls[c].entries.usable
                              \/ IsUsable("representative") /\ cache["representative"].usable
      /\ (response'[c].badge = "sync") = ~response'[c].ready
=============================================================================
