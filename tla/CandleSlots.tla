---------------------------- MODULE CandleSlots ----------------------------
(***************************************************************************)
(* The candle calls the market contract makes for the small graphs of a    *)
(* list (src/domains/market-data/contracts/market-data-contract.service.ts):*)
(* one exchange's calls share a rate limit (a start time that is reserved  *)
(* before it is waited for, and a cooldown after a 429); a list request    *)
(* fetches its first targets inside its budget and leaves the rest to a    *)
(* warm-up in the background.                                              *)
(*                                                                         *)
(* A batch is the work mapBounded is given: a request's own targets, or    *)
(* the warm-up of those it deferred.  Timers fire on time: the clock does  *)
(* not pass a wake-up, a deadline of a call or work a free worker can take.*)
(***************************************************************************)
EXTENDS Integers, Sequences, FiniteSets, SequencesExt

CONSTANTS Market, Request,
          MinInterval, Jitter, Cooldown,   \* PROVIDER_CANDLE_RATE_LIMIT_PROFILES
          MaxAttach, Margin, Timeout,
          MaxFetches, Concurrency, WarmupConcurrency,
          WarmupDelay, WarmupTimeout,
          LastArrival,                     \* bound: no request arrives later
          MaxTime                          \* bound: late enough for all to end

(* Somebody works, and nothing takes less than no time.                    *)
SlotAssumption ==
  /\ Concurrency \in Nat \ {0} /\ Margin \in Nat /\ Timeout \in Nat
  /\ MaxAttach \in Nat /\ MinInterval \in Nat /\ Jitter \in Nat /\ WarmupDelay \in Nat
  /\ Cooldown \in Nat /\ MaxFetches \in Nat /\ MaxTime \in Nat /\ IsFiniteSet(Market)

Batch == Request \X {"list", "warm"}

VARIABLES now,
          nextStartAt, cooldownUntil,      \* ProviderCandleRateLimitState
          graphs,                          \* the markets with a cached graph
          inFlight,                        \* sparklineWarmupInFlight
          status, dueAt,                   \* of a batch: state, deadline or timer
          todo, work,                      \* targets not taken; calls of workers
          deferred                         \* targets beyond MaxFetches

slot == <<nextStartAt, cooldownUntil>>
vars == <<now, slot, graphs, inFlight, status, dueAt, todo, work, deferred>>

Job == [market : Market, pc : {"sleeping", "calling"}, at : Nat]

Init == /\ now = 0 /\ nextStartAt = 0 /\ cooldownUntil = 0
        /\ graphs = {} /\ inFlight = {}
        /\ status = [b \in Batch |-> "idle"] /\ dueAt = [b \in Batch |-> 0]
        /\ todo = [b \in Batch |-> <<>>] /\ work = [b \in Batch |-> {}]
        /\ deferred = [r \in Request |-> <<>>]

-----------------------------------------------------------------------------
IsWarmup(b) == b[2] = "warm"
Workers(b) == IF IsWarmup(b) THEN WarmupConcurrency ELSE Concurrency
CallTimeout(b) == IF IsWarmup(b) THEN WarmupTimeout ELSE Timeout

(* A free worker takes its next target at once.                            *)
CanTake(b) == status[b] = "running" /\ todo[b] # <<>> /\ Cardinality(work[b]) < Workers(b)
Finished(b) == status[b] = "running" /\ todo[b] = <<>> /\ work[b] = {}

(* waitForProviderCandleSlot: the reservation a call sees after the clock  *)
(* of a reservation or a cooldown too far ahead is put back.               *)
Reserved == IF nextStartAt - now > Cooldown THEN now ELSE nextStartAt
CoolsUntil == IF cooldownUntil - now > 2 * Cooldown THEN 0 ELSE cooldownUntil
StartAt == IF Reserved > now THEN Reserved ELSE now

(* Variant: the budget is looked at before the wait for the slot is known. *)
OutOfBudgetLoose(b) == ~IsWarmup(b) /\ now >= dueAt[b]

OutOfBudget(b) ==
  ~IsWarmup(b) /\ (now >= dueAt[b] \/ StartAt + Margin > dueAt[b])

Refused(b) == CoolsUntil > now \/ OutOfBudget(b)

(* Variant: a refused warm-up gives up before the finally.                 *)
LeavesFlightUnlessRefused(b, m) ==
  IF IsWarmup(b) /\ ~Refused(b) THEN inFlight \ {m} ELSE inFlight

(* The finally of a warm-up's target.                                      *)
LeavesFlight(b, m) == IF IsWarmup(b) THEN inFlight \ {m} ELSE inFlight

(* mapBounded's worker: its next target is refused a slot, or reserves one *)
(* and sleeps until it.  A list target whose budget is over never asks.    *)
Takes(b) ==
  /\ CanTake(b)
  /\ LET m == Head(todo[b]) IN
     /\ todo' = [todo EXCEPT ![b] = Tail(@)]
     /\ IF Refused(b)
        THEN /\ inFlight' = LeavesFlight(b, m)
             /\ UNCHANGED work
        ELSE /\ work' = [work EXCEPT ![b] =
                           @ \cup {[market |-> m, pc |-> "sleeping", at |-> StartAt]}]
             /\ UNCHANGED inFlight
     /\ IF ~IsWarmup(b) /\ now >= dueAt[b]
        THEN UNCHANGED slot
        ELSE /\ cooldownUntil' = CoolsUntil
             /\ \E late \in 0..Jitter :
                  nextStartAt' = IF Refused(b) THEN Reserved ELSE StartAt + MinInterval + late
  /\ UNCHANGED <<now, graphs, status, dueAt, deferred>>

Due(j) == j.pc = "sleeping" /\ now >= j.at

(* The slot has come: getCandles is called and raced with a timer.  The    *)
(* cooldown is not looked at again.                                        *)
Calls(b) ==
  \E j \in work[b] :
    /\ Due(j)
    /\ work' = [work EXCEPT ![b] = (@ \ {j}) \cup {[j EXCEPT !.pc = "calling", !.at = now]}]
    /\ UNCHANGED <<now, slot, graphs, inFlight, status, dueAt, todo, deferred>>

(* registerProviderCandleFailure: only a 429 cools the exchange down.      *)
CooledDown == IF now + Cooldown > cooldownUntil THEN now + Cooldown ELSE cooldownUntil

(* The call answers: with enough candles for a graph, with too few, with a *)
(* 429 or another failure; or its timer fires first and the late answer    *)
(* is ignored, a 429 too.  A warm-up may still find a graph in its ring    *)
(* buffer, and a graph worse than the one that is cached is not written.   *)
CallEnds(b) ==
  \E j \in work[b], outcome \in {"full", "short", "limited", "failed"} :
    /\ j.pc = "calling"
    /\ work' = [work EXCEPT ![b] = @ \ {j}]
    /\ inFlight' = LeavesFlight(b, j.market)
    /\ cooldownUntil' = IF outcome = "limited" THEN CooledDown ELSE cooldownUntil
    /\ graphs' \in CASE outcome = "full" -> {graphs \cup {j.market}}
                     [] outcome = "short" /\ IsWarmup(b) -> {graphs, graphs \cup {j.market}}
                     [] OTHER -> {graphs}
    /\ UNCHANGED <<now, nextStartAt, status, dueAt, todo, deferred>>

-----------------------------------------------------------------------------
(* shouldFetchProviderListSparkline: a list without graphs for S asks for  *)
(* the first of them and defers the others.                                *)
Arrives(r) ==
  LET b == <<r, "list">> IN
  \E S \in (SUBSET Market) \ {{}} :
    LET targets == SetToSeq(S)
        first   == IF Len(targets) < MaxFetches THEN Len(targets) ELSE MaxFetches
    IN /\ status[b] = "idle" /\ now <= LastArrival
       /\ status' = [status EXCEPT ![b] = "running"]
       /\ dueAt' = [dueAt EXCEPT ![b] = now + MaxAttach]
       /\ todo' = [todo EXCEPT ![b] = SubSeq(targets, 1, first)]
       /\ deferred' = [deferred EXCEPT ![r] = SubSeq(targets, first + 1, Len(targets))]
       /\ UNCHANGED <<now, slot, graphs, inFlight, work>>

\* The elements at the places K, in the order they have.
Where(seq, K) ==
  [n \in 1 .. Cardinality(K) |-> seq[CHOOSE i \in K : Cardinality({j \in K : j <= i}) = n]]

NeedsWarm(m) == m \notin graphs /\ m \notin inFlight

(* The request is answered; what it deferred is scheduled, without the     *)
(* keys that are cached or in flight.                                      *)
Answers(r) ==
  LET b    == <<r, "list">>
      warm == <<r, "warm">>
      need == Where(deferred[r], {i \in DOMAIN deferred[r] : NeedsWarm(deferred[r][i])})
  IN /\ Finished(b)
     /\ IF need = <<>>
        THEN /\ status' = [status EXCEPT ![b] = "ended", ![warm] = "ended"]
             /\ UNCHANGED <<dueAt, todo, inFlight>>
        ELSE /\ status' = [status EXCEPT ![b] = "ended", ![warm] = "scheduled"]
             /\ dueAt' = [dueAt EXCEPT ![warm] = now + WarmupDelay]
             /\ todo' = [todo EXCEPT ![warm] = need]
             /\ inFlight' = inFlight \cup Range(need)
     /\ UNCHANGED <<now, slot, graphs, work, deferred>>

WarmupStarts(r) ==
  LET b == <<r, "warm">> IN
  /\ status[b] = "scheduled" /\ now >= dueAt[b]
  /\ status' = [status EXCEPT ![b] = "running"]
  /\ UNCHANGED <<now, slot, graphs, inFlight, dueAt, todo, work, deferred>>

WarmupEnds(r) ==
  /\ Finished(<<r, "warm">>)
  /\ status' = [status EXCEPT ![<<r, "warm">>] = "ended"]
  /\ UNCHANGED <<now, slot, graphs, inFlight, dueAt, todo, work, deferred>>

(* A cached graph grows too old (readCachedSparklineItem drops it).        *)
GraphExpires ==
  \E m \in graphs :
    /\ \E r \in Request : status[<<r, "list">>] # "ended"
    /\ graphs' = graphs \ {m}
    /\ UNCHANGED <<now, slot, inFlight, status, dueAt, todo, work, deferred>>

(* Nothing is due: the clock may move.                                     *)
Idle ==
  \A b \in Batch :
    /\ ~CanTake(b) /\ ~Finished(b)
    /\ ~(status[b] = "scheduled" /\ now >= dueAt[b])
    /\ \A j \in work[b] : ~Due(j) /\ ~(j.pc = "calling" /\ now >= j.at + CallTimeout(b))

Tick == /\ Idle /\ now < MaxTime /\ now' = now + 1
        /\ UNCHANGED <<slot, graphs, inFlight, status, dueAt, todo, work, deferred>>

BatchStep == \E b \in Batch : Takes(b) \/ Calls(b) \/ CallEnds(b)
RequestStep == \E r \in Request : Answers(r) \/ WarmupStarts(r) \/ WarmupEnds(r)

Next == BatchStep \/ RequestStep \/ (\E r \in Request : Arrives(r)) \/ GraphExpires \/ Tick

Spec == Init /\ [][Next]_vars

(* Every call is raced with a timer, every sleep is a timer, and workers   *)
(* run on the event loop.                                                  *)
FairSpec == Spec /\ WF_vars(BatchStep) /\ WF_vars(RequestStep) /\ WF_vars(Tick)

-----------------------------------------------------------------------------
TypeOK == /\ now \in 0..MaxTime /\ graphs \subseteq Market /\ inFlight \subseteq Market
          /\ nextStartAt \in Nat /\ cooldownUntil \in Nat
          /\ \A b \in Batch : work[b] \subseteq Job /\ Range(todo[b]) \subseteq Market

(* However many requests and warm-ups reserve slots before it, a list is   *)
(* answered by its budget and one call's timeout.                          *)
AnsweredInTime ==
  \A r \in Request :
    status[<<r, "list">>] = "running" => now <= dueAt[<<r, "list">>] + Timeout

(* And a key is being warmed by one target at most, known to               *)
(* sparklineWarmupInFlight.                                                *)
SlotsKeepTime ==
  /\ AnsweredInTime
  /\ \A m \in Market :
       Cardinality({r \in Request : m \in Range(todo[<<r, "warm">>])})
         + Cardinality({p \in Request \X UNION {work[<<r, "warm">>] : r \in Request} :
                          p[2] \in work[<<p[1], "warm">>] /\ p[2].market = m})
       = IF m \in inFlight THEN 1 ELSE 0

(* A key that is being warmed leaves the set of those, whatever the slot,  *)
(* the exchange or the timer does: otherwise it would never be warmed      *)
(* again.                                                                  *)
WarmedKeysLeave == \A m \in Market : m \in inFlight ~> m \notin inFlight
=============================================================================
