----------------------------- MODULE PriceAlerts -----------------------------
(***************************************************************************)
(* Price alerts: the database rows users edit                              *)
(* (src/domains/alerts/price-alert.service.ts), the worker that polls them *)
(* (price-alert.worker.ts) and the push tokens it sends to                 *)
(* (src/domains/push).                                                     *)
(*                                                                         *)
(* A tick of the worker reads all active rows once and then works from     *)
(* that snapshot through many awaits, while users create, edit and delete  *)
(* the rows under it.  An Alert is the natural key of a row (user, market, *)
(* condition, target); a row deleted and created again has a new id.  The  *)
(* price is abstracted to whether an alert's condition is met now, which   *)
(* the market changes and so does an edit of the target.  A process crash  *)
(* loses what a failing await loses: the rest of the tick (TickFails).     *)
(***************************************************************************)
EXTENDS Integers, FiniteSets

CONSTANTS
  Alert, Token,         \* natural keys, push tokens of the user
  Tick,                 \* slots for tick calls; the first free one is used
  Request,              \* concurrent POST requests
  Nothing,              \* null
  Cooldown,             \* PRICE_ALERT_REPEAT_COOLDOWN_SECONDS
  MaxId, MaxTime        \* bounds: rows ever created, clock

ASSUME NothingAssumption  == Nothing \notin Alert \cup Token
ASSUME CooldownAssumption == Cooldown \in Nat
ASSUME BoundAssumption    == MaxId \in Nat /\ MaxTime \in Nat

VARIABLES
  now, met,        \* the clock; alerts whose condition the market meets
  rows, nextId,    \* table price_alerts by natural key; next row id
  active,          \* tokens with isActive
  posts,           \* POST requests between findFirst and their write
  timer, running,  \* the worker's interval and its running flag
  ticks,           \* where each tick is
  spent            \* history: ids a trigger deactivated and no user revived

worker == <<timer, running, ticks>>
table  == <<rows, nextId, spent>>
world  == <<now, met>>
vars   == <<world, table, active, posts, worker>>

Never   == -1
Row     == [id : 1..MaxId, mode : {"ONCE", "REPEAT"}, isActive : BOOLEAN,
            last : {Never} \cup 0..MaxTime]
NoRow   == [id |-> 0, mode |-> "ONCE", isActive |-> FALSE, last |-> Never]
MaybeRow == Row \cup {NoRow}

Exists(a, id) == id # 0 /\ rows[a].id = id

Outcome == {"SUCCESS", "FAILED", "INVALID"}   \* of a push

IdleTick == [pc |-> "idle", snapshot |-> [a \in Alert |-> NoRow],
             above |-> {}, left |-> {}, current |-> Nothing,
             tokens |-> {}, token |-> Nothing, result |-> "SUCCESS",
             successes |-> FALSE]
TickState == [pc : {"idle", "prices", "loop", "send", "record", "update"},
              snapshot : [Alert -> MaybeRow],
              above : SUBSET Alert, left : SUBSET Alert,
              current : Alert \cup {Nothing},
              tokens : SUBSET Token, token : Token \cup {Nothing},
              result : Outcome,
              successes : BOOLEAN]
NoPost == [pc |-> "idle", alert |-> Nothing, found |-> 0]
Post   == [pc : {"idle", "found"}, alert : Alert \cup {Nothing}, found : 0..MaxId]

TypeOK ==
  /\ now \in 0..MaxTime /\ met \subseteq Alert
  /\ rows \in [Alert -> MaybeRow] /\ nextId \in 1..(MaxId + 1)
  /\ active \subseteq Token
  /\ posts \in [Request -> Post]
  /\ timer \in BOOLEAN /\ running \in BOOLEAN
  /\ ticks \in [Tick -> TickState]
  /\ spent \subseteq 1..MaxId

Init ==
  /\ now = 0 /\ met = {}
  /\ rows = [a \in Alert |-> NoRow] /\ nextId = 1
  /\ active = {}
  /\ posts = [r \in Request |-> NoPost]
  /\ timer = FALSE /\ running = FALSE
  /\ ticks = [t \in Tick |-> IdleTick]
  /\ spent = {}

Clock ==
  /\ now < MaxTime /\ now' = now + 1
  /\ UNCHANGED <<met, table, active, posts, worker>>

MarketMoves(a) ==
  /\ met' = IF a \in met THEN met \ {a} ELSE met \cup {a}
  /\ UNCHANGED <<now, table, active, posts, worker>>

-----------------------------------------------------------------------------
(* Users: the routes of alerts and push tokens                             *)

Revive(id, isActive) == spent' = IF isActive THEN spent \ {id} ELSE spent

(* POST: findFirst by the natural key.                                     *)
PostReads(r, a) ==
  /\ posts[r].pc = "idle"
  /\ nextId <= MaxId
  /\ posts' = [posts EXCEPT ![r] =
                 [pc |-> "found", alert |-> a, found |-> rows[a].id]]
  /\ UNCHANGED <<world, table, active, worker>>

(* POST: update the row that was found, or create one.  A row deleted or   *)
(* created meanwhile makes the write fail and the request with it.         *)
PostWrites(r, mode, isActive) ==
  LET a == posts[r].alert  id == posts[r].found IN
  /\ posts[r].pc = "found"
  /\ posts' = [posts EXCEPT ![r] = NoPost]
  /\ \/ /\ Exists(a, id)
        /\ rows' = [rows EXCEPT ![a].mode = mode, ![a].isActive = isActive]
        /\ Revive(id, isActive)
        /\ UNCHANGED nextId
     \/ /\ id = 0 /\ rows[a] = NoRow /\ nextId <= MaxId
        /\ rows' = [rows EXCEPT ![a] = [id |-> nextId, mode |-> mode,
                                        isActive |-> isActive, last |-> Never]]
        /\ nextId' = nextId + 1
        /\ UNCHANGED spent
     \/ /\ id # rows[a].id
        /\ UNCHANGED table
  /\ UNCHANGED <<world, active, worker>>

(* PATCH: the write goes by id, whatever was read before it.               *)
UpdateAlert(a, mode, isActive) ==
  /\ rows[a] # NoRow
  /\ rows' = [rows EXCEPT ![a].mode = mode, ![a].isActive = isActive]
  /\ Revive(rows[a].id, isActive)
  /\ UNCHANGED <<world, nextId, active, posts, worker>>

DeleteAlert(a) ==
  /\ rows[a] # NoRow
  /\ rows' = [rows EXCEPT ![a] = NoRow]
  /\ UNCHANGED <<world, nextId, spent, active, posts, worker>>

UpsertToken(k) ==
  /\ k \notin active
  /\ active' = active \cup {k}
  /\ UNCHANGED <<world, table, posts, worker>>

DeleteToken(k) ==
  /\ k \in active
  /\ active' = active \ {k}
  /\ UNCHANGED <<world, table, posts, worker>>

-----------------------------------------------------------------------------
(* The worker                                                              *)

(* Variant: a tick that starts while another one runs.                     *)
BeginTickAnyway(t) ==
  /\ ticks[t].pc = "idle"
  /\ running' = TRUE
  /\ LET seen == [a \in Alert |-> IF rows[a].isActive THEN rows[a] ELSE NoRow] IN
     ticks' = [ticks EXCEPT ![t] = [IdleTick EXCEPT !.pc = "prices", !.snapshot = seen]]

(* runPriceAlertWorkerTick up to the prices: the guard, findMany of the    *)
(* active rows, and the return when there is none.                         *)
BeginTick(t) ==
  /\ ticks[t].pc = "idle" /\ ~running
  /\ t = CHOOSE u \in Tick : ticks[u].pc = "idle"
  /\ LET seen == [a \in Alert |-> IF rows[a].isActive THEN rows[a] ELSE NoRow]
         any  == \E a \in Alert : seen[a] # NoRow
     IN /\ running' = any
        /\ ticks' = IF any
                    THEN [ticks EXCEPT ![t] = [IdleTick EXCEPT !.pc = "prices",
                                                              !.snapshot = seen]]
                    ELSE ticks

StartWorker(t) ==
  /\ ~timer
  /\ timer' = TRUE
  /\ IF running THEN UNCHANGED <<running, ticks>> ELSE BeginTick(t)
  /\ UNCHANGED <<world, table, active, posts>>

IntervalFires(t) ==
  /\ timer
  /\ BeginTick(t)
  /\ UNCHANGED <<world, table, active, posts, timer>>

StopWorker ==
  /\ timer
  /\ timer' = FALSE
  /\ UNCHANGED <<world, table, active, posts, running, ticks>>

EndTick(t) ==
  /\ running' = FALSE
  /\ ticks' = [ticks EXCEPT ![t] = IdleTick]

(* Any await of the tick throws; the finally runs, the other alerts wait.  *)
TickFails(t) ==
  /\ ticks[t].pc # "idle"
  /\ EndTick(t)
  /\ UNCHANGED <<world, table, active, posts, timer>>

(* getCurrentPriceSnapshots: one answer for all, some markets missing.     *)
PricesArrive(t) ==
  /\ ticks[t].pc = "prices"
  /\ \E priced \in SUBSET {a \in Alert : ticks[t].snapshot[a] # NoRow} :
       ticks' = [ticks EXCEPT ![t].pc = "loop", ![t].left = priced,
                              ![t].above = met \cap priced]
  /\ UNCHANGED <<world, table, active, posts, timer, running>>

InCooldown(row) == row.mode = "REPEAT" /\ row.last # Never /\ now - row.last < Cooldown

(* Variant: the cooldown of a REPEAT alert is not consulted.               *)
MeetsPrice(t, a) == a \in ticks[t].above

ShouldTrigger(t, a) ==
  a \in ticks[t].above /\ ~InCooldown(ticks[t].snapshot[a])

SkipAlert(t, a) ==
  /\ ticks[t].pc = "loop" /\ a \in ticks[t].left
  /\ ~ShouldTrigger(t, a)
  /\ ticks' = [ticks EXCEPT ![t].left = @ \ {a}]
  /\ UNCHANGED <<world, table, active, posts, timer, running>>

(* triggerPriceAlert: read the active tokens; without one, only a log row. *)
TriggerAlert(t, a) ==
  /\ ticks[t].pc = "loop" /\ a \in ticks[t].left
  /\ ShouldTrigger(t, a)
  /\ \/ /\ active = {} /\ ~Exists(a, ticks[t].snapshot[a].id)
        /\ EndTick(t)
     \/ /\ active # {} \/ Exists(a, ticks[t].snapshot[a].id)
        /\ ticks' = [ticks EXCEPT ![t] =
             [ticks[t] EXCEPT
                       !.pc = IF active = {} THEN "loop" ELSE "send",
                       !.left = @ \ {a}, !.tokens = active,
                       !.current = IF active = {} THEN Nothing ELSE a]]
        /\ UNCHANGED running
  /\ UNCHANGED <<world, table, active, posts, timer>>

(* sendPriceAlertPush to the next token: the message leaves the process.   *)
Send(t, k, result) ==
  /\ ticks[t].pc = "send" /\ k \in ticks[t].tokens
  /\ ticks' = [ticks EXCEPT ![t].pc = "record", ![t].token = k,
                            ![t].result = result, ![t].tokens = @ \ {k}]
  /\ UNCHANGED <<world, table, active, posts, timer, running>>

(* logDelivery, which fails when the row is gone, and the deactivation of  *)
(* a token the provider rejected.                                          *)
RecordDelivery(t) ==
  LET me == ticks[t] IN
  /\ me.pc = "record"
  /\ IF Exists(me.current, me.snapshot[me.current].id)
     THEN /\ ticks' = [ticks EXCEPT ![t] =
               [me EXCEPT !.pc = IF me.tokens = {} THEN "update" ELSE "send",
                         !.token = Nothing, !.result = "SUCCESS",
                         !.successes = @ \/ me.result = "SUCCESS"]]
          /\ active' = IF me.result = "INVALID" THEN active \ {me.token} ELSE active
          /\ UNCHANGED running
     ELSE EndTick(t) /\ UNCHANGED active
  /\ UNCHANGED <<world, table, posts, timer>>

(* Variant: ONCE is not deactivated.                                       *)
TriggeredKeepingActive(row, seen) == [row EXCEPT !.last = now]

(* The row after a successful trigger: by the mode the snapshot had.       *)
Triggered(row, seen) ==
  [row EXCEPT !.last = now, !.isActive = @ /\ seen.mode # "ONCE"]

UpdateTriggered(t) ==
  LET me == ticks[t]  a == me.current  seen == me.snapshot[a] IN
  /\ me.pc = "update"
  /\ \/ /\ me.successes /\ Exists(a, seen.id)
        /\ rows' = [rows EXCEPT ![a] = Triggered(@, seen)]
        /\ spent' = IF seen.mode = "ONCE" THEN spent \cup {seen.id} ELSE spent
     \/ ~me.successes /\ UNCHANGED <<rows, spent>>
  /\ ticks' = [ticks EXCEPT ![t].pc = "loop", ![t].current = Nothing,
                            ![t].successes = FALSE]
  /\ UNCHANGED <<world, nextId, active, posts, timer, running>>

(* The row is gone when the trigger is recorded: the tick is aborted.      *)
UpdateMissesRow(t) ==
  LET me == ticks[t] IN
  /\ me.pc = "update" /\ me.successes
  /\ ~Exists(me.current, me.snapshot[me.current].id)
  /\ EndTick(t)
  /\ UNCHANGED <<world, table, active, posts, timer>>

FinishTick(t) ==
  /\ ticks[t].pc = "loop" /\ ticks[t].left = {}
  /\ EndTick(t)
  /\ UNCHANGED <<world, table, active, posts, timer>>

-----------------------------------------------------------------------------
UserStep ==
  \/ \E r \in Request, a \in Alert : PostReads(r, a)
  \/ \E m \in {"ONCE", "REPEAT"}, b \in BOOLEAN :
       \/ \E r \in Request : PostWrites(r, m, b)
       \/ \E a \in Alert : UpdateAlert(a, m, b)
  \/ \E a \in Alert : DeleteAlert(a)
  \/ \E k \in Token : UpsertToken(k) \/ DeleteToken(k)

TickStep(t) ==
  \/ StartWorker(t) \/ IntervalFires(t) \/ TickFails(t) \/ PricesArrive(t)
  \/ \E a \in Alert : SkipAlert(t, a) \/ TriggerAlert(t, a)
  \/ \E k \in Token, res \in Outcome : Send(t, k, res)
  \/ RecordDelivery(t) \/ UpdateTriggered(t) \/ UpdateMissesRow(t) \/ FinishTick(t)

Next ==
  \/ Clock \/ StopWorker \/ UserStep
  \/ \E a \in Alert : MarketMoves(a)
  \/ \E t \in Tick : TickStep(t)

Spec == Init /\ [][Next]_vars

AllPriced(t) ==
  ticks[t].left = {a \in Alert : ticks[t].snapshot[a] # NoRow}

(* The interval recurs and awaits settle.  Prices, the push provider and   *)
(* the database may fail, but not every time they are asked.               *)
Fairness ==
  /\ WF_vars(\E t \in Tick : IntervalFires(t))
  /\ WF_vars(\E t \in Tick : FinishTick(t))
  /\ WF_vars(\E t \in Tick : UpdateMissesRow(t))
  /\ WF_vars(\E t \in Tick, a \in Alert : SkipAlert(t, a))
  /\ WF_vars(\E t \in Tick, k \in Token, res \in Outcome : Send(t, k, res))
  /\ SF_vars(\E t \in Tick : PricesArrive(t) /\ AllPriced(t)')
  /\ SF_vars(\E t \in Tick, a \in Alert : TriggerAlert(t, a))
  /\ SF_vars(\E t \in Tick, k \in Token : Send(t, k, "SUCCESS"))
  /\ WF_vars(\E t \in Tick : RecordDelivery(t))
  /\ WF_vars(\E t \in Tick : UpdateTriggered(t))
  /\ SF_vars(\E t \in Tick : ticks[t].result = "SUCCESS" /\ RecordDelivery(t))
  /\ SF_vars(\E t \in Tick : ticks[t].successes /\ UpdateTriggered(t))

FairSpec == Spec /\ Fairness

-----------------------------------------------------------------------------
(* Properties                                                              *)

Sends(t) == ticks[t].pc = "send" /\ ticks'[t].pc = "record"
Seen(t)  == ticks[t].snapshot[ticks[t].current]

(* One tick at a time, and running says whether there is one: no interval  *)
(* callback works from a snapshot another tick is about to change.         *)
OneTick ==
  /\ \A t, u \in Tick : ticks[t].pc # "idle" /\ ticks[u].pc # "idle" => t = u
  /\ running <=> \E t \in Tick : ticks[t].pc # "idle"

(* And each tick, row and token is in a state it can be in.                *)
TicksAreSound == TypeOK /\ OneTick

(* Every push is due, although the tick decides on a row it read long      *)
(* before: a REPEAT alert is not pushed within the cooldown of its last    *)
(* recorded trigger, and a ONCE alert a trigger has deactivated is not     *)
(* pushed until its user activates it again.                               *)
PushesAreDue ==
  [][\A t \in Tick : Sends(t) =>
       LET a == ticks[t].current  last == rows[a].last IN
       /\ Seen(t).mode = "REPEAT" /\ Exists(a, Seen(t).id) /\ last # Never
            => now - last >= Cooldown
       /\ Seen(t).id \notin spent]_vars

(* docs/api-contracts.md: "ONCE alerts are deactivated after a successful  *)
(* FCM send": a row that is ONCE is inactive when the worker is done with  *)
(* a successful trigger of it.                                             *)
OnceIsDeactivated ==
  [][\A t \in Tick :
       LET a == ticks[t].current IN
       ticks[t].pc = "update" /\ ticks[t].successes
         /\ ticks'[t].pc = "loop" /\ rows'[a].mode = "ONCE" =>
           ~rows'[a].isActive]_vars

(* An alert that stays due is delivered: a ONCE alert does not stay active *)
(* with its condition met, a token registered and the worker running.      *)
Due(a) == /\ rows[a].isActive /\ rows[a].mode = "ONCE"
          /\ a \in met /\ active # {} /\ timer
DueIsDelivered == \A a \in Alert : []<>~Due(a)
=============================================================================
