-------------------------- MODULE PriceAlertsProofs --------------------------
(***************************************************************************)
(* Proofs about PriceAlerts, for any alerts, tokens, ticks and requests.   *)
(* IInv is the inductive invariant: what a tick read about an alert it has *)
(* yet to handle is still true of the row, whatever users did to it.       *)
(***************************************************************************)
EXTENDS PriceAlerts, TLAPS

Live(row) == row.id # 0

(* Row ids are never used twice, and an active row is not spent.           *)
RowInv ==
  /\ \A a \in Alert : Live(rows[a]) =>
       rows[a].id < nextId /\ (rows[a].isActive => rows[a].id \notin spent)
  /\ \A a, b \in Alert :
       Live(rows[a]) /\ rows[a].id = rows[b].id => a = b
  /\ \A id \in spent : id < nextId
  /\ \A r \in Request : posts[r].pc = "found" => posts[r].alert \in Alert

Busy == {"send", "record", "update"}

(* The alerts that a tick has yet to handle, or is handling.               *)
Ahead(t) ==
  IF ticks[t].pc = "prices"
  THEN {a \in Alert : Live(ticks[t].snapshot[a])}
  ELSE ticks[t].left \cup (IF ticks[t].pc \in Busy THEN {ticks[t].current}
                                                   ELSE {})

(* What a tick works from.                                                 *)
SnapshotInv(t) ==
  LET me == ticks[t] IN
  /\ \A a \in Alert : Live(me.snapshot[a]) => me.snapshot[a].id < nextId
  /\ \A a, b \in Alert :
       Live(me.snapshot[a]) /\ me.snapshot[a].id = me.snapshot[b].id => a = b
  /\ me.pc \in Busy => /\ me.current \in Alert /\ me.current \notin me.left
                       /\ ~InCooldown(me.snapshot[me.current])
  /\ \A a \in Ahead(t) :
       /\ a \in Alert /\ Live(me.snapshot[a]) /\ me.snapshot[a].id \notin spent
       /\ rows[a].id = me.snapshot[a].id => rows[a].last = me.snapshot[a].last

TicksInv == \A t \in Tick : ticks[t].pc # "idle" => SnapshotInv(t)

IInv == TicksAreSound /\ RowInv /\ TicksInv

-----------------------------------------------------------------------------
LEMMA RowFields ==
  ASSUME NEW r \in MaybeRow
  PROVE  /\ Live(r) => r \in Row /\ r.id \in 1 .. MaxId
         /\ r = NoRow <=> ~Live(r)
         /\ r.id \in Int /\ r.last \in Int /\ r.isActive \in BOOLEAN
         /\ r.mode \in {"ONCE", "REPEAT"}
<1>1. CASE r = NoRow
  BY <1>1 DEF NoRow, Live, Never
<1>2. CASE r \in Row
  BY <1>2, BoundAssumption DEF Row, Live, NoRow, Never
<1> QED
  BY <1>1, <1>2 DEF MaybeRow

LEMMA IdleTyped == IdleTick \in TickState /\ IdleTick.pc = "idle"
<1>1. [a \in Alert |-> NoRow] \in [Alert -> MaybeRow]
  BY DEF MaybeRow
<1> QED
  BY <1>1 DEF IdleTick, TickState, Outcome

LEMMA InitIInv == Init => IInv
<1> SUFFICES ASSUME Init PROVE IInv
  OBVIOUS
<1>1. /\ rows \in [Alert -> MaybeRow] /\ ticks \in [Tick -> TickState]
      /\ posts \in [Request -> Post]
  BY IdleTyped, BoundAssumption DEF Init, MaybeRow, Post, NoPost
<1>2. \A t \in Tick : ticks[t].pc = "idle"
  BY IdleTyped DEF Init
<1>3. TypeOK
  <2>1. now \in 0 .. MaxTime /\ nextId \in 1 .. (MaxId + 1)
    BY BoundAssumption DEF Init
  <2> QED
    BY <1>1, <2>1 DEF TypeOK, Init
<1>4. OneTick /\ TicksInv
  BY <1>2 DEF OneTick, TicksInv, Init
<1>5. RowInv
  <2>1. /\ \A a \in Alert : rows[a].id = 0
        /\ \A r \in Request : posts[r].pc = "idle"
    BY DEF Init, NoRow, NoPost
  <2> QED
    BY <2>1 DEF RowInv, Init, Live
<1> QED
  BY <1>3, <1>4, <1>5 DEF IInv, TicksAreSound

-----------------------------------------------------------------------------
(* What users do to a row: nothing, an edit that keeps id and last         *)
(* trigger, a new row with a new id, a deletion.                           *)
Same(a)    == rows'[a] = rows[a]
Edited(a)  == /\ Live(rows[a]) /\ rows'[a].id = rows[a].id
              /\ rows'[a].last = rows[a].last
              /\ rows'[a].isActive => rows[a].id \notin spent'
Made(a)    == rows'[a].id = nextId /\ nextId' = nextId + 1
Dropped(a) == ~Live(rows'[a])
UsersDid ==
  /\ rows' \in [Alert -> MaybeRow]
  /\ spent' \subseteq spent /\ nextId' \in {nextId, nextId + 1}
  /\ nextId' \in 1 .. (MaxId + 1)
  /\ \A a \in Alert : Same(a) \/ Edited(a) \/ Made(a) \/ Dropped(a)
  /\ \A a, b \in Alert : ~Same(a) /\ ~Same(b) => a = b
  /\ posts' \in [Request -> Post]
  /\ \A r \in Request : posts'[r].pc = "found" => posts'[r].alert \in Alert
  /\ active' \subseteq Token
  /\ UNCHANGED <<now, met, timer, running, ticks>>

LEMMA EditsRow ==
  ASSUME TypeOK, NEW a \in Alert, NEW mode \in {"ONCE", "REPEAT"},
         NEW isActive \in BOOLEAN, Live(rows[a]),
         rows' = [rows EXCEPT ![a].mode = mode, ![a].isActive = isActive],
         Revive(rows[a].id, isActive)
  PROVE  /\ rows' \in [Alert -> MaybeRow] /\ spent' \subseteq spent
         /\ Edited(a) /\ \A b \in Alert \ {a} : Same(b)
<1>1. rows[a] \in Row
  BY RowFields DEF TypeOK
<1>2. rows'[a] = [rows[a] EXCEPT !.mode = mode, !.isActive = isActive]
  <2>1. a \in DOMAIN rows
    BY DEF TypeOK
  <2> QED
    BY <2>1, Zenon
<1>3. /\ rows'[a] \in Row /\ rows'[a].id = rows[a].id
      /\ rows'[a].last = rows[a].last /\ rows'[a].isActive = isActive
  <2>1. \A r, q \in Row : q = [r EXCEPT !.mode = mode, !.isActive = isActive]
          => /\ q.id = r.id /\ q.last = r.last /\ q.isActive = isActive
    BY DEF Row
  <2>2. [rows[a] EXCEPT !.mode = mode, !.isActive = isActive] \in Row
    BY <1>1 DEF Row
  <2> QED
    BY <1>1, <1>2, <2>1, <2>2
<1>4. \A b \in Alert \ {a} : rows'[b] = rows[b]
  BY DEF TypeOK
<1>5. rows' \in [Alert -> MaybeRow]
  BY <1>3 DEF TypeOK, MaybeRow
<1>6. spent' \subseteq spent /\ (isActive => rows[a].id \notin spent')
  BY DEF Revive
<1> QED
  BY <1>3, <1>4, <1>5, <1>6 DEF Edited, Same

LEMMA PostsDo ==
  ASSUME IInv, NEW r \in Request, NEW mode \in {"ONCE", "REPEAT"},
         NEW isActive \in BOOLEAN, PostWrites(r, mode, isActive)
  PROVE  UsersDid
<1> DEFINE a == posts[r].alert
           id == posts[r].found
<1> USE DEF IInv, TicksAreSound
<1>1. a \in Alert
  BY DEF PostWrites, RowInv
<1>2. /\ posts' \in [Request -> Post]
      /\ \A q \in Request : posts'[q].pc = "found" => posts'[q].alert \in Alert
  <2>1. NoPost \in Post /\ NoPost.pc = "idle"
    BY BoundAssumption DEF NoPost, Post
  <2>2. posts' = [posts EXCEPT ![r] = NoPost]
    BY DEF PostWrites
  <2> QED
    BY <2>1, <2>2 DEF TypeOK, RowInv
<1>3. UNCHANGED <<now, met, timer, running, ticks, active>> /\ active \subseteq Token
  BY DEF PostWrites, world, worker, TypeOK
<1>4. CASE /\ Exists(a, id) /\ Revive(id, isActive) /\ UNCHANGED nextId
           /\ rows' = [rows EXCEPT ![a].mode = mode, ![a].isActive = isActive]
  <2>1. Live(rows[a]) /\ rows[a].id = id
    BY <1>4 DEF Exists, Live
  <2>2. /\ rows' \in [Alert -> MaybeRow] /\ spent' \subseteq spent
        /\ Edited(a) /\ \A b \in Alert \ {a} : Same(b)
    BY <1>1, <1>4, <2>1, EditsRow
  <2> QED
    BY <1>2, <1>3, <1>4, <2>2 DEF UsersDid, TypeOK
<1>5. CASE /\ rows[a] = NoRow /\ nextId <= MaxId /\ nextId' = nextId + 1
           /\ rows' = [rows EXCEPT ![a] = [id |-> nextId, mode |-> mode,
                                     isActive |-> isActive, last |-> Never]]
           /\ UNCHANGED spent
  <2>1. /\ rows'[a] = [id |-> nextId, mode |-> mode, isActive |-> isActive,
                       last |-> Never]
        /\ \A b \in Alert \ {a} : rows'[b] = rows[b]
    BY <1>1, <1>5 DEF TypeOK
  <2>2. nextId \in 1 .. MaxId /\ nextId' \in 1 .. (MaxId + 1)
    BY <1>5, BoundAssumption DEF TypeOK
  <2>3. rows'[a] \in Row /\ rows'[a].id = nextId
    BY <2>1, <2>2 DEF Row
  <2>4. rows' \in [Alert -> MaybeRow]
    BY <1>5, <2>3 DEF TypeOK, MaybeRow
  <2> QED
    BY <1>2, <1>3, <1>5, <2>1, <2>2, <2>3, <2>4 DEF UsersDid, Made, Same
<1>6. CASE UNCHANGED table
  BY <1>2, <1>3, <1>6 DEF UsersDid, Same, table, TypeOK
<1> QED
  BY <1>4, <1>5, <1>6 DEF PostWrites

LEMMA UsersAct == ASSUME IInv, UserStep PROVE UsersDid
<1> USE DEF IInv, TicksAreSound
<1>1. ASSUME NEW r \in Request, NEW a \in Alert, PostReads(r, a)
      PROVE  UsersDid
  <2>1. [pc |-> "found", alert |-> a, found |-> rows[a].id] \in Post
    <3>1. rows[a].id \in 0 .. MaxId
      BY RowFields, BoundAssumption DEF TypeOK, Live
    <3> QED
      BY <3>1 DEF Post
  <2>2. posts' = [posts EXCEPT ![r] =
                    [pc |-> "found", alert |-> a, found |-> rows[a].id]]
    BY <1>1 DEF PostReads
  <2>3. /\ posts' \in [Request -> Post]
        /\ \A q \in Request : posts'[q].pc = "found" => posts'[q].alert \in Alert
    BY <2>1, <2>2 DEF TypeOK, RowInv
  <2> QED
    BY <1>1, <2>3 DEF PostReads, UsersDid, Same, world, table, worker, TypeOK
<1>2. ASSUME NEW a \in Alert, NEW mode \in {"ONCE", "REPEAT"},
             NEW isActive \in BOOLEAN, UpdateAlert(a, mode, isActive)
      PROVE  UsersDid
  <2>1. Live(rows[a])
    BY <1>2, RowFields DEF UpdateAlert, TypeOK
  <2>2. /\ rows' \in [Alert -> MaybeRow] /\ spent' \subseteq spent
        /\ Edited(a) /\ \A b \in Alert \ {a} : Same(b)
    BY <1>2, <2>1, EditsRow DEF UpdateAlert
  <2> QED
    BY <1>2, <2>2 DEF UpdateAlert, UsersDid, world, worker, TypeOK, RowInv
<1>3. ASSUME NEW a \in Alert, DeleteAlert(a)
      PROVE  UsersDid
  <2>1. /\ rows' \in [Alert -> MaybeRow] /\ rows'[a] = NoRow
        /\ \A b \in Alert \ {a} : rows'[b] = rows[b]
    BY <1>3 DEF DeleteAlert, TypeOK, MaybeRow
  <2> QED
    BY <1>3, <2>1
    DEF DeleteAlert, UsersDid, Same, Dropped, NoRow, Live, world, worker, TypeOK,
        RowInv
<1>4. ASSUME NEW k \in Token, UpsertToken(k) \/ DeleteToken(k)
      PROVE  UsersDid
  BY <1>4 DEF UpsertToken, DeleteToken, UsersDid, Same, world, table, worker,
              TypeOK, RowInv
<1> QED
  BY <1>1, <1>2, <1>3, <1>4, PostsDo DEF UserStep

(* Whatever users do under a tick, the invariant stays.                    *)
LEMMA UsersKeep == ASSUME IInv, UsersDid PROVE IInv'
<1> USE DEF IInv, TicksAreSound
<1>0. /\ nextId \in Int /\ nextId >= 1
      /\ \A a \in Alert : rows[a].id \in Int /\ rows'[a].id \in Int
                          /\ rows[a].last \in Int
  BY RowFields, BoundAssumption DEF TypeOK, UsersDid
<1>1. TypeOK'
  BY DEF UsersDid, TypeOK
<1>2. OneTick'
  BY DEF UsersDid, OneTick
<1>3. RowInv'
  <2>1. ASSUME NEW a \in Alert, Live(rows'[a])
        PROVE  /\ rows'[a].id < nextId'
               /\ rows'[a].isActive => rows'[a].id \notin spent'
    <3>1. CASE Same(a) \/ Edited(a)
      BY <1>0, <2>1, <3>1 DEF Same, Edited, RowInv, UsersDid
    <3>2. CASE Made(a)
      BY <1>0, <2>1, <3>2 DEF Made, RowInv, UsersDid
    <3> QED
      BY <2>1, <3>1, <3>2 DEF UsersDid, Dropped
  <2>2. ASSUME NEW a \in Alert, NEW b \in Alert, Live(rows'[a]),
               rows'[a].id = rows'[b].id
        PROVE  a = b
    <3>1. ASSUME NEW c \in Alert, Live(rows'[c])
          PROVE  \/ rows'[c].id = rows[c].id /\ Live(rows[c])
                                             /\ rows[c].id < nextId
                 \/ rows'[c].id = nextId /\ ~Same(c)
      BY <1>0, <3>1 DEF UsersDid, Same, Edited, Made, Dropped, RowInv, Live
    <3>2. Live(rows'[b])
      BY <2>2 DEF Live
    <3> QED
      BY <1>0, <2>2, <3>1, <3>2 DEF RowInv, UsersDid
  <2>3. \A id \in spent' : id < nextId'
    BY <1>0 DEF UsersDid, RowInv, TypeOK
  <2> QED
    BY <2>1, <2>2, <2>3 DEF RowInv, UsersDid
<1>4. ASSUME NEW t \in Tick, ticks[t].pc # "idle"
      PROVE  SnapshotInv(t)'
  <2>1. SnapshotInv(t)
    BY <1>4 DEF TicksInv
  <2>2. Ahead(t)' = Ahead(t)
    BY DEF UsersDid, Ahead, Live
  <2>3. \A a \in Alert : ticks[t].snapshot[a].id \in Int
    BY RowFields DEF TypeOK, TickState
  <2>4. ASSUME NEW a \in Ahead(t), rows'[a].id = ticks[t].snapshot[a].id
        PROVE  rows'[a].last = ticks[t].snapshot[a].last
    <3>1. a \in Alert /\ Live(ticks[t].snapshot[a])
          /\ ticks[t].snapshot[a].id < nextId
      BY <2>1 DEF SnapshotInv
    <3>2. ~Made(a) /\ ~Dropped(a)
      BY <1>0, <2>3, <2>4, <3>1 DEF Made, Dropped, Live
    <3>3. rows'[a].id = rows[a].id /\ rows'[a].last = rows[a].last
      BY <3>1, <3>2 DEF UsersDid, Same, Edited
    <3> QED
      BY <2>1, <2>4, <3>1, <3>3 DEF SnapshotInv
  <2>5. \A a \in Alert : Live(ticks[t].snapshot[a]) =>
          ticks[t].snapshot[a].id < nextId'
    BY <1>0, <2>1, <2>3 DEF SnapshotInv, UsersDid
  <2> QED
    BY <2>1, <2>2, <2>4, <2>5 DEF SnapshotInv, UsersDid, InCooldown
<1>5. TicksInv'
  BY <1>4 DEF TicksInv, UsersDid
<1> QED
  BY <1>1, <1>2, <1>3, <1>5

-----------------------------------------------------------------------------
(* A step of tick t: it changes no other, and neither clock nor rows.      *)
Others(t) == /\ ticks' = [u \in Tick |-> ticks'[u]]
             /\ \A u \in Tick \ {t} : ticks'[u] = ticks[u]
Quiet     == /\ UNCHANGED <<now, met, rows, nextId, spent, posts>>
             /\ active' \subseteq Token /\ timer' \in BOOLEAN

LEMMA OthersTyped ==
  ASSUME TypeOK, NEW t \in Tick, Others(t), ticks'[t] \in TickState
  PROVE  ticks' \in [Tick -> TickState]
<1>1. \A u \in Tick : ticks'[u] \in TickState
  BY DEF Others, TypeOK
<1> QED
  BY <1>1 DEF Others

LEMMA TickSet ==
  ASSUME TypeOK, NEW t \in Tick, NEW next, ticks' = [ticks EXCEPT ![t] = next]
  PROVE  Others(t) /\ ticks'[t] = next
BY DEF TypeOK, Others

LEMMA TickEnds ==
  ASSUME IInv, NEW t \in Tick, ticks[t].pc # "idle", EndTick(t), Quiet
  PROVE  IInv'
<1> USE DEF IInv, TicksAreSound
<1>1. ticks' \in [Tick -> TickState] /\ \A u \in Tick : ticks'[u].pc = "idle"
  BY IdleTyped DEF EndTick, TypeOK, OneTick
<1>2. TypeOK'
  BY <1>1 DEF TypeOK, Quiet, EndTick
<1>3. OneTick' /\ TicksInv'
  BY <1>1 DEF OneTick, TicksInv, EndTick
<1>4. RowInv'
  BY DEF RowInv, Quiet
<1> QED
  BY <1>2, <1>3, <1>4

LEMMA TickGoesOn ==
  ASSUME IInv, NEW t \in Tick, ticks[t].pc # "idle", Others(t), Quiet,
         UNCHANGED running, ticks'[t] \in TickState, ticks'[t].pc # "idle",
         ticks'[t].snapshot = ticks[t].snapshot, Ahead(t)' \subseteq Ahead(t),
         ticks'[t].pc \in Busy =>
           /\ ticks'[t].current \in Alert
           /\ ticks'[t].current \notin ticks'[t].left
           /\ ~InCooldown(ticks[t].snapshot[ticks'[t].current])
  PROVE  IInv'
<1> USE DEF IInv, TicksAreSound
<1>1. TypeOK'
  BY OthersTyped DEF TypeOK, Quiet
<1>2. \A u \in Tick \ {t} : ticks'[u] = ticks[u] /\ ticks[u].pc = "idle"
  BY DEF Others, OneTick
<1>3. OneTick'
  BY <1>2 DEF OneTick
<1>4. RowInv'
  BY DEF RowInv, Quiet
<1>5. SnapshotInv(t)'
  BY DEF TicksInv, SnapshotInv, Quiet, InCooldown
<1>6. TicksInv'
  BY <1>2, <1>5 DEF TicksInv
<1> QED
  BY <1>1, <1>3, <1>4, <1>6

LEMMA BeginKeeps ==
  ASSUME IInv, NEW t \in Tick, BeginTick(t), Quiet
  PROVE  IInv'
<1> DEFINE seen == [a \in Alert |-> IF rows[a].isActive THEN rows[a] ELSE NoRow]
           next == [IdleTick EXCEPT !.pc = "prices", !.snapshot = seen]
<1> USE DEF IInv, TicksAreSound
<1>0. /\ RowInv' /\ ~running
      /\ \A u \in Tick : ticks[u].pc = "idle"
  BY DEF RowInv, Quiet, BeginTick, OneTick
<1>1. CASE running' = FALSE /\ UNCHANGED ticks
  <2>1. TypeOK' /\ OneTick' /\ TicksInv'
    BY <1>0, <1>1 DEF TypeOK, Quiet, OneTick, TicksInv
  <2> QED
    BY <1>0, <2>1
<1>2. CASE running' = TRUE /\ ticks' = [ticks EXCEPT ![t] = next]
  <2>1. seen \in [Alert -> MaybeRow]
    BY DEF TypeOK, MaybeRow
  <2>2. /\ next \in TickState /\ next.pc = "prices" /\ next.snapshot = seen
    BY <2>1, IdleTyped DEF TickState, IdleTick
  <2> HIDE DEF next
  <2>3. ticks'[t] = next /\ \A u \in Tick \ {t} : ticks'[u].pc = "idle"
    BY <1>0, <1>2 DEF TypeOK
  <2>4. TypeOK'
    BY <1>2, <2>2 DEF TypeOK, Quiet
  <2>5. OneTick'
    BY <1>2, <2>2, <2>3 DEF OneTick
  <2>6. \A a \in Alert : Live(seen[a]) => seen[a] = rows[a] /\ rows[a].isActive
                                          /\ Live(rows[a])
    BY DEF Live, NoRow
  <2>7. \A a \in Alert : seen[a].id = rows[a].id \/ ~Live(seen[a])
    BY DEF Live, NoRow
  <2> HIDE DEF seen
  <2>8. /\ \A a \in Alert : Live(seen[a]) => seen[a].id < nextId
        /\ \A a, b \in Alert :
             Live(seen[a]) /\ seen[a].id = seen[b].id => a = b
        /\ \A a \in Alert : Live(seen[a]) => seen[a].id \notin spent
    BY <2>6, <2>7 DEF RowInv, Live
  <2>9. SnapshotInv(t)'
    BY <2>2, <2>3, <2>6, <2>8 DEF SnapshotInv, Ahead, Busy, Quiet
  <2>10. TicksInv'
    BY <2>3, <2>9 DEF TicksInv
  <2> QED
    BY <1>0, <2>4, <2>5, <2>10
<1> QED
  BY <1>0, <1>1, <1>2 DEF BeginTick

LEMMA PricesKeep ==
  ASSUME IInv, NEW t \in Tick, PricesArrive(t)
  PROVE  IInv'
<1> USE DEF IInv, TicksAreSound
<1>1. PICK priced \in SUBSET {a \in Alert : ticks[t].snapshot[a] # NoRow} :
        ticks' = [ticks EXCEPT ![t].pc = "loop", ![t].left = priced,
                               ![t].above = met \cap priced]
  BY DEF PricesArrive
<1>2. Others(t) /\ ticks'[t] = [ticks[t] EXCEPT !.pc = "loop", !.left = priced,
                                                !.above = met \cap priced]
  BY <1>1 DEF Others, TypeOK
<1>3. ticks[t] \in TickState /\ ticks[t].pc = "prices"
  BY DEF TypeOK, PricesArrive
<1>4. /\ ticks'[t] \in TickState /\ ticks'[t].pc = "loop"
      /\ ticks'[t].left = priced /\ ticks'[t].snapshot = ticks[t].snapshot
  <2>1. priced \in SUBSET Alert /\ met \cap priced \in SUBSET Alert
    OBVIOUS
  <2> QED
    BY <1>2, <1>3, <2>1 DEF TickState
<1>5. Ahead(t)' \subseteq Ahead(t)
  BY <1>3, <1>4, RowFields DEF Ahead, Busy, TickState
<1> QED
  BY <1>2, <1>3, <1>4, <1>5, TickGoesOn
  DEF PricesArrive, Quiet, world, table, TypeOK, Busy

LEMMA SkipKeeps ==
  ASSUME IInv, NEW t \in Tick, NEW a \in Alert, SkipAlert(t, a)
  PROVE  IInv'
<1> USE DEF IInv, TicksAreSound
<1>1. Others(t) /\ ticks'[t] = [ticks[t] EXCEPT !.left = @ \ {a}]
  BY DEF SkipAlert, Others, TypeOK
<1>2. ticks[t] \in TickState /\ ticks[t].pc = "loop"
  BY DEF TypeOK, SkipAlert
<1>3. /\ ticks'[t] \in TickState /\ ticks'[t].pc = "loop"
      /\ ticks'[t].left = ticks[t].left \ {a}
      /\ ticks'[t].snapshot = ticks[t].snapshot
  BY <1>1, <1>2 DEF TickState
<1> QED
  BY <1>1, <1>2, <1>3, TickGoesOn
  DEF SkipAlert, Quiet, world, table, TypeOK, Busy, Ahead

LEMMA TriggerKeeps ==
  ASSUME IInv, NEW t \in Tick, NEW a \in Alert, TriggerAlert(t, a)
  PROVE  IInv'
<1> USE DEF IInv, TicksAreSound
<1> DEFINE pc == IF active = {} THEN "loop" ELSE "send"
           current == IF active = {} THEN Nothing ELSE a
<1>0. Quiet
  BY DEF TriggerAlert, Quiet, world, table, TypeOK
<1>1. /\ ticks[t] \in TickState /\ ticks[t].pc = "loop" /\ a \in ticks[t].left
      /\ ~InCooldown(ticks[t].snapshot[a])
  BY DEF TypeOK, TriggerAlert, ShouldTrigger
<1>4. /\ current \in Alert \cup {Nothing} /\ pc \in {"loop", "send"}
      /\ pc = "send" => current = a
      /\ active \in SUBSET Token
  BY DEF TypeOK
<1>2. CASE EndTick(t)
  BY <1>0, <1>1, <1>2, TickEnds
<1> DEFINE next == [ticks[t] EXCEPT !.pc = pc, !.left = @ \ {a},
                                    !.tokens = active, !.current = current]
<1>3. CASE ticks' = [ticks EXCEPT ![t] = next] /\ UNCHANGED running
  <2> HIDE DEF pc, current
  <2>1. Others(t) /\ ticks'[t] = next
    <3> HIDE DEF next
    <3> QED
      BY <1>3, TickSet
  <2>2. /\ ticks'[t] \in TickState /\ ticks'[t].pc = pc
        /\ ticks'[t].left = ticks[t].left \ {a}
        /\ ticks'[t].snapshot = ticks[t].snapshot
        /\ ticks'[t].current = current
    BY <1>1, <1>4, <2>1 DEF TickState
  <2>3. Ahead(t)' \subseteq Ahead(t)
    BY <1>1, <1>4, <2>2 DEF Ahead, Busy
  <2> QED
    BY <1>0, <1>1, <1>3, <1>4, <2>1, <2>2, <2>3, TickGoesOn DEF Busy
<1> QED
  BY <1>2, <1>3 DEF TriggerAlert

LEMMA SendKeeps ==
  ASSUME IInv, NEW t \in Tick, NEW k \in Token, NEW result \in Outcome,
         Send(t, k, result)
  PROVE  IInv'
<1> USE DEF IInv, TicksAreSound
<1>1. Others(t) /\ ticks'[t] = [ticks[t] EXCEPT !.pc = "record", !.token = k,
                                  !.result = result, !.tokens = @ \ {k}]
  BY DEF Send, Others, TypeOK
<1>2. ticks[t] \in TickState /\ ticks[t].pc = "send"
  BY DEF TypeOK, Send
<1>3. /\ ticks'[t] \in TickState /\ ticks'[t].pc = "record"
      /\ ticks'[t].left = ticks[t].left
      /\ ticks'[t].snapshot = ticks[t].snapshot
      /\ ticks'[t].current = ticks[t].current
  BY <1>1, <1>2 DEF TickState
<1>4. SnapshotInv(t)
  BY <1>2 DEF TicksInv
<1> QED
  BY <1>1, <1>2, <1>3, <1>4, TickGoesOn
  DEF Send, Quiet, world, table, TypeOK, Busy, Ahead, SnapshotInv

LEMMA RecordKeeps ==
  ASSUME IInv, NEW t \in Tick, RecordDelivery(t)
  PROVE  IInv'
<1> USE DEF IInv, TicksAreSound
<1> DEFINE pc == IF ticks[t].tokens = {} THEN "update" ELSE "send"
           successes == ticks[t].successes \/ ticks[t].result = "SUCCESS"
<1>0. Quiet
  BY DEF RecordDelivery, EndTick, Quiet, world, table, TypeOK
<1>1. ticks[t] \in TickState /\ ticks[t].pc = "record"
  BY DEF TypeOK, RecordDelivery
<1>2. CASE EndTick(t)
  BY <1>0, <1>1, <1>2, TickEnds
<1> DEFINE next == [ticks[t] EXCEPT !.pc = pc, !.token = Nothing,
                      !.result = "SUCCESS", !.successes = successes]
<1>3. CASE ticks' = [ticks EXCEPT ![t] = next] /\ UNCHANGED running
  <2>1. Others(t) /\ ticks'[t] = next
    <3> HIDE DEF next
    <3> QED
      BY <1>3, TickSet
  <2>2. successes \in BOOLEAN /\ pc \in {"update", "send"}
    OBVIOUS
  <2> HIDE DEF successes, pc
  <2>3. /\ ticks'[t] \in TickState /\ ticks'[t].pc = pc
        /\ ticks'[t].left = ticks[t].left
        /\ ticks'[t].snapshot = ticks[t].snapshot
        /\ ticks'[t].current = ticks[t].current
    BY <1>1, <2>1, <2>2 DEF TickState, Outcome
  <2>4. SnapshotInv(t)
    BY <1>1 DEF TicksInv
  <2> QED
    BY <1>0, <1>1, <1>3, <2>1, <2>2, <2>3, <2>4, TickGoesOn
    DEF Busy, Ahead, SnapshotInv
<1> QED
  BY <1>2, <1>3 DEF RecordDelivery

LEMMA TriggeredFields ==
  ASSUME NEW row \in Row, NEW seen \in MaybeRow, now \in 0 .. MaxTime
  PROVE  /\ Triggered(row, seen) \in Row
         /\ Triggered(row, seen).id = row.id
         /\ Triggered(row, seen).isActive => row.isActive /\ seen.mode # "ONCE"
<1> DEFINE isActive == row.isActive /\ seen.mode # "ONCE"
<1>1. Triggered(row, seen) = [row EXCEPT !.last = now, !.isActive = isActive]
  BY DEF Triggered
<1>2. isActive \in BOOLEAN /\ (isActive => row.isActive /\ seen.mode # "ONCE")
  BY DEF Row
<1> HIDE DEF isActive
<1> QED
  BY <1>1, <1>2 DEF Row

LEMMA UpdateKeeps ==
  ASSUME IInv, NEW t \in Tick, UpdateTriggered(t)
  PROVE  IInv'
<1> USE DEF IInv, TicksAreSound
<1> DEFINE me   == ticks[t]
           a    == me.current
           seen == me.snapshot[a]
           next == [me EXCEPT !.pc = "loop", !.current = Nothing,
                              !.successes = FALSE]
<1>1. /\ me \in TickState /\ me.pc = "update" /\ SnapshotInv(t)
      /\ a \in Alert /\ a \notin me.left /\ seen \in MaybeRow
      /\ Live(seen) /\ seen.id \notin spent /\ seen.id < nextId
      /\ seen.id \in 1 .. MaxId
  <2>1. me \in TickState /\ me.pc = "update" /\ SnapshotInv(t)
    BY DEF TypeOK, UpdateTriggered, TicksInv
  <2>2. a \in Alert /\ a \notin me.left /\ Live(seen) /\ seen.id \notin spent
        /\ seen.id < nextId
    BY <2>1 DEF SnapshotInv, Busy, Ahead
  <2>3. seen \in MaybeRow
    BY <2>1, <2>2 DEF TickState
  <2> QED
    BY <2>1, <2>2, <2>3, RowFields
<1>2. /\ ticks'[t] \in TickState /\ ticks'[t].pc = "loop"
      /\ ticks'[t].left = me.left /\ ticks'[t].snapshot = me.snapshot
      /\ Others(t)
  <2>1. ticks' = [ticks EXCEPT ![t] = next]
    BY DEF UpdateTriggered
  <2>2. Others(t) /\ ticks'[t] = next
    <3> HIDE DEF next
    <3> QED
      BY <2>1, TickSet
  <2> QED
    BY <1>1, <2>2 DEF TickState
<1>3. UNCHANGED <<now, met, nextId, active, posts, timer, running>>
  BY DEF UpdateTriggered, world
<1>4. ASSUME rows' \in [Alert -> MaybeRow], spent' \subseteq spent \cup {seen.id},
             \A b \in Alert : rows'[b].id = rows[b].id,
             \A b \in Alert \ {a} : rows'[b] = rows[b],
             rows'[a].isActive => rows[a].isActive,
             seen.id \in spent' /\ Live(rows[a]) /\ rows'[a].isActive =>
               rows[a].id # seen.id,
             \A b \in Alert \ {a} : rows[b].id # seen.id \/ spent' = spent
      PROVE  IInv'
  <2>1. TypeOK'
    BY <1>1, <1>2, <1>3, <1>4, OthersTyped DEF TypeOK
  <2>2. \A u \in Tick \ {t} : ticks'[u] = ticks[u] /\ ticks[u].pc = "idle"
    BY <1>1, <1>2 DEF Others, OneTick
  <2>3. OneTick'
    BY <1>1, <1>2, <1>3, <2>2 DEF OneTick
  <2>4. ASSUME NEW b \in Alert, Live(rows'[b])
        PROVE  /\ rows'[b].id < nextId'
               /\ rows'[b].isActive => rows'[b].id \notin spent'
    <3>1. Live(rows[b]) /\ rows[b].id < nextId
          /\ (rows[b].isActive => rows[b].id \notin spent)
      BY <1>4, <2>4 DEF RowInv, Live
    <3>2. CASE b = a
      BY <1>3, <1>4, <3>1, <3>2
    <3>3. CASE b # a
      BY <1>3, <1>4, <3>1, <3>3
    <3> QED
      BY <3>2, <3>3
  <2>5. RowInv'
    BY <1>1, <1>3, <1>4, <2>4 DEF RowInv, Live
  <2>6. ASSUME NEW b \in me.left
        PROVE  /\ b \in Alert /\ b # a /\ Live(me.snapshot[b])
               /\ me.snapshot[b].id \notin spent'
               /\ rows'[b].id = me.snapshot[b].id =>
                    rows'[b].last = me.snapshot[b].last
    <3>1. b \in Ahead(t) /\ b # a
      BY <1>1, <2>6 DEF Ahead
    <3>2. b \in Alert /\ Live(me.snapshot[b]) /\ me.snapshot[b].id \notin spent
      BY <1>1, <3>1 DEF SnapshotInv
    <3>3. me.snapshot[b].id # seen.id
      BY <1>1, <3>1, <3>2 DEF SnapshotInv
    <3> QED
      BY <1>1, <1>4, <3>1, <3>2, <3>3 DEF SnapshotInv
  <2>7. SnapshotInv(t)'
    BY <1>1, <1>2, <1>3, <2>6 DEF SnapshotInv, Ahead, Busy
  <2>8. TicksInv'
    BY <2>2, <2>7 DEF TicksInv
  <2> QED
    BY <2>1, <2>3, <2>5, <2>8
<1>5. CASE UNCHANGED <<rows, spent>>
  BY <1>1, <1>4, <1>5 DEF TypeOK
<1>6. CASE /\ Exists(a, seen.id)
           /\ rows' = [rows EXCEPT ![a] = Triggered(rows[a], seen)]
           /\ spent' = IF seen.mode = "ONCE" THEN spent \cup {seen.id} ELSE spent
  <2>1. rows[a] \in Row /\ rows[a].id = seen.id
    BY <1>1, <1>6, RowFields DEF Exists, Live, TypeOK
  <2>2. /\ rows'[a] = Triggered(rows[a], seen)
        /\ \A b \in Alert \ {a} : rows'[b] = rows[b]
    BY <1>1, <1>6 DEF TypeOK
  <2>3. /\ rows'[a] \in Row /\ rows'[a].id = rows[a].id
        /\ rows'[a].isActive => rows[a].isActive /\ seen.mode # "ONCE"
    BY <1>1, <2>1, <2>2, TriggeredFields DEF TypeOK
  <2>4. rows' \in [Alert -> MaybeRow]
    BY <1>6, <2>3 DEF TypeOK, MaybeRow
  <2>5. \A b \in Alert \ {a} : rows[b].id # seen.id
    BY <1>1, <2>1 DEF RowInv, Live
  <2>6. rows'[a].isActive => seen.id \notin spent'
    BY <1>1, <1>6, <2>3
  <2> QED
    BY <1>4, <1>6, <2>2, <2>3, <2>4, <2>5, <2>6
<1> QED
  BY <1>5, <1>6 DEF UpdateTriggered

LEMMA WorldKeeps ==
  ASSUME IInv, Clock \/ StopWorker \/ \E a \in Alert : MarketMoves(a)
  PROVE  IInv'
<1> USE DEF IInv, TicksAreSound
<1>1. /\ UNCHANGED <<rows, nextId, spent, active, posts, running, ticks>>
      /\ timer' \in BOOLEAN /\ met' \subseteq Alert
      /\ now' \in 0 .. MaxTime /\ now' >= now
  <2> USE BoundAssumption DEF TypeOK, table, worker, world
  <2>1. CASE Clock
    BY <2>1 DEF Clock
  <2>2. CASE StopWorker
    <3>1. timer' = FALSE /\ UNCHANGED <<world, table, active, posts, running, ticks>>
      BY <2>2 DEF StopWorker
    <3>2. timer' \in BOOLEAN
      BY <3>1
    <3>3. now' = now /\ met' = met /\ now \in 0 .. MaxTime
          /\ met \subseteq Alert
      BY <3>1
    <3> QED
      BY <3>1, <3>2, <3>3
  <2>3. ASSUME NEW a \in Alert, MarketMoves(a)
        PROVE  met' \subseteq Alert /\ UNCHANGED <<now, rows, nextId, spent,
                 active, posts, running, timer, ticks>>
    BY <2>3 DEF MarketMoves
  <2> QED
    BY <2>1, <2>2, <2>3
<1>2. TypeOK' /\ OneTick' /\ RowInv'
  BY <1>1 DEF TypeOK, OneTick, RowInv
<1>3. ASSUME NEW t \in Tick, ticks[t].pc # "idle"
      PROVE  SnapshotInv(t)'
  <2>1. SnapshotInv(t)
    BY <1>3 DEF TicksInv
  <2>2. ASSUME NEW a \in Alert, ~InCooldown(ticks[t].snapshot[a])
        PROVE  ~InCooldown(ticks[t].snapshot[a])'
    <3>1. ticks[t].snapshot[a].last \in Int /\ now \in Int /\ now' \in Int
      BY <1>1, RowFields DEF TypeOK, TickState
    <3> QED
      BY <1>1, <2>2, <3>1, CooldownAssumption DEF InCooldown
  <2> QED
    BY <1>1, <2>1, <2>2 DEF SnapshotInv, Ahead, Busy
<1>4. TicksInv'
  BY <1>1, <1>3 DEF TicksInv
<1> QED
  BY <1>2, <1>4

-----------------------------------------------------------------------------
(* The invariant holds of every state of every history.                    *)
THEOREM Invariance == Spec => []IInv
<1>1. Init => IInv
  BY InitIInv
<1>2. IInv /\ [Next]_vars => IInv'
  <2> SUFFICES ASSUME IInv, [Next]_vars PROVE IInv'
    OBVIOUS
  <2> USE DEF Quiet, world, table, worker
  <2>1. CASE UNCHANGED vars
    BY <2>1 DEF vars, IInv, TicksAreSound, TypeOK, OneTick, RowInv, TicksInv,
       SnapshotInv, Ahead, InCooldown
  <2>2. CASE UserStep
    BY <2>2, UsersAct, UsersKeep
  <2>3. ASSUME NEW t \in Tick, StartWorker(t) PROVE IInv'
    <3>1. Quiet
      BY <2>3 DEF StartWorker, IInv, TicksAreSound, TypeOK
    <3>2. CASE BeginTick(t)
      BY <3>1, <3>2, BeginKeeps
    <3>3. CASE UNCHANGED <<running, ticks>>
      BY <3>1, <3>3 DEF IInv, TicksAreSound, TypeOK, OneTick, RowInv,
         TicksInv, SnapshotInv, Ahead, InCooldown
    <3> QED
      BY <2>3, <3>2, <3>3 DEF StartWorker
  <2>4. ASSUME NEW t \in Tick, IntervalFires(t) PROVE IInv'
    BY <2>4, BeginKeeps DEF IntervalFires, IInv, TicksAreSound, TypeOK
  <2>5. ASSUME NEW t \in Tick,
               TickFails(t) \/ UpdateMissesRow(t) \/ FinishTick(t)
        PROVE  IInv'
    BY <2>5, TickEnds
    DEF TickFails, UpdateMissesRow, FinishTick, IInv, TicksAreSound, TypeOK
  <2> QED
    BY <2>1, <2>2, <2>3, <2>4, <2>5, WorldKeeps, PricesKeep, SkipKeeps,
       TriggerKeeps, SendKeeps, RecordKeeps, UpdateKeeps DEF Next, TickStep
<1> QED
  BY <1>1, <1>2, PTL DEF Spec

(* One tick works at a time and running says whether one does, for any     *)
(* number of intervals and starts (the guard of runPriceAlertWorkerTick).  *)
THEOREM TicksAreSoundHolds == Spec => []TicksAreSound
BY Invariance, PTL DEF IInv

(* Every push is due, whatever users did to the row since the tick read it *)
(* (evaluateAlert and triggerPriceAlert work from the snapshot).           *)
THEOREM PushesAreDueHolds == Spec => PushesAreDue
<1>1. ASSUME IInv, [Next]_vars, NEW t \in Tick, Sends(t)
      PROVE  LET a == ticks[t].current  last == rows[a].last IN
             /\ Seen(t).mode = "REPEAT" /\ Exists(a, Seen(t).id) /\ last # Never
                  => now - last >= Cooldown
             /\ Seen(t).id \notin spent
  <2> DEFINE a == ticks[t].current
  <2>1. ticks[t].pc = "send" /\ SnapshotInv(t) /\ a \in Ahead(t)
    BY <1>1 DEF IInv, TicksInv, Sends, Ahead, Busy
  <2>2. /\ a \in Alert /\ ~InCooldown(Seen(t)) /\ Seen(t).id \notin spent
        /\ rows[a].id = Seen(t).id => rows[a].last = Seen(t).last
    BY <2>1 DEF SnapshotInv, Busy, Seen
  <2>3. now \in Int /\ rows[a].last \in Int
    BY <1>1, <2>2, RowFields DEF IInv, TicksAreSound, TypeOK
  <2> QED
    BY <2>2, <2>3, CooldownAssumption DEF InCooldown, Exists
<1>2. IInv /\ [Next]_vars =>
        [\A t \in Tick : Sends(t) =>
           LET a == ticks[t].current  last == rows[a].last IN
           /\ Seen(t).mode = "REPEAT" /\ Exists(a, Seen(t).id) /\ last # Never
                => now - last >= Cooldown
           /\ Seen(t).id \notin spent]_vars
  BY <1>1
<1> QED
  BY <1>2, Invariance, PTL DEF Spec, PushesAreDue
=============================================================================
