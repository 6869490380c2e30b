---------------------------- MODULE MarketTrends -----------------------------
(***************************************************************************)
(* The dashboard figures of one currency                                   *)
(* (src/src/domains/market-data/market-trends.service.ts).  Every call of  *)
(* the dashboard, the trend series or the history asks CoinGecko and the   *)
(* fear and greed index, as the hourly collector does, and what comes back *)
(* is remembered as a snapshot and, for the market figures, as the point   *)
(* of its day, in memory and in a table.  Calls overlap, so snapshots come *)
(* back in any order.                                                      *)
(*                                                                         *)
(* A snapshot carries its time, the market figures as one value (0 for     *)
(* none) and whether the index is known.                                   *)
(***************************************************************************)
EXTENDS Integers, Sequences, SequencesExt, FiniteSets

CONSTANTS Caller,       \* concurrent calls of the routes
          Collector,    \* the hourly fetch of the collector
          NoAnswer,
          Value,        \* market figures a provider may report, 0 for none
          DayLength,    \* time units in a day
          RangeDays,    \* days of the series and of the history
          Required,     \* points a history needs
          MaxPoints,    \* snapshots kept, 500 in the code
          MaxTime, MaxRestarts

VARIABLES collector,    \* "off", "checking" the table, or "on"
          snapshots,    \* marketSnapshotsByCurrency
          history,      \* marketHistoryByCurrency
          rows,         \* the table global_market_history: day -> figures
          writes,       \* upserts on their way to the table
          call, now, restarts

vars == <<collector, snapshots, history, rows, writes, call, now, restarts>>

Fetcher == Caller \cup {Collector}
Time == 0 .. MaxTime
DayOf(at) == at \div DayLength
Days == {DayOf(at) : at \in Time}
\* Time is cut into days, and something is kept.
TrendsAssumption ==
  /\ MaxTime \in Nat /\ DayLength \in Nat \ {0} /\ RangeDays \in Nat
  /\ MaxPoints \in Nat /\ Required \in Nat /\ 0 \in Value

Snapshot == [at : Time, figures : Value, fear : BOOLEAN]
Point == [day : Days, figures : Value]
Idle == [kind |-> "none", pc |-> "idle", at |-> 0, answer |-> NoAnswer]

TypeOK ==
  /\ collector \in {"off", "checking", "on"}
  /\ snapshots \in Seq(Snapshot) /\ history \in Seq(Point)
  /\ rows \in [Days -> Value] /\ writes \subseteq Point
  /\ \A c \in Fetcher : call[c].kind \in {"none", "dashboard", "series", "history", "collector"}
                        /\ call[c].pc \in {"idle", "before", "fetch", "after", "done"}

Fresh == [c \in Fetcher |-> Idle]

Init ==
  /\ collector = "off" /\ snapshots = <<>> /\ history = <<>>
  /\ rows = [d \in Days |-> 0] /\ writes = {}
  /\ call = Fresh /\ now = 0 /\ restarts = 0

\* The members of a finite set of numbers by their key, those of one key in
\* their own order: what a stable sort does to the places of a sequence.
InOrder(K, key) ==
  [n \in 1 .. Cardinality(K) |->
     CHOOSE i \in K : Cardinality({j \in K : key[j] < key[i] \/ (key[j] = key[i] /\ j <= i)}) = n]
At(points, places) == [n \in DOMAIN places |-> points[places[n]]]
Where(points, K) == At(points, InOrder(K, [i \in K |-> i]))
Sorted(points, key) == At(points, InOrder(DOMAIN points, key))

Newest(points) == SubSeq(points, IF Len(points) > MaxPoints THEN Len(points) - MaxPoints + 1 ELSE 1, Len(points))

Others(snapshot) == Where(snapshots, {i \in DOMAIN snapshots : snapshots[i].at # snapshot.at})

\* Variant: a snapshot is added where it arrives.
RememberedLast(snapshot) ==
  IF snapshot.figures = 0 /\ ~snapshot.fear THEN snapshots
  ELSE Newest(Append(Others(snapshot), snapshot))

\* rememberSnapshot: one snapshot of a time, the last to come, in the order
\* of their times; a snapshot that says nothing is not kept.
Remembered(snapshot) ==
  IF snapshot.figures = 0 /\ ~snapshot.fear THEN snapshots
  ELSE LET points == Append(Others(snapshot), snapshot)
       IN  Newest(Sorted(points, [i \in DOMAIN points |-> points[i].at]))

\* rememberHistoryPoint: the last figures to come in for a day are the day's
Dated(point) ==
  LET points == Append(Where(history, {i \in DOMAIN history : history[i].day # point.day}), point)
  IN  Newest(Sorted(points, [i \in DOMAIN points |-> points[i].day]))

\* readGlobalMarketHistory: the rows of the range, or memory when there are
\* none or the table fails
Recent(day, at) == day > DayOf(at) - RangeDays
InRange(points, at) == Where(points, {i \in DOMAIN points : Recent(points[i].day, at)})
RowPoints(at) ==
  LET stored == {d \in Days : rows[d] # 0 /\ Recent(d, at)}
      days   == InOrder(stored, [d \in stored |-> d])
  IN  [i \in DOMAIN days |-> [day |-> days[i], figures |-> rows[days[i]]]]
HistoryRead(at) == {InRange(history, at)} \cup IF RowPoints(at) = <<>> THEN {} ELSE {RowPoints(at)}

\* flatMetricWarnings: several points of one value are not shown as history
Flat(points) == Len(points) > 1 /\ \A i, j \in 1 .. Len(points) : points[i].figures = points[j].figures
Shown(points) == IF Len(points) >= Required /\ ~Flat(points) THEN points ELSE <<>>

----------------------------------------------------------------------------
(* The collector                                                           *)

\* startMarketSnapshotCollector, when it is enabled: the table is looked for
\* first.
Start ==
  /\ collector = "off"
  /\ collector' = "checking"
  /\ UNCHANGED <<snapshots, history, rows, writes, call, now, restarts>>

\* hasGlobalMarketHistoryTable: with the table the first fetch starts at once
Checked ==
  /\ collector = "checking"
  /\ \/ /\ collector' = "on"
        /\ call' = [call EXCEPT ![Collector] = [Idle EXCEPT !.kind = "collector", !.pc = "fetch", !.at = now]]
     \/ collector' = "off" /\ UNCHANGED call
  /\ UNCHANGED <<snapshots, history, rows, writes, now, restarts>>

\* The hour is longer than a fetch: the collector's own fetches do not overlap.
Collects ==
  /\ collector = "on" /\ call[Collector] = Idle
  /\ call' = [call EXCEPT ![Collector] = [Idle EXCEPT !.kind = "collector", !.pc = "fetch", !.at = now]]
  /\ UNCHANGED <<collector, snapshots, history, rows, writes, now, restarts>>

----------------------------------------------------------------------------
(* Calls                                                                   *)

\* The dashboard and the series ask the providers; the history first looks at
\* what is stored.
Begins(c, kind) ==
  /\ call[c] = Idle
  /\ call' = [call EXCEPT ![c] = [Idle EXCEPT !.kind = kind, !.pc = IF kind = "history" THEN "before" ELSE "fetch",
                                    !.at = now]]
  /\ UNCHANGED <<collector, snapshots, history, rows, writes, now, restarts>>

\* getGlobalMarketHistory: enough points are an answer, too few are fetched
\* for; the second reading is answered whatever it has.
ReadsHistory(c) ==
  /\ call[c].pc \in {"before", "after"}
  /\ \E points \in HistoryRead(now) :
       call' = [call EXCEPT ![c] =
         IF @.pc = "before" /\ Len(points) < Required
         THEN [@ EXCEPT !.pc = "fetch", !.at = now]
         ELSE [@ EXCEPT !.pc = "done", !.answer = Shown(points)]]
  /\ UNCHANGED <<collector, snapshots, history, rows, writes, now, restarts>>

\* getMarketDashboard: without the provider the last stored snapshot is shown
Dashboard(snapshot, failed, stored) ==
  IF failed /\ stored # <<>> THEN Last(stored) ELSE snapshot

\* getCurrentProviderSnapshot: both providers have answered or failed.  The
\* snapshot bears the time the call began; its figures also go to the day's
\* point and on their way to the table.
Fetched(c) ==
  \E failed, fear \in BOOLEAN, figures \in Value :
    LET snapshot == [at |-> call[c].at, figures |-> IF failed THEN 0 ELSE figures, fear |-> fear]
        point    == [day |-> DayOf(snapshot.at), figures |-> snapshot.figures]
        since    == now - RangeDays * DayLength
    IN  /\ failed => figures = 0
        /\ call[c].pc = "fetch"
        /\ snapshots' = Remembered(snapshot)
        /\ IF point.figures = 0
           THEN UNCHANGED <<history, writes>>
           ELSE history' = Dated(point) /\ writes' = writes \cup {point}
        /\ call' = [call EXCEPT ![c] =
             CASE @.kind = "history"   -> [@ EXCEPT !.pc = "after"]
               [] @.kind = "dashboard" -> [@ EXCEPT !.pc = "done", !.answer = Dashboard(snapshot, failed, snapshots')]
               [] @.kind = "series"    -> [@ EXCEPT !.pc = "done",
                                             !.answer = Where(snapshots', {i \in DOMAIN snapshots' : snapshots'[i].at >= since})]
               [] OTHER                -> Idle]
        /\ UNCHANGED <<collector, rows, now, restarts>>

\* The upsert of a day lands, or fails and is logged.
Lands(point) ==
  /\ point \in writes
  /\ writes' = writes \ {point}
  /\ \/ rows' = [rows EXCEPT ![point.day] = point.figures]
     \/ UNCHANGED rows
  /\ UNCHANGED <<collector, snapshots, history, call, now, restarts>>

Leaves(c) ==
  /\ call[c].pc = "done"
  /\ call' = [call EXCEPT ![c] = Idle]
  /\ UNCHANGED <<collector, snapshots, history, rows, writes, now, restarts>>

\* A new process starts from the table.
Restart ==
  /\ restarts < MaxRestarts
  /\ restarts' = restarts + 1
  /\ collector' = "off" /\ snapshots' = <<>> /\ history' = <<>> /\ writes' = {} /\ call' = Fresh
  /\ UNCHANGED <<rows, now>>

Tick ==
  /\ now < MaxTime /\ now' = now + 1
  /\ UNCHANGED <<collector, snapshots, history, rows, writes, call, restarts>>

Next ==
  \/ Start \/ Checked \/ Collects \/ Restart \/ Tick
  \/ \E c \in Caller, kind \in {"dashboard", "series", "history"} : Begins(c, kind)
  \/ \E c \in Caller : ReadsHistory(c) \/ Leaves(c)
  \/ \E c \in Fetcher : Fetched(c)
  \/ \E point \in writes : Lands(point)

Spec == Init /\ [][Next]_vars

----------------------------------------------------------------------------

Increasing(seq) == \A i, j \in 1 .. Len(seq) : i < j => seq[i] < seq[j]

(* However the fetches overlap, the series a caller gets runs forward in   *)
(* time with one point for a time, and the history has one point a day, in *)
(* order (docs/api-contracts.md:1319).                                     *)
TrendsInOrder ==
  /\ Increasing([i \in 1 .. Len(snapshots) |-> snapshots[i].at])
  /\ Increasing([i \in 1 .. Len(history) |-> history[i].day])
  /\ \A c \in Caller : call[c].pc = "done" =>
       CASE call[c].kind = "series"  -> Increasing([i \in 1 .. Len(call[c].answer) |-> call[c].answer[i].at])
         [] call[c].kind = "history" -> Increasing([i \in 1 .. Len(call[c].answer) |-> call[c].answer[i].day])
         [] OTHER -> TRUE
=============================================================================
