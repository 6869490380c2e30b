---------------------- MODULE StreamOrchestratorProofs ----------------------
(***************************************************************************)
(* Proofs about StreamOrchestrator, for any periods and thresholds, any    *)
(* number of polling runs that overlap and both configurations.  The rest  *)
(* is about what else is shown of the markets by timers and in batches:    *)
(* CandleSlots, SparklineGraphs, MarketTrends, SparklineBatches,           *)
(* KimchiBatches and ContractCandles.                                      *)
(***************************************************************************)
EXTENDS StreamOrchestrator, Sequences, FiniteSetTheorems, TLAPS

Connected == startStage \in {"connected", "done"}

(* The monitor runs only when start is through, and polls only when the    *)
(* markets are listed; a stop that start did not lose the race to finds    *)
(* the stream already made.                                                *)
StageInv ==
  /\ startStage \in {"idle", "listing"} => pollIn = Off
  /\ healthIn # Off => startStage = "done"
  /\ startStage = "done" /\ stopStage = "no" => healthIn # Off
  /\ looked => startStage = "done"
  /\ stopStage # "no" /\ ~overtaken => startStage = "done" /\ ~stream
  /\ stopStage = "stopped" /\ startStage = "done" /\ ~overtaken
       => pollIn = Off /\ healthIn = Off

(* Polling mode has its timer; who does not poll was once heard from, and  *)
(* the monitor's next look comes before the silence is too long.           *)
CoverInv ==
  /\ mode = "polling" /\ stopStage # "stopped" => pollIn # Off
  /\ Connected /\ FallbackEnabled /\ stopStage # "stopped" /\ pollIn = Off
       => quietFor # Never
  /\ looked /\ FallbackEnabled /\ stopStage = "no" /\ pollIn = Off
       => quietFor + healthIn <= Silence + HealthInterval

(* The last attempt is as old as the youngest call at most; a pause was    *)
(* imposed by a call that ended; and the next run of the poller comes in   *)
(* time.                                                                   *)
AttemptInv ==
  /\ \A r \in Run : calls[r] # Off => sinceAttempt <= calls[r]
  /\ ticker.suppressed > 0
       => sinceAttempt + ticker.suppressed <= LongestPause + MaxCall
  /\ listed /\ pollIn # Off
       => sinceAttempt + pollIn <= LongestPause + PollInterval + MaxCall

IInv == TypeOK /\ StageInv /\ CoverInv /\ AttemptInv

-----------------------------------------------------------------------------
(* getSuppressMs: no pause is longer than the longest, however often the   *)
(* call has failed.                                                        *)
LEMMA SuppressBounded ==
  ASSUME NEW kind \in Kind, NEW n \in Nat \ {0}
  PROVE  Suppress(kind, n) \in 0 .. LongestPause
<1>1. Doubled(n) \in {3, 6, 12, 24, 48, 96}
  <2>1. Least(n, 6) \in 1 .. 6
    BY DEF Least
  <2>2. /\ 2 ^ 0 = 1 /\ 2 ^ 1 = 2 /\ 2 ^ 2 = 4
        /\ 2 ^ 3 = 8 /\ 2 ^ 4 = 16 /\ 2 ^ 5 = 32
    OBVIOUS
  <2>3. ASSUME NEW m \in 0 .. 5
        PROVE  3 * 2 ^ m \in {3, 6, 12, 24, 48, 96}
    <3>1. m = 0 \/ m = 1 \/ m = 2 \/ m = 3 \/ m = 4 \/ m = 5
      OBVIOUS
    <3>2. 2 ^ m \in {1, 2, 4, 8, 16, 32}
      BY <2>2, <3>1
    <3> QED
      BY <3>2
  <2> QED
    BY <2>1, <2>3, Least(n, 6) - 1 \in 0 .. 5 DEF Doubled
<1>2. Least(Doubled(n), 60) \in 0 .. 60
  BY <1>1 DEF Least
<1>3. /\ Least(4 * n, 18) \in 0 .. 60
      /\ Least(2 * n, 12) \in 0 .. 60
  BY DEF Least
<1> QED
  BY <1>2, <1>3 DEF Suppress, Kind, LongestPause

LEMMA InitIInv == Init => IInv
<1> SUFFICES ASSUME Init PROVE IInv
  OBVIOUS
<1> USE PeriodAssumption DEF Init, Off, Never
<1>1. TypeOK
  <2>1. ticker \in [state : Kind \cup {"active"}, failures : 0 .. MaxFailures,
                    suppressed : Nat]
    BY DEF Active
  <2> QED
    BY <2>1 DEF TypeOK, Active
<1>2. StageInv /\ CoverInv
  BY DEF StageInv, CoverInv, Connected
<1>3. AttemptInv
  BY DEF AttemptInv, Active
<1> QED
  BY <1>1, <1>2, <1>3 DEF IInv

LEMMA TypeStep ==
  ASSUME IInv, [Next]_vars
  PROVE  TypeOK'
<1> USE PeriodAssumption, ConfigAssumption DEF IInv, TypeOK, AgeLimit
<1>1. CASE Start
  BY <1>1 DEF Start, timers, Off, Never
<1>2. CASE Lists
  <2>1. CASE TRUE \in Streaming /\ startStage' = "planning"
              /\ UNCHANGED <<pollIn, mode, calls, sinceAttempt>>
    BY <1>2, <2>1 DEF Lists, timers, Off, Never
  <2>2. CASE startStage' = "connected" /\ StartPollingFallback
    <3>1. CASE listed' /\ ticker.suppressed = 0
      BY <1>2, <2>2, <3>1 DEF Lists, timers, Off, Never, PollRun,
                              StartPollingFallback
    <3>2. CASE ~(listed' /\ ticker.suppressed = 0)
      BY <1>2, <2>2, <3>2 DEF Lists, timers, Off, Never, PollRun,
                              StartPollingFallback
    <3> QED
      BY <3>1, <3>2
  <2> QED
    BY <1>2, <2>1, <2>2 DEF Lists
<1>3. CASE OpensStream
  BY <1>3 DEF OpensStream, timers, Off, Never
<1>4. CASE StreamStarts
  BY <1>4 DEF StreamStarts, timers, Off, Never
<1>5. CASE StreamStartFails
  BY <1>5 DEF StreamStartFails, timers, Off, Never, PollRun, StartPollingFallback
<1>6. CASE StartHealthMonitor
  BY <1>6 DEF StartHealthMonitor, timers, Off, Never
<1>7. CASE Message
  BY <1>7 DEF Message, timers, Off, Never, Succeeded, Active
<1>8. CASE PollFires
  BY <1>8 DEF PollFires, timers, Off, Never, PollRun
<1>9. CASE HealthFires
  BY <1>9 DEF HealthFires, timers, Off, Never, PollRun, StartPollingFallback, IsSilent
<1>10. CASE StopBegins
  BY <1>10 DEF StopBegins, timers, Off, Never, Started
<1>11. CASE StopEnds
  BY <1>11 DEF StopEnds, timers, Off, Never
<1>12. CASE Tick
  <2>1. /\ pollIn' \in 0 .. PollInterval \cup {Off}
        /\ healthIn' \in 0 .. HealthInterval \cup {Off}
    BY <1>12 DEF Tick, Down, Off
  <2>2. calls' \in [Run -> 0 .. MaxCall \cup {Off}]
    BY <1>12 DEF Tick, Off
  <2>3. quietFor' \in 0 .. AgeLimit \cup {Never} /\ sinceAttempt' \in Nat
    BY <1>12 DEF Tick, Up, Least, Off, Never, LongestPause
  <2>4. ticker' = [state |-> ticker.state, failures |-> ticker.failures,
                   suppressed |-> IF ticker.suppressed = 0 THEN 0
                                  ELSE ticker.suppressed - 1]
    BY <1>12 DEF Tick
  <2>5. /\ ticker' \in [state : Kind \cup {"active"},
                        failures : 0 .. MaxFailures, suppressed : Nat]
        /\ ticker'.state = "active" =>
             ticker'.failures = 0 /\ ticker'.suppressed = 0
    BY <2>4
  <2> QED
    BY <1>12, <2>1, <2>2, <2>3, <2>5 DEF Tick
<1>13. ASSUME NEW r \in Run, CallSucceeds(r)
      PROVE  TypeOK'
  BY <1>13 DEF CallSucceeds, Succeeded, Active, timers, Off, Never
<1>14. ASSUME NEW r \in Run, NEW kind \in Kind, CallFails(r, kind)
      PROVE  TypeOK'
  <2> DEFINE n == Least(ticker.failures + 1, MaxFailures)
  <2>1. n \in 1 .. MaxFailures
    BY DEF Least
  <2>2. Suppress(kind, n) \in 0 .. LongestPause
    BY <2>1, SuppressBounded
  <2>3. /\ ticker' = [state |-> kind, failures |-> n,
                      suppressed |-> Suppress(kind, n)]
        /\ calls[r] # Off /\ calls' = [calls EXCEPT ![r] = Off]
        /\ UNCHANGED <<looked, startStage, stopStage, overtaken, listed,
                       stream, mode, quietFor, pollIn, healthIn, sinceAttempt>>
    BY <1>14 DEF CallFails, timers
  <2> HIDE DEF n
  <2> QED
    BY <2>1, <2>2, <2>3 DEF Off, Never, LongestPause, Kind
<1>15. CASE UNCHANGED vars
  BY <1>15 DEF vars, timers, Off, Never
<1> QED
  BY <1>1, <1>2, <1>3, <1>4, <1>5, <1>6, <1>7, <1>8, <1>9, <1>10, <1>11, <1>12, <1>13, <1>14, <1>15
  DEF Next

LEMMA StageStep ==
  ASSUME IInv, [Next]_vars
  PROVE  StageInv'
<1> USE PeriodAssumption, ConfigAssumption DEF IInv, TypeOK, StageInv
<1>1. CASE Start
  BY <1>1 DEF Start, timers, Off, Never
<1>2. CASE Lists
  <2>1. CASE TRUE \in Streaming /\ startStage' = "planning"
              /\ UNCHANGED <<pollIn, mode, calls, sinceAttempt>>
    BY <1>2, <2>1 DEF Lists, timers, Off, Never
  <2>2. CASE startStage' = "connected" /\ StartPollingFallback
    <3>1. CASE listed' /\ ticker.suppressed = 0
      BY <1>2, <2>2, <3>1 DEF Lists, timers, Off, Never, PollRun,
                              StartPollingFallback
    <3>2. CASE ~(listed' /\ ticker.suppressed = 0)
      BY <1>2, <2>2, <3>2 DEF Lists, timers, Off, Never, PollRun,
                              StartPollingFallback
    <3> QED
      BY <3>1, <3>2
  <2> QED
    BY <1>2, <2>1, <2>2 DEF Lists
<1>3. CASE OpensStream
  BY <1>3 DEF OpensStream, timers, Off, Never
<1>4. CASE StreamStarts
  BY <1>4 DEF StreamStarts, timers, Off, Never
<1>5. CASE StreamStartFails
  BY <1>5 DEF StreamStartFails, timers, Off, Never, PollRun, StartPollingFallback
<1>6. CASE StartHealthMonitor
  BY <1>6 DEF StartHealthMonitor, timers, Off, Never
<1>7. CASE Message
  BY <1>7 DEF Message, timers, Off, Never, Succeeded, Active
<1>8. CASE PollFires
  BY <1>8 DEF PollFires, timers, Off, Never, PollRun
<1>9. CASE HealthFires
  BY <1>9 DEF HealthFires, timers, Off, Never, PollRun, StartPollingFallback, IsSilent
<1>10. CASE StopBegins
  BY <1>10 DEF StopBegins, timers, Off, Never, Started
<1>11. CASE StopEnds
  BY <1>11 DEF StopEnds, timers, Off, Never
<1>12. CASE Tick
  BY <1>12 DEF Tick, timers, Off, Never, Down, Up, Least
<1>13. ASSUME NEW r \in Run, CallSucceeds(r)
      PROVE  StageInv'
  BY <1>13 DEF CallSucceeds, Succeeded, Active, timers, Off, Never
<1>14. ASSUME NEW r \in Run, NEW kind \in Kind, CallFails(r, kind)
      PROVE  StageInv'
  BY <1>14, SuppressBounded DEF CallFails, timers, Off, Never
<1>15. CASE UNCHANGED vars
  BY <1>15 DEF vars, timers, Off, Never
<1> QED
  BY <1>1, <1>2, <1>3, <1>4, <1>5, <1>6, <1>7, <1>8, <1>9, <1>10, <1>11, <1>12, <1>13, <1>14, <1>15
  DEF Next

LEMMA CoverStep ==
  ASSUME IInv, [Next]_vars
  PROVE  CoverInv'
<1> USE PeriodAssumption, ConfigAssumption DEF IInv, TypeOK, StageInv, CoverInv, Connected
<1>1. CASE Start
  BY <1>1 DEF Start, timers, Off, Never
<1>2. CASE Lists
  <2>1. CASE TRUE \in Streaming /\ startStage' = "planning"
              /\ UNCHANGED <<pollIn, mode, calls, sinceAttempt>>
    BY <1>2, <2>1 DEF Lists, timers, Off, Never
  <2>2. CASE startStage' = "connected" /\ StartPollingFallback
    <3>1. pollIn' # Off /\ ~looked' /\ UNCHANGED stopStage
      BY <1>2, <2>2 DEF Lists, timers, Off, StartPollingFallback
    <3> QED
      BY <3>1
  <2> QED
    BY <1>2, <2>1, <2>2 DEF Lists
<1>3. CASE OpensStream
  BY <1>3 DEF OpensStream, timers, Off, Never
<1>4. CASE StreamStarts
  BY <1>4 DEF StreamStarts, timers, Off, Never
<1>5. CASE StreamStartFails
  BY <1>5 DEF StreamStartFails, timers, Off, Never, PollRun, StartPollingFallback
<1>6. CASE StartHealthMonitor
  BY <1>6 DEF StartHealthMonitor, timers, Off, Never
<1>7. CASE Message
  BY <1>7 DEF Message, timers, Off, Never, Succeeded, Active
<1>8. CASE PollFires
  BY <1>8 DEF PollFires, timers, Off, Never, PollRun
<1>9. CASE HealthFires
  BY <1>9 DEF HealthFires, timers, Off, Never, PollRun, StartPollingFallback, IsSilent
<1>10. CASE StopBegins
  BY <1>10 DEF StopBegins, timers, Off, Never, Started
<1>11. CASE StopEnds
  BY <1>11 DEF StopEnds, timers, Off, Never
<1>12. CASE Tick
  <2>1. /\ (pollIn' = Off) <=> (pollIn = Off)
        /\ quietFor # Never => quietFor' # Never
        /\ UNCHANGED <<startStage, stopStage, mode, looked>>
    BY <1>12 DEF Tick, Down, Up, Least, Off, Never, AgeLimit
  <2>2. ASSUME looked, FallbackEnabled, stopStage = "no", pollIn = Off
        PROVE  quietFor' + healthIn' <= Silence + HealthInterval
    <3>1. healthIn # Off /\ quietFor # Never
      BY <2>2
    <3>2. PICK quiet \in Int, health \in Int :
            /\ quietFor' = quiet /\ quiet <= quietFor + 1
            /\ healthIn' = health /\ health = healthIn - 1
      BY <1>12, <3>1 DEF Tick, Down, Up, Least, Off, Never, AgeLimit
    <3>3. /\ quietFor \in Int /\ healthIn \in Int
          /\ quietFor + healthIn <= Silence + HealthInterval
      BY <2>2, <3>1 DEF Off, Never, AgeLimit
    <3>4. quiet + health <= Silence + HealthInterval
      BY <3>2, <3>3
    <3> QED
      BY <3>2, <3>4
  <2> QED
    BY <2>1, <2>2
<1>13. ASSUME NEW r \in Run, CallSucceeds(r)
      PROVE  CoverInv'
  BY <1>13 DEF CallSucceeds, Succeeded, Active, timers, Off, Never
<1>14. ASSUME NEW r \in Run, NEW kind \in Kind, CallFails(r, kind)
      PROVE  CoverInv'
  BY <1>14, SuppressBounded DEF CallFails, timers, Off, Never
<1>15. CASE UNCHANGED vars
  BY <1>15 DEF vars, timers, Off, Never
<1> QED
  BY <1>1, <1>2, <1>3, <1>4, <1>5, <1>6, <1>7, <1>8, <1>9, <1>10, <1>11, <1>12, <1>13, <1>14, <1>15
  DEF Next

LEMMA AttemptStep ==
  ASSUME IInv, [Next]_vars
  PROVE  AttemptInv'
<1> USE PeriodAssumption, ConfigAssumption DEF IInv, TypeOK, StageInv, AttemptInv, LongestPause
<1>1. CASE Start
  BY <1>1 DEF Start, timers, Off, Never
<1>2. CASE Lists
  <2>1. CASE TRUE \in Streaming /\ startStage' = "planning"
              /\ UNCHANGED <<pollIn, mode, calls, sinceAttempt>>
    BY <1>2, <2>1 DEF Lists, timers, Off, Never
  <2>2. CASE startStage' = "connected" /\ StartPollingFallback
    <3>1. CASE listed' /\ ticker.suppressed = 0
      BY <1>2, <2>2, <3>1 DEF Lists, timers, Off, Never, PollRun,
                              StartPollingFallback
    <3>2. CASE ~(listed' /\ ticker.suppressed = 0)
      BY <1>2, <2>2, <3>2 DEF Lists, timers, Off, Never, PollRun,
                              StartPollingFallback
    <3> QED
      BY <3>1, <3>2
  <2> QED
    BY <1>2, <2>1, <2>2 DEF Lists
<1>3. CASE OpensStream
  BY <1>3 DEF OpensStream, timers, Off, Never
<1>4. CASE StreamStarts
  BY <1>4 DEF StreamStarts, timers, Off, Never
<1>5. CASE StreamStartFails
  BY <1>5 DEF StreamStartFails, timers, Off, Never, PollRun, StartPollingFallback
<1>6. CASE StartHealthMonitor
  BY <1>6 DEF StartHealthMonitor, timers, Off, Never
<1>7. CASE Message
  BY <1>7 DEF Message, timers, Off, Never, Succeeded, Active
<1>8. CASE PollFires
  BY <1>8 DEF PollFires, timers, Off, Never, PollRun
<1>9. CASE HealthFires
  BY <1>9 DEF HealthFires, timers, Off, Never, PollRun, StartPollingFallback, IsSilent
<1>10. CASE StopBegins
  BY <1>10 DEF StopBegins, timers, Off, Never, Started
<1>11. CASE StopEnds
  BY <1>11 DEF StopEnds, timers, Off, Never
<1>12. CASE Tick
  BY <1>12 DEF Tick, timers, Off, Never, Down, Up, Least
<1>13. ASSUME NEW r \in Run, CallSucceeds(r)
      PROVE  AttemptInv'
  BY <1>13 DEF CallSucceeds, Succeeded, Active, timers, Off, Never
<1>14. ASSUME NEW r \in Run, NEW kind \in Kind, CallFails(r, kind)
      PROVE  AttemptInv'
  <2> DEFINE n == Least(ticker.failures + 1, MaxFailures)
  <2>1. n \in 1 .. MaxFailures
    BY DEF Least
  <2>2. Suppress(kind, n) \in 0 .. LongestPause
    BY <2>1, SuppressBounded
  <2>3. /\ ticker' = [state |-> kind, failures |-> n,
                      suppressed |-> Suppress(kind, n)]
        /\ calls[r] # Off /\ calls' = [calls EXCEPT ![r] = Off]
        /\ UNCHANGED <<looked, startStage, stopStage, overtaken, listed,
                       stream, mode, quietFor, pollIn, healthIn, sinceAttempt>>
    BY <1>14 DEF CallFails, timers
  <2> HIDE DEF n
  <2> QED
    BY <2>1, <2>2, <2>3 DEF Off, Never, LongestPause
<1>15. CASE UNCHANGED vars
  BY <1>15 DEF vars, timers, Off, Never
<1> QED
  BY <1>1, <1>2, <1>3, <1>4, <1>5, <1>6, <1>7, <1>8, <1>9, <1>10, <1>11, <1>12, <1>13, <1>14, <1>15
  DEF Next

-----------------------------------------------------------------------------
(* The inductive invariant holds for any periods and any configuration.    *)
THEOREM Invariance == Spec => []IInv
<1>1. IInv /\ [Next]_vars => IInv'
  BY TypeStep, StageStep, CoverStep, AttemptStep DEF IInv
<1> QED
  BY <1>1, InitIInv, PTL DEF Spec

(* Once stop has returned, unless it overtook start, nothing is left that  *)
(* runs.                                                                   *)
THEOREM QuietAfterStopHolds == Spec => []QuietAfterStop
<1>1. IInv => QuietAfterStop
  BY DEF IInv, StageInv, QuietAfterStop
<1> QED
  BY <1>1, Invariance, PTL

(* From the monitor's first look to stop, an exchange is streamed within   *)
(* the threshold and one period of the monitor, or polled.                 *)
THEOREM CoveredHolds == Spec => []CoveredByStreamOrPolls
<1>1. IInv => CoveredByStreamOrPolls
  <2> SUFFICES ASSUME IInv, Started, looked, FallbackEnabled, pollIn = Off
               PROVE  /\ mode = "streaming" /\ quietFor # Never
                      /\ quietFor <= Silence + HealthInterval
    BY DEF CoveredByStreamOrPolls, AlwaysCovered, IInv
  <2>1. startStage = "done" /\ stopStage = "no" /\ healthIn # Off
    BY DEF IInv, StageInv, Started
  <2>2. healthIn \in Nat /\ quietFor # Never /\ quietFor \in Int
    BY <2>1, PeriodAssumption
    DEF IInv, TypeOK, CoverInv, Connected, Off, Never, AgeLimit
  <2> QED
    BY <2>1, <2>2, PeriodAssumption DEF IInv, TypeOK, CoverInv
<1> QED
  BY <1>1, Invariance, PTL

(* A failing ticker endpoint is asked again in time.                       *)
THEOREM RetriedInTimeHolds == Spec => []RetriedInTime
<1>1. IInv => RetriedInTime
  BY PeriodAssumption
  DEF IInv, TypeOK, AttemptInv, RetriedInTime, Off, LongestPause
<1> QED
  BY <1>1, Invariance, PTL

-----------------------------------------------------------------------------
(* The members of a finite set of numbers in the order of a key, as         *)
(* MarketTrends and others put the places of a sequence: their ranks are    *)
(* the numbers from 1 on, each taken once.                                  *)
UpTo(K, key, i) == {j \in K : key[j] < key[i] \/ (key[j] = key[i] /\ j <= i)}
Precedes(key, i, j) == key[i] < key[j] \/ (key[i] = key[j] /\ i < j)

LEMMA RanksCount ==
  ASSUME NEW K \in SUBSET Int, IsFiniteSet(K), NEW key \in [K -> Int]
  PROVE  /\ \A i \in K : Cardinality(UpTo(K, key, i)) \in 1 .. Cardinality(K)
         /\ \A i, j \in K : Precedes(key, i, j)
              => Cardinality(UpTo(K, key, i)) < Cardinality(UpTo(K, key, j))
         /\ \A n \in 1 .. Cardinality(K) : \E i \in K : Cardinality(UpTo(K, key, i)) = n
<1>1. \A i \in K : /\ IsFiniteSet(UpTo(K, key, i)) /\ UpTo(K, key, i) \subseteq K
                   /\ Cardinality(UpTo(K, key, i)) \in 1 .. Cardinality(K)
  <2> SUFFICES ASSUME NEW i \in K
               PROVE  /\ IsFiniteSet(UpTo(K, key, i)) /\ UpTo(K, key, i) \subseteq K
                      /\ Cardinality(UpTo(K, key, i)) \in 1 .. Cardinality(K)
    OBVIOUS
  <2>1. UpTo(K, key, i) \in SUBSET K /\ i \in UpTo(K, key, i)
    BY DEF UpTo
  <2>2. IsFiniteSet(UpTo(K, key, i)) /\ Cardinality(UpTo(K, key, i)) <= Cardinality(K)
    BY <2>1, FS_Subset
  <2>3. Cardinality(UpTo(K, key, i)) \in Nat /\ Cardinality(K) \in Nat
    BY <2>2, FS_CardinalityType
  <2>4. Cardinality(UpTo(K, key, i)) # 0
    BY <2>1, <2>2, FS_EmptySet
  <2> QED
    BY <2>1, <2>2, <2>3, <2>4
<1>2. \A i, j \in K : Precedes(key, i, j) => Cardinality(UpTo(K, key, i)) < Cardinality(UpTo(K, key, j))
  <2> SUFFICES ASSUME NEW i \in K, NEW j \in K, Precedes(key, i, j)
               PROVE  Cardinality(UpTo(K, key, i)) < Cardinality(UpTo(K, key, j))
    OBVIOUS
  <2>1. UpTo(K, key, i) \in SUBSET UpTo(K, key, j)
    <3> SUFFICES ASSUME NEW k \in UpTo(K, key, i) PROVE k \in UpTo(K, key, j)
      OBVIOUS
    <3>1. k \in K /\ k \in Int /\ i \in Int /\ j \in Int /\ key[i] \in Int /\ key[j] \in Int /\ key[k] \in Int
      BY DEF UpTo
    <3>2. key[k] < key[i] \/ (key[k] = key[i] /\ k <= i)
      BY DEF UpTo
    <3>3. key[k] < key[j] \/ (key[k] = key[j] /\ k <= j)
      BY <3>1, <3>2 DEF Precedes
    <3> QED
      BY <3>1, <3>3 DEF UpTo
  <2>2. j \in UpTo(K, key, j) /\ j \notin UpTo(K, key, i)
    BY DEF UpTo, Precedes
  <2>3. UpTo(K, key, i) # UpTo(K, key, j)
    BY <2>2
  <2>4. /\ Cardinality(UpTo(K, key, i)) <= Cardinality(UpTo(K, key, j))
        /\ Cardinality(UpTo(K, key, j)) # Cardinality(UpTo(K, key, i))
    BY <1>1, <2>1, <2>3, FS_Subset
  <2> QED
    BY <1>1, <2>4
<1> DEFINE rank == [i \in K |-> Cardinality(UpTo(K, key, i))]
<1>3. rank \in Injection(K, 1 .. Cardinality(K))
  <2>1. rank \in [K -> 1 .. Cardinality(K)]
    BY <1>1
  <2>2. \A i, j \in K : i # j => Precedes(key, i, j) \/ Precedes(key, j, i)
    BY DEF Precedes
  <2>3. \A i, j \in K : rank[i] = rank[j] => i = j
    BY <1>1, <1>2, <2>2
  <2> QED
    BY <2>1, <2>3 DEF Injection, IsInjective
<1>4. Cardinality(K) \in Nat
  BY FS_CardinalityType
<1>5. IsFiniteSet(1 .. Cardinality(K)) /\ Cardinality(1 .. Cardinality(K)) = Cardinality(K)
  BY <1>4, FS_Interval
<1>6. rank \in Surjection(K, 1 .. Cardinality(K))
  BY <1>3, <1>5, FS_Injection
<1>7. \A n \in 1 .. Cardinality(K) : \E i \in K : rank[i] = n
  BY <1>6 DEF Surjection
<1> QED
  BY <1>1, <1>2, <1>7

(* What has each place of rank n in K at n.                                *)
InOrder(o, K, key) ==
  /\ o = [n \in 1 .. Cardinality(K) |-> o[n]]
  /\ \A n \in 1 .. Cardinality(K) : o[n] \in K /\ Cardinality(UpTo(K, key, o[n])) = n

LEMMA InOrderFacts ==
  ASSUME NEW K \in SUBSET Int, IsFiniteSet(K), NEW key \in [K -> Int], NEW o, InOrder(o, K, key)
  PROVE  /\ Cardinality(K) \in Nat
         /\ o \in [1 .. Cardinality(K) -> K]
         /\ \A i, j \in 1 .. Cardinality(K) : i < j => Precedes(key, o[i], o[j])
         /\ \A k \in K : \E n \in 1 .. Cardinality(K) : o[n] = k
<1> DEFINE N == Cardinality(K)
           r(i) == Cardinality(UpTo(K, key, i))
<1>0. N \in Nat
  BY FS_CardinalityType
<1>2. \A n \in 1 .. N : o[n] \in K /\ r(o[n]) = n
  BY DEF InOrder
<1>3. o \in [1 .. N -> K]
  BY <1>2 DEF InOrder
<1>4. \A i, j \in K : i = j \/ Precedes(key, i, j) \/ Precedes(key, j, i)
  BY DEF Precedes
<1>4a. \A i, j \in K : r(i) \in Int /\ r(j) \in Int /\ (Precedes(key, i, j) => r(i) < r(j))
  BY <1>0, RanksCount
<1>5. \A i, j \in 1 .. N : i < j => Precedes(key, o[i], o[j])
  <2> SUFFICES ASSUME NEW i \in 1 .. N, NEW j \in 1 .. N, i < j PROVE Precedes(key, o[i], o[j])
    OBVIOUS
  <2> DEFINE a == o[i]
             b == o[j]
  <2>1. a \in K /\ b \in K /\ r(a) = i /\ r(b) = j
    BY <1>2
  <2> HIDE DEF a, b
  <2>2. a # b
    BY <2>1
  <2>3. ~ Precedes(key, b, a)
    BY <2>1, <1>4a
  <2> QED
    BY <1>4, <2>1, <2>2, <2>3 DEF a, b
<1>6. \A k \in K : r(k) \in 1 .. N /\ o[r(k)] = k
  <2> SUFFICES ASSUME NEW k \in K PROVE r(k) \in 1 .. N /\ o[r(k)] = k
    OBVIOUS
  <2>1. r(k) \in 1 .. N
    BY RanksCount
  <2>2. o[r(k)] \in K /\ r(o[r(k)]) = r(k)
    BY <1>2, <2>1
  <2>3. ~ Precedes(key, k, o[r(k)]) /\ ~ Precedes(key, o[r(k)], k)
    <3> DEFINE m == o[r(k)]
    <3>1. m \in K /\ r(m) = r(k)
      BY <2>2
    <3> HIDE DEF m
    <3>2. ~ Precedes(key, k, m) /\ ~ Precedes(key, m, k)
      BY <3>1, <1>4a
    <3> QED
      BY <3>2 DEF m
  <2> QED
    BY <1>4, <2>1, <2>2, <2>3
<1> QED
  BY <1>0, <1>3, <1>5, <1>6


-----------------------------------------------------------------------------
(* The candle calls of the small graphs (CandleSlots) keep their deadlines *)
(* by timers too.                                                          *)
CONSTANTS Market, Request, MinInterval, Jitter, Cooldown, MaxAttach, Margin,
          Timeout, MaxFetches, Concurrency, WarmupConcurrency, WarmupDelay,
          WarmupTimeout, LastArrival, MaxTime
VARIABLES now, nextStartAt, cooldownUntil, graphs, inFlight, status, dueAt, todo,
          work, deferred

S == INSTANCE CandleSlots

List(r) == <<r, "list">>

(* A call of a list sleeps until a slot inside its budget, and never past  *)
(* it, or it was called inside the budget and its timer has not passed.    *)
JobInTime(j, due) ==
  /\ j = [market |-> j.market, pc |-> j.pc, at |-> j.at]
  /\ j.pc \in {"sleeping", "calling"} /\ j.at \in Int
  /\ j.pc = "sleeping" => now <= j.at /\ j.at + Margin <= due
  /\ j.pc = "calling"  => j.at <= due /\ now <= j.at + Timeout

SlotInv ==
  /\ now \in Nat /\ nextStartAt \in Int
  /\ DOMAIN status = S!Batch /\ DOMAIN work = S!Batch /\ DOMAIN todo = S!Batch
  /\ dueAt \in [S!Batch -> Nat]
  /\ \A r \in Request :
       /\ status[List(r)] = "idle" => work[List(r)] = {}
       /\ \A j \in work[List(r)] : JobInTime(j, dueAt[List(r)])
  /\ S!AnsweredInTime

LEMMA ListIsBatch ==
  ASSUME NEW r \in Request
  PROVE  /\ List(r) \in S!Batch /\ ~S!IsWarmup(List(r))
         /\ \A q \in Request : List(r) # <<q, "warm">>
         /\ \A q \in Request \ {r} : List(r) # List(q)
BY DEF List, S!Batch, S!IsWarmup

(* The slot a call may reserve is not of the past.                         *)
LEMMA SlotAhead ==
  ASSUME SlotInv
  PROVE  S!StartAt \in Int /\ S!Reserved \in Int /\ now <= S!StartAt
BY DEF SlotInv, S!StartAt, S!Reserved

(* A step that leaves clock, deadlines and states of the lists alone need  *)
(* only show that the calls of the lists are in time.                      *)
LEMMA WorkStays ==
  ASSUME S!SlotAssumption, SlotInv, now' = now, nextStartAt' \in Int,
         UNCHANGED <<status, dueAt>>, DOMAIN work' = S!Batch, DOMAIN todo' = S!Batch,
         \A r \in Request : status[List(r)] = "idle" => work'[List(r)] = {},
         \A r \in Request : \A j \in work'[List(r)] : JobInTime(j, dueAt[List(r)])
  PROVE  SlotInv'
<1>1. S!AnsweredInTime'
  BY DEF SlotInv, S!AnsweredInTime
<1>2. \A r \in Request : \A j \in work'[List(r)] : JobInTime(j, dueAt[List(r)])'
  BY DEF JobInTime
<1> QED
  BY <1>1, <1>2 DEF SlotInv

LEMMA TakesStep ==
  ASSUME S!SlotAssumption, SlotInv, NEW b \in S!Batch, S!Takes(b)
  PROVE  SlotInv'
<1> DEFINE m == Head(todo[b])
           j == [market |-> m, pc |-> "sleeping", at |-> S!StartAt]
<1>1. /\ now' = now /\ UNCHANGED <<status, dueAt>> /\ status[b] = "running"
      /\ todo' = [todo EXCEPT ![b] = Tail(@)]
  BY DEF S!Takes, S!CanTake
<1>2. nextStartAt' \in Int
  <2>1. \A late \in 0 .. Jitter : S!StartAt + MinInterval + late \in Int
    BY SlotAhead DEF S!SlotAssumption
  <2> QED
    BY <2>1, SlotAhead DEF S!Takes, SlotInv, S!slot
<1>3. \/ work' = work
      \/ ~S!Refused(b) /\ work' = [work EXCEPT ![b] = @ \cup {j}]
  BY DEF S!Takes
<1>4. DOMAIN work' = S!Batch /\ DOMAIN todo' = S!Batch
  BY <1>1, <1>3 DEF SlotInv
<1>5. ASSUME NEW r \in Request
      PROVE  /\ status[List(r)] = "idle" => work'[List(r)] = {}
             /\ \A k \in work'[List(r)] : JobInTime(k, dueAt[List(r)])
  <2>1. CASE work'[List(r)] = work[List(r)]
    BY <2>1 DEF SlotInv
  <2>2. CASE b = List(r) /\ ~S!Refused(b) /\ work'[List(r)] = work[List(r)] \cup {j}
    <3>1. ~(S!StartAt + Margin > dueAt[b])
      BY <2>2, ListIsBatch DEF S!Refused, S!OutOfBudget
    <3>2. S!StartAt + Margin <= dueAt[b]
      BY <3>1, SlotAhead DEF SlotInv, S!SlotAssumption
    <3> HIDE DEF m
    <3>3. JobInTime(j, dueAt[b])
      BY <3>2, SlotAhead DEF JobInTime
    <3> HIDE DEF j
    <3> QED
      BY <1>1, <2>2, <3>3 DEF SlotInv
  <2> QED
    BY <1>3, <2>1, <2>2, ListIsBatch DEF SlotInv
<1> QED
  BY <1>1, <1>2, <1>4, <1>5, WorkStays

(* A call whose slot has come is made in the budget.                       *)
LEMMA CallsStep ==
  ASSUME S!SlotAssumption, SlotInv, NEW b \in S!Batch, S!Calls(b)
  PROVE  SlotInv'
<1>1. PICK j \in work[b] :
        /\ S!Due(j)
        /\ work' = [work EXCEPT ![b] =
                      (@ \ {j}) \cup {[j EXCEPT !.pc = "calling", !.at = now]}]
        /\ UNCHANGED <<now, nextStartAt, status, dueAt, todo>>
  BY DEF S!Calls, S!slot
<1> DEFINE k == [j EXCEPT !.pc = "calling", !.at = now]
<1>2. work' = [work EXCEPT ![b] = (@ \ {j}) \cup {k}]
  BY <1>1
<1>3. ASSUME NEW r \in Request
      PROVE  /\ status[List(r)] = "idle" => work'[List(r)] = {}
             /\ \A i \in work'[List(r)] : JobInTime(i, dueAt[List(r)])
  <2>1. CASE b # List(r)
    BY <1>2, <2>1, ListIsBatch DEF SlotInv
  <2>2. CASE b = List(r)
    <3>1. JobInTime(j, dueAt[b])
      BY <2>2 DEF SlotInv
    <3>2. /\ now <= j.at /\ now >= j.at /\ j.at + Margin <= dueAt[b] /\ j.at \in Int
          /\ j = [market |-> j.market, pc |-> j.pc, at |-> j.at]
      BY <1>1, <3>1 DEF JobInTime, S!Due
    <3>3. k = [market |-> j.market, pc |-> "calling", at |-> now]
      <4> DEFINE R == [market : {j.market}, pc : {"sleeping", "calling"}, at : Int]
                 first == [j EXCEPT !.pc = "calling"]
      <4>1. j \in R
        BY <3>1, <3>2 DEF JobInTime
      <4>2. first \in R /\ first.pc = "calling"
        BY <4>1
      <4>3. k = [first EXCEPT !.at = now] /\ now \in Int
        BY DEF SlotInv
      <4> HIDE DEF first, k
      <4>4. k \in R /\ k.at = now /\ k.pc = "calling"
        BY <4>2, <4>3
      <4> QED
        BY <4>4
    <3>4. now <= dueAt[b] /\ now <= now + Timeout /\ now \in Int
      BY <3>2 DEF S!SlotAssumption, SlotInv
    <3> HIDE DEF k
    <3>5. JobInTime(k, dueAt[b])
      BY <3>3, <3>4 DEF JobInTime
    <3>6. work'[b] = (work[b] \ {j}) \cup {k} /\ status[b] # "idle"
      BY <1>1, <1>2, <2>2 DEF SlotInv
    <3> QED
      BY <2>2, <3>5, <3>6 DEF SlotInv
  <2> QED
    BY <2>1, <2>2
<1> HIDE DEF k
<1>4. DOMAIN work' = S!Batch /\ DOMAIN todo' = S!Batch /\ nextStartAt' \in Int
  BY <1>1, <1>2 DEF SlotInv
<1> QED
  BY <1>1, <1>3, <1>4, WorkStays

LEMMA CallEndsStep ==
  ASSUME S!SlotAssumption, SlotInv, NEW b \in S!Batch, S!CallEnds(b)
  PROVE  SlotInv'
<1>1. PICK j \in work[b] :
        /\ work' = [work EXCEPT ![b] = @ \ {j}]
        /\ UNCHANGED <<now, nextStartAt, status, dueAt, todo>>
  BY DEF S!CallEnds
<1>2. \A r \in Request : work'[List(r)] \subseteq work[List(r)]
  BY <1>1, ListIsBatch DEF SlotInv
<1>3. \A r \in Request : status[List(r)] = "idle" => work'[List(r)] = {}
  BY <1>2 DEF SlotInv
<1>4. \A r \in Request : \A k \in work'[List(r)] : JobInTime(k, dueAt[List(r)])
  BY <1>2 DEF SlotInv
<1>5. DOMAIN work' = S!Batch /\ DOMAIN todo' = S!Batch /\ nextStartAt' \in Int
  BY <1>1 DEF SlotInv
<1> QED
  BY <1>1, <1>3, <1>4, <1>5, WorkStays

LEMMA ArrivesStep ==
  ASSUME S!SlotAssumption, SlotInv, NEW q \in Request, S!Arrives(q)
  PROVE  SlotInv'
<1>1. /\ status[List(q)] = "idle"
      /\ status' = [status EXCEPT ![List(q)] = "running"]
      /\ dueAt' = [dueAt EXCEPT ![List(q)] = now + MaxAttach]
      /\ UNCHANGED <<now, nextStartAt, work>> /\ DOMAIN todo' = DOMAIN todo
  BY DEF S!Arrives, List, S!slot
<1>2. now + MaxAttach \in Nat /\ now <= now + MaxAttach + Timeout
  BY DEF SlotInv, S!SlotAssumption
<1>3. dueAt' \in [S!Batch -> Nat] /\ DOMAIN status' = S!Batch
  BY <1>1, <1>2, ListIsBatch DEF SlotInv
<1>4. ASSUME NEW r \in Request
      PROVE  /\ status'[List(r)] = "idle" => work[List(r)] = {}
             /\ \A j \in work[List(r)] : JobInTime(j, dueAt'[List(r)])
             /\ status'[List(r)] = "running" => now <= dueAt'[List(r)] + Timeout
  <2>1. CASE r = q
    BY <1>1, <1>2, <2>1, ListIsBatch DEF SlotInv
  <2>2. CASE r # q
    <3>1. status'[List(r)] = status[List(r)] /\ dueAt'[List(r)] = dueAt[List(r)]
      BY <1>1, <2>2, ListIsBatch DEF SlotInv
    <3> QED
      BY <3>1 DEF SlotInv, S!AnsweredInTime, List
  <2> QED
    BY <2>1, <2>2
<1>5. S!AnsweredInTime'
  BY <1>1, <1>4 DEF S!AnsweredInTime, List
<1>6. \A r \in Request : /\ status'[List(r)] = "idle" => work'[List(r)] = {}
                         /\ \A j \in work'[List(r)] : JobInTime(j, dueAt[List(r)])'
  BY <1>1, <1>4 DEF JobInTime
<1> QED
  BY <1>1, <1>3, <1>5, <1>6 DEF SlotInv

(* What happens to warm-ups is none of the lists' business, and who has    *)
(* been answered is not running.                                           *)
LEMMA RequestsStep ==
  ASSUME S!SlotAssumption, SlotInv, NEW q \in Request,
         S!Answers(q) \/ S!WarmupStarts(q) \/ S!WarmupEnds(q)
  PROVE  SlotInv'
<1>1. /\ UNCHANGED <<now, nextStartAt, work>>
      /\ DOMAIN todo' = DOMAIN todo /\ DOMAIN status' = DOMAIN status
      /\ dueAt' = dueAt \/ dueAt' = [dueAt EXCEPT ![<<q, "warm">>] = now + WarmupDelay]
  BY DEF S!Answers, S!WarmupStarts, S!WarmupEnds, S!slot
<1>2. \A r \in Request : dueAt'[List(r)] = dueAt[List(r)]
  BY <1>1, ListIsBatch DEF SlotInv
<1>3. \A r \in Request : status'[List(r)] = status[List(r)] \/ status'[List(r)] = "ended"
  BY ListIsBatch DEF S!Answers, S!WarmupStarts, S!WarmupEnds, SlotInv, List
<1>4. dueAt' \in [S!Batch -> Nat]
  BY <1>1 DEF SlotInv, S!SlotAssumption
<1>5. S!AnsweredInTime'
  BY <1>1, <1>2, <1>3 DEF S!AnsweredInTime, SlotInv, List
<1>6. \A r \in Request : /\ status'[List(r)] = "idle" => work'[List(r)] = {}
                         /\ \A j \in work'[List(r)] : JobInTime(j, dueAt[List(r)])'
  BY <1>1, <1>2, <1>3 DEF JobInTime, SlotInv
<1> QED
  BY <1>1, <1>4, <1>5, <1>6 DEF SlotInv

(* The instance counts as this module does.                                *)
LEMMA SameCardinality == \A T : S!Cardinality(T) = Cardinality(T)
BY DEF S!Cardinality, S!IsFiniteSet, Cardinality, IsFiniteSet

(* Time passes only when every call sleeps or waits before its timer, and  *)
(* when a list that has targets left has no worker to take them.           *)
LEMMA TickStep ==
  ASSUME S!SlotAssumption, SlotInv, S!Tick
  PROVE  SlotInv'
<1>1. /\ now' = now + 1 /\ now \in Nat
      /\ UNCHANGED <<nextStartAt, status, dueAt, todo, work>>
  BY DEF S!Tick, S!slot, SlotInv
<1>2. ASSUME NEW r \in Request, NEW j \in work[List(r)]
      PROVE  JobInTime(j, dueAt[List(r)])'
  <2>1. ~S!Due(j) /\ ~(j.pc = "calling" /\ now >= j.at + Timeout)
    BY ListIsBatch DEF S!Tick, S!Idle, S!CallTimeout
  <2>2. JobInTime(j, dueAt[List(r)])
    BY DEF SlotInv
  <2> QED
    BY <1>1, <2>1, <2>2 DEF JobInTime, S!Due, S!SlotAssumption
<1>3. ASSUME NEW r \in Request, status[List(r)] = "running"
      PROVE  now + 1 <= dueAt[List(r)] + Timeout
  <2>1. work[List(r)] # {}
    <3> SUFFICES ASSUME work[List(r)] = {} PROVE FALSE
      OBVIOUS
    <3>1. ~S!CanTake(List(r)) /\ ~S!Finished(List(r))
      BY ListIsBatch DEF S!Tick, S!Idle
    <3>2. Cardinality(work[List(r)]) = 0 /\ S!Workers(List(r)) = Concurrency
      BY ListIsBatch, FS_EmptySet DEF S!Workers
    <3>3. todo[List(r)] # <<>>
      BY <1>3, <3>1 DEF S!Finished
    <3>4. ~(Cardinality(work[List(r)]) < S!Workers(List(r)))
      BY <1>3, <3>1, <3>3, SameCardinality DEF S!CanTake
    <3> QED
      BY <3>2, <3>4 DEF S!SlotAssumption
  <2>2. PICK j \in work[List(r)] : TRUE
    BY <2>1
  <2>3. JobInTime(j, dueAt[List(r)])' /\ dueAt[List(r)] \in Nat
    BY <1>2, ListIsBatch DEF SlotInv
  <2> QED
    BY <1>1, <2>3 DEF JobInTime, S!SlotAssumption
<1>4. S!AnsweredInTime'
  BY <1>1, <1>3 DEF S!AnsweredInTime, List
<1> QED
  BY <1>1, <1>2, <1>4 DEF SlotInv

LEMMA SlotStep ==
  ASSUME S!SlotAssumption, SlotInv, [S!Next]_(S!vars)
  PROVE  SlotInv'
<1>1. CASE UNCHANGED S!vars
  BY <1>1 DEF S!vars, S!slot, SlotInv, JobInTime, S!AnsweredInTime
<1>2. CASE S!GraphExpires
  <2>1. UNCHANGED <<now, nextStartAt, status, dueAt, todo, work>>
    BY <1>2 DEF S!GraphExpires, S!slot
  <2> QED
    BY <2>1 DEF SlotInv, JobInTime, S!AnsweredInTime
<1> QED
  BY <1>1, <1>2, TakesStep, CallsStep, CallEndsStep, ArrivesStep, RequestsStep, TickStep
  DEF S!Next, S!BatchStep, S!RequestStep

(* A list request is answered by its budget and one call's timeout, however *)
(* many requests and warm-ups reserve slots before it and whatever the     *)
(* exchange answers (waitForProviderCandleSlot, mapBounded).               *)
THEOREM AnsweredInTimeHolds ==
  ASSUME S!SlotAssumption PROVE S!Spec => []S!AnsweredInTime
<1>1. S!Init => SlotInv
  BY ListIsBatch DEF S!Init, SlotInv, S!AnsweredInTime, List
<1>2. SlotInv /\ [S!Next]_(S!vars) => SlotInv'
  BY SlotStep
<1>3. SlotInv => S!AnsweredInTime
  BY DEF SlotInv
<1> QED
  BY <1>1, <1>2, <1>3, PTL DEF S!Spec

-----------------------------------------------------------------------------
(* Which keys the warm-ups have: a batch is given its targets as a list of  *)
(* markets, each once.                                                     *)
(* No element twice.                                                       *)
Distinct(s) == \A i, j \in 1 .. Len(s) : s[i] = s[j] => i = j
ListOf(s) == s \in Seq(Market) /\ Distinct(s)
Elements(s) == {s[i] : i \in 1 .. Len(s)}

LEMMA RestOfList ==
  ASSUME NEW s, ListOf(s), s # <<>>
  PROVE  /\ ListOf(Tail(s)) /\ Head(s) \in Market /\ Head(s) \in Elements(s)
         /\ Elements(Tail(s)) = Elements(s) \ {Head(s)}
<1>1. /\ s \in Seq(Market) /\ Len(s) \in Nat /\ Len(s) > 0
  BY DEF ListOf
<1>2. /\ Tail(s) \in Seq(Market) /\ Len(Tail(s)) = Len(s) - 1
      /\ \A i \in 1 .. Len(s) - 1 : Tail(s)[i] = s[i + 1]
  BY <1>1
<1>3. Head(s) = s[1] /\ s[1] \in Market
  BY <1>1
<1>4. \A i, j \in 1 .. Len(s) : s[i] = s[j] => i = j
  BY DEF ListOf, Distinct
<1> DEFINE t == Tail(s)
<1> HIDE DEF t
<1>5. Distinct(t)
  <2> SUFFICES ASSUME NEW i \in 1 .. Len(t), NEW j \in 1 .. Len(t), t[i] = t[j] PROVE i = j
    BY DEF Distinct
  <2>1. i \in 1 .. Len(s) - 1 /\ j \in 1 .. Len(s) - 1 /\ t[i] = s[i + 1] /\ t[j] = s[j + 1]
    BY <1>2 DEF t
  <2>2. i + 1 \in 1 .. Len(s) /\ j + 1 \in 1 .. Len(s)
    BY <1>1, <2>1
  <2>3. i + 1 = j + 1
    BY <1>4, <2>1, <2>2
  <2> QED
    BY <2>1, <2>3
<1>6. Elements(t) \subseteq Elements(s) \ {s[1]}
  <2> SUFFICES ASSUME NEW i \in 1 .. Len(t) PROVE t[i] \in Elements(s) /\ t[i] # s[1]
    BY DEF Elements
  <2>1. i \in 1 .. Len(s) - 1 /\ t[i] = s[i + 1]
    BY <1>2 DEF t
  <2>2. i + 1 \in 1 .. Len(s) /\ 1 \in 1 .. Len(s) /\ i + 1 # 1
    BY <1>1, <2>1
  <2> QED
    BY <1>4, <2>1, <2>2 DEF Elements
<1>7. Elements(s) \ {s[1]} \subseteq Elements(t)
  <2> SUFFICES ASSUME NEW i \in 1 .. Len(s), s[i] # s[1] PROVE s[i] \in Elements(t)
    BY DEF Elements
  <2>1. i - 1 \in 1 .. Len(s) - 1 /\ (i - 1) + 1 = i
    <3>1. i # 1
      OBVIOUS
    <3> QED
      BY <1>1, <3>1
  <2>2. i - 1 \in 1 .. Len(t) /\ t[i - 1] = s[i]
    BY <1>2, <2>1 DEF t
  <2> QED
    BY <2>2 DEF Elements
<1>8. s[1] \in Elements(s)
  BY <1>1 DEF Elements
<1> QED
  BY <1>2, <1>3, <1>5, <1>6, <1>7, <1>8 DEF t, ListOf

LEMMA PartOfList ==
  ASSUME NEW s, ListOf(s), NEW a \in Nat, NEW b \in Nat, 1 <= a, b <= Len(s)
  PROVE  ListOf(SubSeq(s, a, b)) /\ Elements(SubSeq(s, a, b)) \subseteq Elements(s)
<1> DEFINE t == SubSeq(s, a, b)
<1>1. s \in Seq(Market) /\ Len(s) \in Nat /\ \A i, j \in 1 .. Len(s) : s[i] = s[j] => i = j
  BY DEF ListOf, Distinct
<1>2. t \in Seq(Market) /\ Len(t) = IF a <= b THEN b - a + 1 ELSE 0
  BY <1>1
<1>3. \A i \in 1 .. Len(t) : t[i] = s[a + i - 1] /\ a + i - 1 \in 1 .. Len(s)
  <2> SUFFICES ASSUME NEW i \in 1 .. Len(t) PROVE t[i] = s[a + i - 1] /\ a + i - 1 \in 1 .. Len(s)
    OBVIOUS
  <2>1. a <= b /\ i \in 1 .. b - a + 1
    BY <1>2
  <2> QED
    BY <1>1, <2>1
<1> HIDE DEF t
<1>4. Distinct(t)
  <2> SUFFICES ASSUME NEW i \in 1 .. Len(t), NEW j \in 1 .. Len(t), t[i] = t[j] PROVE i = j
    BY DEF Distinct
  <2>1. a + i - 1 = a + j - 1
    BY <1>1, <1>3
  <2> QED
    BY <2>1
<1> QED
  BY <1>1, <1>2, <1>3, <1>4 DEF t, ListOf, Elements

LEMMA WhereOfList ==
  ASSUME NEW s, ListOf(s), NEW K \in SUBSET DOMAIN s
  PROVE  ListOf(S!Where(s, K)) /\ Elements(S!Where(s, K)) = {s[i] : i \in K}
<1> DEFINE N == Cardinality(K)
           key == [i \in K |-> i]
           rank(i) == S!Cardinality({j \in K : j <= i})
           o == [n \in 1 .. N |-> CHOOSE i \in K : rank(i) = n]
           w == S!Where(s, K)
<1>1. s \in Seq(Market) /\ Len(s) \in Nat /\ \A i, j \in 1 .. Len(s) : s[i] = s[j] => i = j
  BY DEF ListOf, Distinct
<1>2. K \in SUBSET Int /\ IsFiniteSet(K) /\ key \in [K -> Int] /\ K \subseteq 1 .. Len(s)
  <2>1. DOMAIN s = 1 .. Len(s)
    BY <1>1
  <2>2. IsFiniteSet(1 .. Len(s))
    BY <1>1, FS_Interval
  <2> QED
    BY <2>1, <2>2, FS_Subset
<1>3. \A i \in K : rank(i) = Cardinality(UpTo(K, key, i))
  <2> SUFFICES ASSUME NEW i \in K PROVE rank(i) = Cardinality(UpTo(K, key, i))
    OBVIOUS
  <2>1. {j \in K : j <= i} = UpTo(K, key, i)
    BY <1>2 DEF UpTo
  <2> QED
    BY <2>1, SameCardinality
<1>4. w = [n \in 1 .. N |-> s[o[n]]]
  <2>1. w = [n \in 1 .. S!Cardinality(K) |-> s[CHOOSE i \in K : rank(i) = n]]
    BY DEF S!Where
  <2>2. S!Cardinality(K) = N
    BY SameCardinality
  <2> HIDE DEF rank, N, w
  <2> QED
    BY <2>1, <2>2
<1>5. \A n \in 1 .. N : o[n] \in K /\ Cardinality(UpTo(K, key, o[n])) = n
  <2> SUFFICES ASSUME NEW n \in 1 .. N PROVE o[n] \in K /\ Cardinality(UpTo(K, key, o[n])) = n
    OBVIOUS
  <2> HIDE DEF rank, key
  <2>0. PICK p \in K : Cardinality(UpTo(K, key, p)) = n
    BY <1>2, RanksCount
  <2>1. \E k \in K : rank(k) = n
    BY <1>3, <2>0
  <2>2. (CHOOSE i \in K : rank(i) = n) \in K /\ rank(CHOOSE i \in K : rank(i) = n) = n
    BY <2>1
  <2>3. o[n] \in K /\ rank(o[n]) = n
    BY <2>2
  <2> QED
    BY <1>3, <2>3
<1>6. o = [n \in 1 .. N |-> o[n]]
  <2> HIDE DEF rank, N, key
  <2> QED
    OBVIOUS
<1> HIDE DEF o, w, key
<1>7. InOrder(o, K, key)
  BY <1>5, <1>6 DEF InOrder
<1>8. /\ N \in Nat /\ o \in [1 .. N -> K]
      /\ \A i, j \in 1 .. N : i < j => Precedes(key, o[i], o[j])
      /\ \A k \in K : \E n \in 1 .. N : o[n] = k
  BY <1>2, <1>7, InOrderFacts
<1> HIDE DEF N
<1>9. \A i \in 1 .. N : o[i] \in K /\ o[i] \in 1 .. Len(s) /\ w[i] = s[o[i]] /\ s[o[i]] \in Market
  BY <1>1, <1>2, <1>4, <1>8
<1>10. w \in Seq(Market) /\ Len(w) = N
  <2>1. w \in [1 .. N -> Market]
    BY <1>4, <1>9
  <2> QED
    BY <1>8, <2>1
<1>11. \A i, j \in 1 .. N : i # j => o[i] # o[j]
  <2> SUFFICES ASSUME NEW i \in 1 .. N, NEW j \in 1 .. N, i < j PROVE o[i] # o[j]
    BY <1>8
  <2>1. Precedes(key, o[i], o[j]) /\ o[i] \in K /\ key[o[i]] \in Int /\ o[i] \in Int
    BY <1>2, <1>8
  <2> QED
    BY <2>1 DEF Precedes
<1>12. Distinct(w)
  BY <1>1, <1>9, <1>10, <1>11 DEF Distinct
<1>13. Elements(w) = {s[i] : i \in K}
  BY <1>8, <1>9, <1>10 DEF Elements
<1> QED
  BY <1>10, <1>12, <1>13 DEF w, ListOf

(* The targets of a list are its markets, each once.                       *)
LEMMA TargetsOfList ==
  ASSUME S!SlotAssumption, NEW A \in SUBSET Market
  PROVE  ListOf(S!SetToSeq(A)) /\ Elements(S!SetToSeq(A)) = A
<1> DEFINE N == Cardinality(A)
           t == S!SetToSeq(A)
<1>1. IsFiniteSet(A)
  <2>1. IsFiniteSet(Market)
    BY DEF S!SlotAssumption, S!IsFiniteSet, IsFiniteSet
  <2> QED
    BY <2>1, FS_Subset
<1>2. N \in Nat /\ ExistsBijection(1 .. N, A)
  BY <1>1, FS_CardinalityType
<1>3. t = CHOOSE f \in [1 .. N -> A] : S!IsInjective(f)
  <2>1. t = CHOOSE f \in [1 .. S!Cardinality(A) -> A] : S!IsInjective(f)
    BY DEF S!SetToSeq
  <2>2. S!Cardinality(A) = N
    BY SameCardinality
  <2> QED
    BY <2>1, <2>2
<1>4. \E f \in [1 .. N -> A] : S!IsInjective(f)
  BY <1>2 DEF ExistsBijection, Bijection, Injection, IsInjective, S!IsInjective
<1>5. t \in [1 .. N -> A] /\ S!IsInjective(t)
  BY <1>3, <1>4
<1> HIDE DEF t
<1>6. t \in Injection(1 .. N, A)
  BY <1>5 DEF Injection, IsInjective, S!IsInjective
<1>7. IsFiniteSet(1 .. N) /\ Cardinality(1 .. N) = N
  BY <1>2, FS_Interval
<1>8. t \in Surjection(1 .. N, A)
  BY <1>1, <1>6, <1>7, FS_Injection
<1> HIDE DEF N
<1>9. t \in Seq(Market) /\ Len(t) = N
  <2>1. t \in [1 .. N -> Market]
    BY <1>5
  <2> QED
    BY <1>2, <2>1
<1>10. Distinct(t)
  BY <1>5, <1>9 DEF Distinct, S!IsInjective
<1>11. Elements(t) = A
  BY <1>5, <1>8, <1>9 DEF Elements, Surjection
<1> QED
  BY <1>9, <1>10, <1>11 DEF t, ListOf

(* Who has a key that is being warmed: one queue or one call, known to     *)
(* sparklineWarmupInFlight, and of the keys that are not there nobody.     *)
OneHolder(q, w, F) ==
  /\ \A r \in Request : q[r] \subseteq F /\ \A j \in w[r] : j.market \in F
  /\ \A m \in F : \E r \in Request : m \in q[r] \/ \E j \in w[r] : j.market = m
  /\ \A r, p \in Request : \A m \in q[r] : m \in q[p] => r = p
  /\ \A r, p \in Request : \A j \in w[r], k \in w[p] : j.market = k.market => r = p /\ j = k
  /\ \A r, p \in Request : \A j \in w[r] : j.market \notin q[p]

(* What a change of the queues and the calls must keep.                    *)
LEMMA HolderIf ==
  ASSUME NEW q, NEW w, NEW F,
         \A r \in Request : q[r] \subseteq F, \A r \in Request : \A j \in w[r] : j.market \in F,
         \A m \in F : \E r \in Request : m \in q[r] \/ \E j \in w[r] : j.market = m,
         \A r, p \in Request : \A m \in q[r] : m \in q[p] => r = p,
         \A r, p \in Request : \A j \in w[r], k \in w[p] : j.market = k.market => r = p /\ j = k,
         \A r, p \in Request : \A j \in w[r] : j.market \notin q[p]
  PROVE  OneHolder(q, w, F)
BY DEF OneHolder

LEMMA HolderRefused ==
  ASSUME NEW q, NEW w, NEW F, OneHolder(q, w, F), NEW r \in Request, NEW m \in q[r],
         q = [p \in Request |-> q[p]]
  PROVE  OneHolder([q EXCEPT ![r] = @ \ {m}], w, F \ {m})
<1>a. \A p \in Request : q[p] \subseteq F /\ \A i \in w[p] : i.market \in F
  BY DEF OneHolder
<1>b. \A n \in F : \E p \in Request : n \in q[p] \/ \E i \in w[p] : i.market = n
  BY DEF OneHolder
<1>c. \A p, s \in Request : \A n \in q[p] : n \in q[s] => p = s
  BY DEF OneHolder
<1>d. \A p, s \in Request : \A i \in w[p], l \in w[s] : i.market = l.market => p = s /\ i = l
  BY DEF OneHolder
<1>e. \A p, s \in Request : \A i \in w[p] : i.market \notin q[s]
  BY DEF OneHolder
<1> DEFINE qq == [q EXCEPT ![r] = @ \ {m}]
<1>1. \A p \in Request : qq[p] = (IF p = r THEN q[p] \ {m} ELSE q[p])
  OBVIOUS
<1> HIDE DEF qq
<1>2. \A p \in Request : m \notin qq[p]
  BY <1>1, <1>c
<1>3. \A p \in Request : qq[p] \subseteq F \ {m}
  BY <1>1, <1>2, <1>a
<1>4. \A p \in Request : \A i \in w[p] : i.market \in F \ {m}
  BY <1>a, <1>e
<1>5. \A n \in F \ {m} : \E p \in Request : n \in qq[p] \/ \E i \in w[p] : i.market = n
  BY <1>1, <1>b
<1>6. \A p, s \in Request : \A n \in qq[p] : n \in qq[s] => p = s
  BY <1>1, <1>c
<1>7. \A p, s \in Request : \A i \in w[p] : i.market \notin qq[s]
  BY <1>1, <1>e
<1> QED
  BY <1>3, <1>4, <1>5, <1>6, <1>7, <1>d, HolderIf DEF qq

LEMMA HolderTakes ==
  ASSUME NEW q, NEW w, NEW F, OneHolder(q, w, F), NEW r \in Request, NEW m \in q[r],
         q = [p \in Request |-> q[p]], w = [p \in Request |-> w[p]], NEW j, j.market = m
  PROVE  OneHolder([q EXCEPT ![r] = @ \ {m}], [w EXCEPT ![r] = @ \cup {j}], F)
<1>a. \A p \in Request : q[p] \subseteq F /\ \A i \in w[p] : i.market \in F
  BY DEF OneHolder
<1>b. \A n \in F : \E p \in Request : n \in q[p] \/ \E i \in w[p] : i.market = n
  BY DEF OneHolder
<1>c. \A p, s \in Request : \A n \in q[p] : n \in q[s] => p = s
  BY DEF OneHolder
<1>d. \A p, s \in Request : \A i \in w[p], l \in w[s] : i.market = l.market => p = s /\ i = l
  BY DEF OneHolder
<1>e. \A p, s \in Request : \A i \in w[p] : i.market \notin q[s]
  BY DEF OneHolder
<1> DEFINE qq == [q EXCEPT ![r] = @ \ {m}]
           ww == [w EXCEPT ![r] = @ \cup {j}]
<1>1. \A p \in Request : qq[p] = (IF p = r THEN q[p] \ {m} ELSE q[p])
  OBVIOUS
<1>2. \A p \in Request : ww[p] = (IF p = r THEN w[p] \cup {j} ELSE w[p])
  OBVIOUS
<1> HIDE DEF qq, ww
<1>3. \A p \in Request : qq[p] \subseteq q[p] /\ m \notin qq[p]
  BY <1>1, <1>c
<1>4. \A p \in Request : \A i \in ww[p] : i \in w[p] \/ (p = r /\ i = j /\ i.market = m)
  BY <1>2
<1>5. m \in F
  BY <1>a
<1>6. \A p \in Request : qq[p] \subseteq F
  BY <1>3, <1>a
<1>7. \A p \in Request : \A i \in ww[p] : i.market \in F
  BY <1>4, <1>5, <1>a
<1>8. ASSUME NEW n \in F PROVE \E p \in Request : n \in qq[p] \/ \E i \in ww[p] : i.market = n
  <2>1. CASE n = m
    <3>1. j \in ww[r] /\ j.market = n
      BY <1>2, <2>1
    <3> QED
      BY <3>1
  <2>2. CASE n # m
    <3>1. PICK p \in Request : n \in q[p] \/ \E i \in w[p] : i.market = n
      BY <1>b
    <3> QED
      BY <3>1, <2>2, <1>1, <1>2
  <2> QED
    BY <2>1, <2>2
<1>9. \A p, s \in Request : \A n \in qq[p] : n \in qq[s] => p = s
  BY <1>3, <1>c
<1>10. \A p \in Request : \A i \in w[p] : i.market # m
  BY <1>e
<1>11. ASSUME NEW p \in Request, NEW s \in Request, NEW i \in ww[p], NEW l \in ww[s], i.market = l.market
       PROVE  p = s /\ i = l
  <2>1. CASE i \in w[p] /\ l \in w[s]
    BY <2>1, <1>11, <1>d
  <2>2. CASE i \in w[p] /\ l \notin w[s]
    BY <2>2, <1>11, <1>4, <1>10
  <2>3. CASE i \notin w[p] /\ l \in w[s]
    BY <2>3, <1>11, <1>4, <1>10
  <2>4. CASE i \notin w[p] /\ l \notin w[s]
    BY <2>4, <1>4
  <2> QED
    BY <2>1, <2>2, <2>3, <2>4
<1>12. \A p, s \in Request : \A i \in ww[p] : i.market \notin qq[s]
  BY <1>3, <1>4, <1>e
<1> QED
  BY <1>6, <1>7, <1>8, <1>9, <1>11, <1>12, HolderIf DEF qq, ww

LEMMA HolderCalls ==
  ASSUME NEW q, NEW w, NEW F, OneHolder(q, w, F), NEW r \in Request, NEW j \in w[r],
         w = [p \in Request |-> w[p]], NEW k, k.market = j.market
  PROVE  OneHolder(q, [w EXCEPT ![r] = (@ \ {j}) \cup {k}], F)
<1>a. \A p \in Request : q[p] \subseteq F /\ \A i \in w[p] : i.market \in F
  BY DEF OneHolder
<1>b. \A n \in F : \E p \in Request : n \in q[p] \/ \E i \in w[p] : i.market = n
  BY DEF OneHolder
<1>c. \A p, s \in Request : \A n \in q[p] : n \in q[s] => p = s
  BY DEF OneHolder
<1>d. \A p, s \in Request : \A i \in w[p], l \in w[s] : i.market = l.market => p = s /\ i = l
  BY DEF OneHolder
<1>e. \A p, s \in Request : \A i \in w[p] : i.market \notin q[s]
  BY DEF OneHolder
<1> DEFINE ww == [w EXCEPT ![r] = (@ \ {j}) \cup {k}]
<1>1. \A p \in Request : ww[p] = (IF p = r THEN (w[p] \ {j}) \cup {k} ELSE w[p])
  OBVIOUS
<1> HIDE DEF ww
<1>2. \A p \in Request : \A i \in ww[p] : (i \in w[p] /\ i # j) \/ (p = r /\ i = k)
  <2>1. \A p \in Request \ {r} : j \notin w[p]
    BY <1>d
  <2> QED
    BY <2>1, <1>1
<1>3. \A p \in Request : \A i \in ww[p] : i.market \in F
  BY <1>2, <1>a
<1>4. ASSUME NEW n \in F PROVE \E p \in Request : n \in q[p] \/ \E i \in ww[p] : i.market = n
  <2>1. CASE n = j.market
    <3>1. k \in ww[r] /\ k.market = n
      BY <1>1, <2>1
    <3> QED
      BY <3>1
  <2>2. CASE n # j.market
    <3>1. PICK p \in Request : n \in q[p] \/ \E i \in w[p] : i.market = n
      BY <1>b
    <3>2. CASE n \in q[p]
      BY <3>2
    <3>3. CASE \E i \in w[p] : i.market = n
      <4>1. PICK i \in w[p] : i.market = n
        BY <3>3
      <4>2. i \in ww[p]
        BY <4>1, <2>2, <1>1
      <4> QED
        BY <4>1, <4>2
    <3> QED
      BY <3>1, <3>2, <3>3
  <2> QED
    BY <2>1, <2>2
<1>5. \A p \in Request : \A i \in w[p] : i # j => i.market # j.market
  BY <1>d
<1>6. ASSUME NEW p \in Request, NEW s \in Request, NEW i \in ww[p], NEW l \in ww[s], i.market = l.market
      PROVE  p = s /\ i = l
  <2>1. CASE i \in w[p] /\ i # j /\ l \in w[s] /\ l # j
    BY <2>1, <1>6, <1>d
  <2>2. CASE i \in w[p] /\ i # j /\ s = r /\ l = k
    BY <2>2, <1>6, <1>5
  <2>3. CASE p = r /\ i = k /\ l \in w[s] /\ l # j
    BY <2>3, <1>6, <1>5
  <2>4. CASE p = r /\ i = k /\ s = r /\ l = k
    BY <2>4
  <2> QED
    BY <1>2, <2>1, <2>2, <2>3, <2>4
<1>7. \A p, s \in Request : \A i \in ww[p] : i.market \notin q[s]
  BY <1>2, <1>e
<1>8. \A p \in Request : q[p] \subseteq F
  BY <1>a
<1> QED
  BY <1>3, <1>4, <1>6, <1>7, <1>8, <1>c, HolderIf DEF ww

LEMMA HolderEnds ==
  ASSUME NEW q, NEW w, NEW F, OneHolder(q, w, F), NEW r \in Request, NEW j \in w[r],
         w = [p \in Request |-> w[p]]
  PROVE  OneHolder(q, [w EXCEPT ![r] = @ \ {j}], F \ {j.market})
<1>a. \A p \in Request : q[p] \subseteq F /\ \A i \in w[p] : i.market \in F
  BY DEF OneHolder
<1>b. \A n \in F : \E p \in Request : n \in q[p] \/ \E i \in w[p] : i.market = n
  BY DEF OneHolder
<1>c. \A p, s \in Request : \A n \in q[p] : n \in q[s] => p = s
  BY DEF OneHolder
<1>d. \A p, s \in Request : \A i \in w[p], l \in w[s] : i.market = l.market => p = s /\ i = l
  BY DEF OneHolder
<1>e. \A p, s \in Request : \A i \in w[p] : i.market \notin q[s]
  BY DEF OneHolder
<1> DEFINE ww == [w EXCEPT ![r] = @ \ {j}]
<1>1. \A p \in Request : ww[p] = (IF p = r THEN w[p] \ {j} ELSE w[p])
  OBVIOUS
<1> HIDE DEF ww
<1>2. \A p \in Request : \A i \in ww[p] : i \in w[p] /\ i # j
  <2>1. \A p \in Request \ {r} : j \notin w[p]
    BY <1>d
  <2> QED
    BY <2>1, <1>1
<1>3. \A p \in Request : q[p] \subseteq F \ {j.market}
  BY <1>a, <1>e
<1>4. \A p \in Request : \A i \in ww[p] : i.market \in F \ {j.market}
  BY <1>2, <1>a, <1>d
<1>5. ASSUME NEW n \in F \ {j.market} PROVE \E p \in Request : n \in q[p] \/ \E i \in ww[p] : i.market = n
  <2>1. PICK p \in Request : n \in q[p] \/ \E i \in w[p] : i.market = n
    BY <1>b
  <2>2. CASE n \in q[p]
    BY <2>2
  <2>3. CASE \E i \in w[p] : i.market = n
    <3>1. PICK i \in w[p] : i.market = n
      BY <2>3
    <3>2. i \in ww[p]
      BY <3>1, <1>1
    <3> QED
      BY <3>1, <3>2
  <2> QED
    BY <2>1, <2>2, <2>3
<1>6. \A p, s \in Request : \A i \in ww[p], l \in ww[s] : i.market = l.market => p = s /\ i = l
  BY <1>2, <1>d
<1>7. \A p, s \in Request : \A i \in ww[p] : i.market \notin q[s]
  BY <1>2, <1>e
<1> QED
  BY <1>3, <1>4, <1>5, <1>6, <1>7, <1>c, HolderIf DEF ww

LEMMA HolderQueued ==
  ASSUME NEW q, NEW w, NEW F, OneHolder(q, w, F), NEW r \in Request, q[r] = {},
         q = [p \in Request |-> q[p]], NEW A, A \cap F = {}
  PROVE  OneHolder([q EXCEPT ![r] = A], w, F \cup A)
<1>a. \A p \in Request : q[p] \subseteq F /\ \A i \in w[p] : i.market \in F
  BY DEF OneHolder
<1>b. \A n \in F : \E p \in Request : n \in q[p] \/ \E i \in w[p] : i.market = n
  BY DEF OneHolder
<1>c. \A p, s \in Request : \A n \in q[p] : n \in q[s] => p = s
  BY DEF OneHolder
<1>d. \A p, s \in Request : \A i \in w[p], l \in w[s] : i.market = l.market => p = s /\ i = l
  BY DEF OneHolder
<1>e. \A p, s \in Request : \A i \in w[p] : i.market \notin q[s]
  BY DEF OneHolder
<1> DEFINE qq == [q EXCEPT ![r] = A]
<1>1. \A p \in Request : qq[p] = (IF p = r THEN A ELSE q[p])
  OBVIOUS
<1> HIDE DEF qq
<1>2. \A p \in Request : qq[p] \subseteq F \cup A
  BY <1>1, <1>a
<1>3. \A p \in Request : \A i \in w[p] : i.market \in F \cup A
  BY <1>a
<1>4. ASSUME NEW n \in F \cup A PROVE \E p \in Request : n \in qq[p] \/ \E i \in w[p] : i.market = n
  <2>1. CASE n \in A
    BY <2>1, <1>1
  <2>2. CASE n \in F
    <3>1. PICK p \in Request : n \in q[p] \/ \E i \in w[p] : i.market = n
      BY <2>2, <1>b
    <3> QED
      BY <3>1, <1>1
  <2> QED
    BY <2>1, <2>2
<1>5. \A p, s \in Request : \A n \in qq[p] : n \in qq[s] => p = s
  <2>1. \A p \in Request \ {r} : \A n \in A : n \notin q[p]
    BY <1>a
  <2> QED
    BY <2>1, <1>1, <1>c
<1>6. \A p, s \in Request : \A i \in w[p] : i.market \notin qq[s]
  <2>1. \A p \in Request : \A i \in w[p] : i.market \notin A
    BY <1>a
  <2> QED
    BY <2>1, <1>1, <1>e
<1> QED
  BY <1>2, <1>3, <1>4, <1>5, <1>6, <1>d, HolderIf DEF qq

WarmUp(r) == <<r, "warm">>
Waiting == [r \in Request |-> Elements(todo[WarmUp(r)])]
Working == [r \in Request |-> work[WarmUp(r)]]

FlightInv ==
  /\ S!TypeOK
  /\ DOMAIN status = S!Batch
  /\ todo = [b \in S!Batch |-> todo[b]] /\ \A b \in S!Batch : ListOf(todo[b])
  /\ work = [b \in S!Batch |-> work[b]]
  /\ deferred = [r \in Request |-> deferred[r]] /\ \A r \in Request : ListOf(deferred[r])
  /\ \A r \in Request :
       /\ status[List(r)] \in {"idle", "running"} => status[WarmUp(r)] = "idle"
       /\ status[WarmUp(r)] = "idle" => todo[WarmUp(r)] = <<>>
  /\ OneHolder(Waiting, Working, inFlight)

LEMMA WarmIsBatch ==
  ASSUME NEW r \in Request
  PROVE  /\ WarmUp(r) \in S!Batch /\ S!IsWarmup(WarmUp(r))
         /\ List(r) \in S!Batch /\ ~S!IsWarmup(List(r))
         /\ \A p \in Request : WarmUp(r) # List(p)
         /\ \A p \in Request : WarmUp(r) = WarmUp(p) => r = p
         /\ \A p \in Request : List(r) = List(p) => r = p
BY DEF List, WarmUp, S!Batch, S!IsWarmup

LEMMA BatchIsOne ==
  ASSUME NEW b \in S!Batch
  PROVE  \E r \in Request : b = List(r) \/ b = WarmUp(r)
BY DEF S!Batch, List, WarmUp

LEMMA RangeIsElements ==
  ASSUME NEW s, ListOf(s) PROVE S!Range(s) = Elements(s) /\ S!Range(s) \subseteq Market
BY DEF ListOf, Elements, S!Range

LEMMA HolderCounts ==
  ASSUME FlightInv PROVE S!SlotsKeepTime <=> S!AnsweredInTime
<1> SUFFICES ASSUME NEW m \in Market
             PROVE  S!Cardinality({r \in Request : m \in S!Range(todo[<<r, "warm">>])})
                    + S!Cardinality({p \in Request \X UNION {work[<<r, "warm">>] : r \in Request} :
                                       p[2] \in work[<<p[1], "warm">>] /\ p[2].market = m})
                    = IF m \in inFlight THEN 1 ELSE 0
  BY DEF S!SlotsKeepTime
<1> DEFINE A == {r \in Request : m \in S!Range(todo[<<r, "warm">>])}
           B == {p \in Request \X UNION {work[<<r, "warm">>] : r \in Request} :
                   p[2] \in work[<<p[1], "warm">>] /\ p[2].market = m}
<1>1. \A r \in Request : m \in S!Range(todo[<<r, "warm">>]) <=> m \in Waiting[r]
  BY WarmIsBatch, RangeIsElements DEF FlightInv, Waiting, WarmUp
<1>2. \A r \in Request : Working[r] = work[<<r, "warm">>]
  BY DEF Working, WarmUp
<1>3. OneHolder(Waiting, Working, inFlight)
  BY DEF FlightInv
<1>4. \A r \in Request : r \in A <=> m \in Waiting[r]
  BY <1>1
<1>5. \A p : p \in B <=> \E r \in Request : \E j \in Working[r] : p = <<r, j>> /\ j.market = m
  <2>1. ASSUME NEW p \in B PROVE \E r \in Request : \E j \in Working[r] : p = <<r, j>> /\ j.market = m
    <3>1. p = <<p[1], p[2]>> /\ p[1] \in Request /\ p[2] \in work[<<p[1], "warm">>] /\ p[2].market = m
      OBVIOUS
    <3> QED
      BY <3>1, <1>2
  <2>2. ASSUME NEW p, NEW r \in Request, NEW j \in Working[r], p = <<r, j>>, j.market = m PROVE p \in B
    <3>1. j \in work[<<r, "warm">>]
      BY <1>2
    <3>2. j \in UNION {work[<<s, "warm">>] : s \in Request}
      BY <3>1
    <3> QED
      BY <2>2, <3>1, <3>2
  <2> QED
    BY <2>1, <2>2
<1>6. A \subseteq Request
  OBVIOUS
<1> HIDE DEF A, B
<1>7. S!Cardinality(A) = Cardinality(A) /\ S!Cardinality(B) = Cardinality(B)
  BY SameCardinality
<1>8. Cardinality({}) = 0 /\ \A x : Cardinality({x}) = 1
  BY FS_EmptySet, FS_Singleton
<1>9. CASE m \notin inFlight
  <2>1. A = {} /\ B = {}
    BY <1>3, <1>4, <1>5, <1>6, <1>9 DEF OneHolder
  <2> QED
    <3>1. S!Cardinality(A) = 0 /\ S!Cardinality(B) = 0
      BY <1>7, <1>8, <2>1
    <3> QED
      BY <1>9, <3>1 DEF A, B
<1>10. CASE m \in inFlight
  <2>1. PICK r \in Request : m \in Waiting[r] \/ \E j \in Working[r] : j.market = m
    BY <1>3, <1>10 DEF OneHolder
  <2>2. CASE m \in Waiting[r]
    <3>1. A = {r}
      BY <1>3, <1>4, <1>6, <2>2 DEF OneHolder
    <3>2. B = {}
      BY <1>3, <1>5, <2>2 DEF OneHolder
    <3> QED
      <4>1. S!Cardinality(A) = 1 /\ S!Cardinality(B) = 0
        BY <1>7, <1>8, <3>1, <3>2
      <4> QED
        BY <1>10, <4>1 DEF A, B
  <2>3. CASE \E j \in Working[r] : j.market = m
    <3>1. PICK j \in Working[r] : j.market = m
      BY <2>3
    <3>2. A = {}
      BY <1>3, <1>4, <1>6, <3>1 DEF OneHolder
    <3>3. B = {<<r, j>>}
      <4>1. <<r, j>> \in B
        BY <1>5, <3>1
      <4>2. ASSUME NEW p \in B PROVE p = <<r, j>>
        <5>0. PICK s \in Request : \E k \in Working[s] : p = <<s, k>> /\ k.market = m
          BY <1>5
        <5>1. PICK k \in Working[s] : p = <<s, k>> /\ k.market = m
          BY <5>0
        <5>2. s = r /\ k = j
          BY <1>3, <3>1, <5>1 DEF OneHolder
        <5> QED
          BY <5>1, <5>2
      <4> QED
        BY <4>1, <4>2
    <3> QED
      <4>1. S!Cardinality(A) = 0 /\ S!Cardinality(B) = 1
        BY <1>7, <1>8, <3>2, <3>3
      <4> QED
        BY <1>10, <4>1 DEF A, B
  <2> QED
    BY <2>1, <2>2, <2>3
<1> QED
  BY <1>9, <1>10

(* What a change of one batch's targets, or of its calls, does to those    *)
(* who wait for a warm-up and to the warm-ups' calls.                      *)
LEMMA WaitingChanged ==
  ASSUME FlightInv, NEW b \in S!Batch, NEW s, todo' = [todo EXCEPT ![b] = s]
  PROVE  /\ todo' = [c \in S!Batch |-> todo'[c]]
         /\ \A c \in S!Batch : todo'[c] = IF c = b THEN s ELSE todo[c]
         /\ \A r \in Request : b = List(r) => Waiting' = Waiting
         /\ \A r \in Request : b = WarmUp(r) => Waiting' = [Waiting EXCEPT ![r] = Elements(s)]
<1>1. todo = [c \in S!Batch |-> todo[c]]
  BY DEF FlightInv
<1>2. /\ todo' = [c \in S!Batch |-> todo'[c]]
      /\ \A c \in S!Batch : todo'[c] = IF c = b THEN s ELSE todo[c]
  BY <1>1
<1>3. ASSUME NEW r \in Request, b = List(r) PROVE Waiting' = Waiting
  <2>1. \A p \in Request : todo'[WarmUp(p)] = todo[WarmUp(p)]
    BY <1>2, <1>3, WarmIsBatch
  <2> QED
    BY <2>1 DEF Waiting
<1>4. ASSUME NEW r \in Request, b = WarmUp(r) PROVE Waiting' = [Waiting EXCEPT ![r] = Elements(s)]
  <2>1. \A p \in Request : todo'[WarmUp(p)] = IF p = r THEN s ELSE todo[WarmUp(p)]
    BY <1>2, <1>4, WarmIsBatch
  <2>2. Waiting' = [p \in Request |-> Elements(todo'[WarmUp(p)])]
    BY DEF Waiting
  <2>3. \A p \in Request : Elements(todo'[WarmUp(p)]) = IF p = r THEN Elements(s) ELSE Elements(todo[WarmUp(p)])
    BY <2>1
  <2> QED
    BY <2>2, <2>3 DEF Waiting
<1> QED
  BY <1>2, <1>3, <1>4

LEMMA WorkingChanged ==
  ASSUME FlightInv, NEW b \in S!Batch, NEW A, work' = [work EXCEPT ![b] = A]
  PROVE  /\ work' = [c \in S!Batch |-> work'[c]]
         /\ \A c \in S!Batch : work'[c] = IF c = b THEN A ELSE work[c]
         /\ \A r \in Request : b = List(r) => Working' = Working
         /\ \A r \in Request : b = WarmUp(r) => Working' = [Working EXCEPT ![r] = A]
<1>1. work = [c \in S!Batch |-> work[c]]
  BY DEF FlightInv
<1>2. /\ work' = [c \in S!Batch |-> work'[c]]
      /\ \A c \in S!Batch : work'[c] = IF c = b THEN A ELSE work[c]
  BY <1>1
<1>3. ASSUME NEW r \in Request, b = List(r) PROVE Working' = Working
  <2>1. \A p \in Request : work'[WarmUp(p)] = work[WarmUp(p)]
    BY <1>2, <1>3, WarmIsBatch
  <2> QED
    BY <2>1 DEF Working
<1>4. ASSUME NEW r \in Request, b = WarmUp(r) PROVE Working' = [Working EXCEPT ![r] = A]
  <2>1. \A p \in Request : work'[WarmUp(p)] = IF p = r THEN A ELSE work[WarmUp(p)]
    BY <1>2, <1>4, WarmIsBatch
  <2>2. Working' = [p \in Request |-> work'[WarmUp(p)]]
    BY DEF Working
  <2> QED
    BY <2>1, <2>2 DEF Working
<1> QED
  BY <1>2, <1>3, <1>4

LEMMA HolderIs ==
  ASSUME NEW q, NEW w, NEW F, OneHolder(q, w, F), Waiting' = q, Working' = w, inFlight' = F
  PROVE  OneHolder(Waiting, Working, inFlight)'
BY DEF OneHolder

LEMMA SlotTimes ==
  ASSUME S!SlotAssumption, S!TypeOK
  PROVE  S!Reserved \in Nat /\ S!CoolsUntil \in Nat /\ S!StartAt \in Nat /\ S!CooledDown \in Nat
<1>1. now \in Nat /\ nextStartAt \in Nat /\ cooldownUntil \in Nat /\ Cooldown \in Nat
  BY DEF S!SlotAssumption, S!TypeOK
<1>2. S!Reserved \in Nat
  BY <1>1 DEF S!Reserved
<1> QED
  BY <1>1, <1>2 DEF S!CoolsUntil, S!StartAt, S!CooledDown

LEMMA FlightTakes ==
  ASSUME S!SlotAssumption, FlightInv, NEW b \in S!Batch, S!Takes(b)
  PROVE  FlightInv'
<1> DEFINE m == Head(todo[b])
           j == [market |-> m, pc |-> "sleeping", at |-> S!StartAt]
<1>1. /\ UNCHANGED <<now, graphs, status, dueAt, deferred>>
      /\ status[b] = "running" /\ todo[b] # <<>>
      /\ todo' = [todo EXCEPT ![b] = Tail(todo[b])]
  BY DEF S!Takes, S!CanTake
<1>2. \/ inFlight' = S!LeavesFlight(b, m) /\ work' = work
      \/ inFlight' = inFlight /\ work' = [work EXCEPT ![b] = work[b] \cup {j}]
  BY DEF S!Takes
<1>3. S!TypeOK /\ ListOf(todo[b]) /\ OneHolder(Waiting, Working, inFlight) /\ DOMAIN status = S!Batch
  BY DEF FlightInv
<1>4. /\ ListOf(Tail(todo[b])) /\ m \in Market /\ m \in Elements(todo[b])
      /\ Elements(Tail(todo[b])) = Elements(todo[b]) \ {m}
  BY <1>1, <1>3, RestOfList
<1>5. nextStartAt' \in Nat /\ cooldownUntil' \in Nat
  <2>1. \A late \in 0 .. Jitter : S!StartAt + MinInterval + late \in Nat
    BY <1>3, SlotTimes DEF S!SlotAssumption
  <2> QED
    BY <1>3, <2>1, SlotTimes DEF S!Takes, S!slot, S!TypeOK
<1>6. j \in S!Job
  BY <1>3, <1>4, SlotTimes DEF S!Job
<1> HIDE DEF m, j
<1>7. /\ todo' = [c \in S!Batch |-> todo'[c]]
      /\ \A c \in S!Batch : todo'[c] = IF c = b THEN Tail(todo[b]) ELSE todo[c]
      /\ \A r \in Request : b = List(r) => Waiting' = Waiting
      /\ \A r \in Request : b = WarmUp(r) => Waiting' = [Waiting EXCEPT ![r] = Elements(Tail(todo[b]))]
  BY <1>1, WaitingChanged
<1>8. /\ work' = [c \in S!Batch |-> work'[c]]
      /\ \A c \in S!Batch : work'[c] \subseteq S!Job
  <2>1. CASE work' = work
    BY <2>1, <1>3 DEF FlightInv, S!TypeOK
  <2>2. CASE work' = [work EXCEPT ![b] = work[b] \cup {j}]
    <3>1. /\ work' = [c \in S!Batch |-> work'[c]]
          /\ \A c \in S!Batch : work'[c] = IF c = b THEN work[b] \cup {j} ELSE work[c]
      BY <2>2, WorkingChanged
    <3> QED
      BY <3>1, <1>3, <1>6 DEF S!TypeOK
  <2> QED
    BY <1>2, <2>1, <2>2
<1>9. OneHolder(Waiting, Working, inFlight)' /\ inFlight' \subseteq Market
  <2>1. PICK r \in Request : b = List(r) \/ b = WarmUp(r)
    BY BatchIsOne
  <2>2. CASE b = List(r)
    <3>1. Waiting' = Waiting /\ inFlight' = inFlight
      BY <1>2, <1>7, <2>2, WarmIsBatch DEF S!LeavesFlight
    <3>2. Working' = Working
      <4>1. CASE work' = work
        BY <4>1 DEF Working
      <4>2. CASE work' = [work EXCEPT ![b] = work[b] \cup {j}]
        BY <4>2, <2>2, WorkingChanged
      <4> QED
        BY <1>2, <4>1, <4>2
    <3> QED
      BY <1>3, <3>1, <3>2 DEF S!TypeOK, OneHolder
  <2>3. CASE b = WarmUp(r)
    <3>1. Waiting[r] = Elements(todo[b]) /\ m \in Waiting[r]
      BY <2>3, <1>4 DEF Waiting
    <3>2. Waiting' = [Waiting EXCEPT ![r] = @ \ {m}]
      BY <1>4, <1>7, <2>3, <3>1
    <3>3. Waiting = [p \in Request |-> Waiting[p]] /\ Working = [p \in Request |-> Working[p]]
      BY DEF Waiting, Working
    <3>4. CASE inFlight' = S!LeavesFlight(b, m) /\ work' = work
      <4>1. inFlight' = inFlight \ {m} /\ Working' = Working
        BY <3>4, <2>3, WarmIsBatch DEF S!LeavesFlight, Working
      <4>2. OneHolder([Waiting EXCEPT ![r] = @ \ {m}], Working, inFlight \ {m})
        BY <1>3, <3>1, <3>3, HolderRefused
      <4> QED
        BY <4>1, <4>2, <3>2, <1>3 DEF S!TypeOK, OneHolder
    <3>5. CASE inFlight' = inFlight /\ work' = [work EXCEPT ![b] = work[b] \cup {j}]
      <4>1. Working' = [Working EXCEPT ![r] = work[b] \cup {j}]
        BY <3>5, <2>3, WorkingChanged
      <4>2. Working' = [Working EXCEPT ![r] = @ \cup {j}]
        BY <4>1, <2>3 DEF Working
      <4>3. j.market = m
        BY DEF j
      <4>4. OneHolder([Waiting EXCEPT ![r] = @ \ {m}], [Working EXCEPT ![r] = @ \cup {j}], inFlight)
        BY <1>3, <3>1, <3>3, <4>3, HolderTakes
      <4> QED
        BY <4>2, <4>4, <3>2, <3>5, <1>3 DEF S!TypeOK, OneHolder
    <3> QED
      BY <1>2, <3>4, <3>5
  <2> QED
    BY <2>1, <2>2, <2>3
<1>10. \A c \in S!Batch : ListOf(todo'[c])
  BY <1>4, <1>7 DEF FlightInv
<1>11. \A r \in Request : status[WarmUp(r)] = "idle" => todo'[WarmUp(r)] = <<>>
  BY <1>1, <1>7, WarmIsBatch DEF FlightInv
<1>12. S!TypeOK'
  BY <1>1, <1>3, <1>5, <1>8, <1>9, <1>10, RangeIsElements DEF S!TypeOK
<1> QED
  BY <1>1, <1>3, <1>7, <1>8, <1>9, <1>10, <1>11, <1>12 DEF FlightInv, ListOf, Distinct

LEMMA FlightCalls ==
  ASSUME S!SlotAssumption, FlightInv, NEW b \in S!Batch, S!Calls(b)
  PROVE  FlightInv'
<1>1. PICK j \in work[b] :
        /\ work' = [work EXCEPT ![b] = (work[b] \ {j}) \cup {[j EXCEPT !.pc = "calling", !.at = now]}]
        /\ UNCHANGED <<now, nextStartAt, cooldownUntil, graphs, inFlight, status, dueAt, todo, deferred>>
  BY DEF S!Calls, S!slot
<1>2. S!TypeOK /\ OneHolder(Waiting, Working, inFlight) /\ j \in S!Job
  BY DEF FlightInv, S!TypeOK
<1> DEFINE first == [j EXCEPT !.pc = "calling"]
           k == [first EXCEPT !.at = now]
<1>3. first \in S!Job /\ first.market = j.market
  BY <1>2 DEF S!Job
<1> HIDE DEF first
<1>4. k \in S!Job /\ k.market = j.market
  <2>1. now \in Nat
    BY <1>2 DEF S!TypeOK, S!SlotAssumption
  <2> QED
    BY <1>3, <2>1 DEF S!Job
<1>5. work' = [work EXCEPT ![b] = (work[b] \ {j}) \cup {k}]
  BY <1>1 DEF first
<1> HIDE DEF k
<1>6. /\ work' = [c \in S!Batch |-> work'[c]]
      /\ \A c \in S!Batch : work'[c] = IF c = b THEN (work[b] \ {j}) \cup {k} ELSE work[c]
      /\ \A r \in Request : b = List(r) => Working' = Working
      /\ \A r \in Request : b = WarmUp(r) => Working' = [Working EXCEPT ![r] = (work[b] \ {j}) \cup {k}]
  BY <1>5, WorkingChanged
<1>7. Waiting' = Waiting
  BY <1>1 DEF Waiting
<1>8. OneHolder(Waiting, Working, inFlight)'
  <2>1. PICK r \in Request : b = List(r) \/ b = WarmUp(r)
    BY BatchIsOne
  <2>2. CASE b = List(r)
    BY <2>2, <1>1, <1>2, <1>6, <1>7 DEF OneHolder
  <2>3. CASE b = WarmUp(r)
    <3>1. Working[r] = work[b] /\ Working = [p \in Request |-> Working[p]]
      BY <2>3 DEF Working
    <3>2. OneHolder(Waiting, [Working EXCEPT ![r] = (@ \ {j}) \cup {k}], inFlight)
      BY <1>2, <1>4, <3>1, HolderCalls
    <3> QED
      BY <3>1, <3>2, <2>3, <1>1, <1>6, <1>7, HolderIs
  <2> QED
    BY <2>1, <2>2, <2>3
<1>9. S!TypeOK'
  <2>1. \A c \in S!Batch : work'[c] \subseteq S!Job
    BY <1>2, <1>4, <1>6 DEF S!TypeOK
  <2> QED
    BY <1>1, <1>2, <2>1 DEF S!TypeOK
<1> QED
  BY <1>1, <1>6, <1>8, <1>9, ZenonT(60) DEF FlightInv, ListOf, Distinct

LEMMA FlightCallEnds ==
  ASSUME S!SlotAssumption, FlightInv, NEW b \in S!Batch, S!CallEnds(b)
  PROVE  FlightInv'
<1>1. PICK j \in work[b] :
        /\ work' = [work EXCEPT ![b] = work[b] \ {j}]
        /\ inFlight' = S!LeavesFlight(b, j.market)
        /\ cooldownUntil' \in {S!CooledDown, cooldownUntil}
        /\ graphs' \in {graphs, graphs \cup {j.market}}
        /\ UNCHANGED <<now, nextStartAt, status, dueAt, todo, deferred>>
  BY DEF S!CallEnds
<1>2. S!TypeOK /\ OneHolder(Waiting, Working, inFlight) /\ j \in S!Job /\ j.market \in Market
  BY DEF FlightInv, S!TypeOK, S!Job
<1>3. /\ work' = [c \in S!Batch |-> work'[c]]
      /\ \A c \in S!Batch : work'[c] = IF c = b THEN work[b] \ {j} ELSE work[c]
      /\ \A r \in Request : b = List(r) => Working' = Working
      /\ \A r \in Request : b = WarmUp(r) => Working' = [Working EXCEPT ![r] = work[b] \ {j}]
  BY <1>1, WorkingChanged
<1>4. Waiting' = Waiting
  BY <1>1 DEF Waiting
<1>5. OneHolder(Waiting, Working, inFlight)' /\ inFlight' \subseteq inFlight
  <2>1. PICK r \in Request : b = List(r) \/ b = WarmUp(r)
    BY BatchIsOne
  <2>2. CASE b = List(r)
    BY <2>2, <1>1, <1>2, <1>3, <1>4, WarmIsBatch DEF OneHolder, S!LeavesFlight
  <2>3. CASE b = WarmUp(r)
    <3>1. Working[r] = work[b] /\ Working = [p \in Request |-> Working[p]]
      BY <2>3 DEF Working
    <3>2. OneHolder(Waiting, [Working EXCEPT ![r] = @ \ {j}], inFlight \ {j.market})
      BY <1>2, <3>1, HolderEnds
    <3>3. inFlight' = inFlight \ {j.market}
      BY <1>1, <2>3, WarmIsBatch DEF S!LeavesFlight
    <3>4. OneHolder(Waiting, Working, inFlight)'
      BY <3>1, <3>2, <3>3, <2>3, <1>3, <1>4, HolderIs
    <3> QED
      BY <3>3, <3>4
  <2> QED
    BY <2>1, <2>2, <2>3
<1>6. S!TypeOK'
  BY <1>1, <1>2, <1>3, <1>5, SlotTimes DEF S!TypeOK
<1> QED
  BY <1>1, <1>3, <1>5, <1>6 DEF FlightInv, ListOf, Distinct

LEMMA FlightArrives ==
  ASSUME S!SlotAssumption, FlightInv, NEW r \in Request, S!Arrives(r)
  PROVE  FlightInv'
<1>1. PICK A \in (SUBSET Market) \ {{}} :
        LET targets == S!SetToSeq(A)
            first   == IF Len(targets) < MaxFetches THEN Len(targets) ELSE MaxFetches
        IN /\ status[List(r)] = "idle"
           /\ status' = [status EXCEPT ![List(r)] = "running"]
           /\ todo' = [todo EXCEPT ![List(r)] = SubSeq(targets, 1, first)]
           /\ deferred' = [deferred EXCEPT ![r] = SubSeq(targets, first + 1, Len(targets))]
           /\ UNCHANGED <<now, nextStartAt, cooldownUntil, graphs, inFlight, work>>
  BY DEF S!Arrives, S!slot, List
<1> DEFINE targets == S!SetToSeq(A)
           first   == IF Len(targets) < MaxFetches THEN Len(targets) ELSE MaxFetches
           now1 == SubSeq(targets, 1, first)
           then == SubSeq(targets, first + 1, Len(targets))
<1>2. ListOf(targets)
  BY TargetsOfList
<1>3. first \in Nat /\ Len(targets) \in Nat /\ first <= Len(targets)
  <2>1. Len(targets) \in Nat
    BY <1>2 DEF ListOf
  <2> QED
    BY <2>1 DEF S!SlotAssumption
<1>4. /\ status[List(r)] = "idle"
      /\ status' = [status EXCEPT ![List(r)] = "running"]
      /\ todo' = [todo EXCEPT ![List(r)] = now1]
      /\ deferred' = [deferred EXCEPT ![r] = then]
      /\ UNCHANGED <<now, nextStartAt, cooldownUntil, graphs, inFlight, work>>
  BY <1>1
<1> HIDE DEF targets, first
<1>5. ListOf(now1)
  BY <1>2, <1>3, PartOfList
<1>6. ListOf(then)
  BY <1>2, <1>3, PartOfList
<1> HIDE DEF now1, then
<1>7. /\ todo' = [c \in S!Batch |-> todo'[c]]
      /\ \A c \in S!Batch : todo'[c] = IF c = List(r) THEN now1 ELSE todo[c]
      /\ Waiting' = Waiting
  BY <1>4, WarmIsBatch, WaitingChanged
<1>8. Working' = Working
  BY <1>4 DEF Working
<1>9. \A c \in S!Batch : ListOf(todo'[c])
  BY <1>5, <1>7 DEF FlightInv
<1>10. deferred' = [p \in Request |-> deferred'[p]] /\ \A p \in Request : ListOf(deferred'[p])
  BY <1>4, <1>6 DEF FlightInv
<1>11. S!TypeOK'
  BY <1>4, <1>9, RangeIsElements DEF FlightInv, S!TypeOK
<1>12. /\ DOMAIN status' = S!Batch
       /\ \A p \in Request : /\ status'[List(p)] \in {"idle", "running"} => status'[WarmUp(p)] = "idle"
                             /\ status'[WarmUp(p)] = "idle" => todo'[WarmUp(p)] = <<>>
  BY <1>4, <1>7, WarmIsBatch DEF FlightInv
<1>13. OneHolder(Waiting, Working, inFlight)'
  BY <1>4, <1>7, <1>8, HolderIs DEF FlightInv
<1> QED
  BY <1>4, <1>7, <1>9, <1>10, <1>11, <1>12, <1>13 DEF FlightInv, ListOf, Distinct

LEMMA FlightAnswers ==
  ASSUME S!SlotAssumption, FlightInv, NEW r \in Request, S!Answers(r)
  PROVE  FlightInv'
<1> DEFINE K == {i \in DOMAIN deferred[r] : S!NeedsWarm(deferred[r][i])}
           need == S!Where(deferred[r], K)
<1>1. /\ status[List(r)] = "running"
      /\ UNCHANGED <<now, nextStartAt, cooldownUntil, graphs, work, deferred>>
      /\ \/ /\ need = <<>>
            /\ status' = [status EXCEPT ![List(r)] = "ended", ![WarmUp(r)] = "ended"]
            /\ UNCHANGED <<todo, inFlight>>
         \/ /\ status' = [status EXCEPT ![List(r)] = "ended", ![WarmUp(r)] = "scheduled"]
            /\ todo' = [todo EXCEPT ![WarmUp(r)] = need]
            /\ inFlight' = inFlight \cup S!Range(need)
  BY DEF S!Answers, S!Finished, S!slot, List, WarmUp
<1>2. /\ ListOf(deferred[r]) /\ OneHolder(Waiting, Working, inFlight)
      /\ status[WarmUp(r)] = "idle" /\ todo[WarmUp(r)] = <<>> /\ DOMAIN status = S!Batch
  BY <1>1 DEF FlightInv
<1>3. ListOf(need) /\ Elements(need) = {deferred[r][i] : i \in K}
  BY <1>2, WhereOfList
<1>4. Elements(need) \cap inFlight = {}
  BY <1>3 DEF S!NeedsWarm
<1> HIDE DEF need
<1>5. S!Range(need) = Elements(need) /\ Elements(need) \subseteq Market
  BY <1>3, RangeIsElements
<1>6. /\ DOMAIN status' = S!Batch
      /\ \A c \in S!Batch : status'[c] = status[c] \/ status'[c] \in {"ended", "scheduled"}
      /\ status'[List(r)] = "ended" /\ status'[WarmUp(r)] # "idle"
  BY <1>1, <1>2, WarmIsBatch
<1>7. Working' = Working
  BY <1>1 DEF Working
<1>8. CASE UNCHANGED <<todo, inFlight>>
  <2>1. Waiting' = Waiting
    BY <1>8 DEF Waiting
  <2>2. S!TypeOK'
    BY <1>1, <1>8 DEF FlightInv, S!TypeOK, S!Range
  <2>3. \A p \in Request : /\ status'[List(p)] \in {"idle", "running"} => status'[WarmUp(p)] = "idle"
                           /\ status'[WarmUp(p)] = "idle" => todo'[WarmUp(p)] = <<>>
    <3> SUFFICES ASSUME NEW p \in Request
                 PROVE  /\ status'[List(p)] \in {"idle", "running"} => status'[WarmUp(p)] = "idle"
                        /\ status'[WarmUp(p)] = "idle" => todo'[WarmUp(p)] = <<>>
      OBVIOUS
    <3>1. CASE p = r
      BY <3>1, <1>6
    <3>2. CASE p # r
      <4>1. status'[List(p)] = status[List(p)] /\ status'[WarmUp(p)] = status[WarmUp(p)]
        BY <3>2, <1>1, <1>2, WarmIsBatch
      <4> QED
        BY <4>1, <1>8 DEF FlightInv
    <3> QED
      BY <3>1, <3>2
  <2>4. OneHolder(Waiting, Working, inFlight)'
    BY <1>2, <1>7, <1>8, <2>1, HolderIs
  <2> QED
    BY <1>1, <1>6, <1>8, <2>2, <2>3, <2>4 DEF FlightInv, ListOf, Distinct
<1>9. CASE todo' = [todo EXCEPT ![WarmUp(r)] = need] /\ inFlight' = inFlight \cup S!Range(need)
  <2>1. /\ todo' = [c \in S!Batch |-> todo'[c]]
        /\ \A c \in S!Batch : todo'[c] = IF c = WarmUp(r) THEN need ELSE todo[c]
        /\ Waiting' = [Waiting EXCEPT ![r] = Elements(need)]
    BY <1>9, WarmIsBatch, WaitingChanged
  <2>2. Waiting[r] = {} /\ Waiting = [p \in Request |-> Waiting[p]]
    BY <1>2 DEF Waiting, Elements
  <2>3. OneHolder([Waiting EXCEPT ![r] = Elements(need)], Working, inFlight \cup Elements(need))
    BY <1>2, <1>4, <2>2, HolderQueued
  <2>4. OneHolder(Waiting, Working, inFlight)'
    BY <2>1, <2>3, <1>5, <1>7, <1>9 DEF OneHolder
  <2>5. \A c \in S!Batch : ListOf(todo'[c])
    BY <1>3, <2>1 DEF FlightInv
  <2>6. S!TypeOK'
    BY <1>1, <1>5, <1>9, <2>5, RangeIsElements DEF FlightInv, S!TypeOK
  <2>7. \A p \in Request : /\ status'[List(p)] \in {"idle", "running"} => status'[WarmUp(p)] = "idle"
                           /\ status'[WarmUp(p)] = "idle" => todo'[WarmUp(p)] = <<>>
    <3> SUFFICES ASSUME NEW p \in Request
                 PROVE  /\ status'[List(p)] \in {"idle", "running"} => status'[WarmUp(p)] = "idle"
                        /\ status'[WarmUp(p)] = "idle" => todo'[WarmUp(p)] = <<>>
      OBVIOUS
    <3>1. CASE p = r
      BY <3>1, <1>6
    <3>2. CASE p # r
      <4>1. /\ status'[List(p)] = status[List(p)] /\ status'[WarmUp(p)] = status[WarmUp(p)]
            /\ todo'[WarmUp(p)] = todo[WarmUp(p)]
        BY <3>2, <1>1, <1>2, <2>1, WarmIsBatch
      <4> QED
        BY <4>1 DEF FlightInv
    <3> QED
      BY <3>1, <3>2
  <2> QED
    BY <1>1, <1>6, <2>1, <2>4, <2>5, <2>6, <2>7 DEF FlightInv, ListOf, Distinct
<1> QED
  BY <1>1, <1>8, <1>9

LEMMA FlightStarts ==
  ASSUME FlightInv, NEW r \in Request, S!WarmupStarts(r) \/ S!WarmupEnds(r)
  PROVE  FlightInv'
<1>1. /\ UNCHANGED <<now, nextStartAt, cooldownUntil, graphs, inFlight, dueAt, todo, work, deferred>>
      /\ status[WarmUp(r)] \in {"scheduled", "running"}
      /\ \/ status' = [status EXCEPT ![WarmUp(r)] = "running"]
         \/ status' = [status EXCEPT ![WarmUp(r)] = "ended"]
  BY DEF S!WarmupStarts, S!WarmupEnds, S!Finished, S!slot, WarmUp
<1>2. S!TypeOK'
  BY <1>1 DEF FlightInv, S!TypeOK, S!Range
<1>3. Waiting' = Waiting /\ Working' = Working
  BY <1>1 DEF Waiting, Working
<1>4. DOMAIN status' = S!Batch /\ \A c \in S!Batch : c # WarmUp(r) => status'[c] = status[c]
  BY <1>1 DEF FlightInv
<1>5. status'[WarmUp(r)] # "idle" /\ status[List(r)] \notin {"idle", "running"}
  BY <1>1, WarmIsBatch DEF FlightInv
<1>6. \A p \in Request : /\ status'[List(p)] \in {"idle", "running"} => status'[WarmUp(p)] = "idle"
                         /\ status'[WarmUp(p)] = "idle" => todo'[WarmUp(p)] = <<>>
  BY <1>1, <1>4, <1>5, WarmIsBatch DEF FlightInv
<1>7. OneHolder(Waiting, Working, inFlight)'
  BY <1>1, <1>3, HolderIs DEF FlightInv
<1> QED
  BY <1>1, <1>2, <1>4, <1>6, <1>7 DEF FlightInv, ListOf, Distinct

LEMMA FlightStep ==
  ASSUME S!SlotAssumption, FlightInv, [S!Next]_(S!vars)
  PROVE  FlightInv'
<1>1. CASE /\ UNCHANGED <<nextStartAt, cooldownUntil, inFlight, status, todo, work, deferred>>
           /\ now' \in 0 .. MaxTime /\ graphs' \subseteq Market
  <2>1. S!TypeOK'
    BY <1>1 DEF FlightInv, S!TypeOK, S!Range
  <2>2. Waiting' = Waiting /\ Working' = Working
    BY <1>1 DEF Waiting, Working
  <2>3. OneHolder(Waiting, Working, inFlight)'
    BY <1>1, <2>2, HolderIs DEF FlightInv
  <2> QED
    BY <1>1, <2>1, <2>3 DEF FlightInv, ListOf, Distinct
<1>2. CASE UNCHANGED S!vars
  BY <1>1, <1>2 DEF S!vars, S!slot, FlightInv, S!TypeOK
<1>3. CASE S!GraphExpires
  BY <1>1, <1>3 DEF S!GraphExpires, S!slot, FlightInv, S!TypeOK
<1>4. CASE S!Tick
  <2>1. now \in 0 .. MaxTime /\ now < MaxTime /\ now' = now + 1 /\ graphs' \subseteq Market
    BY <1>4 DEF S!Tick, FlightInv, S!TypeOK
  <2>2. now' \in 0 .. MaxTime
    BY <2>1 DEF S!SlotAssumption
  <2> QED
    BY <1>1, <1>4, <2>1, <2>2 DEF S!Tick, S!slot
<1> QED
  BY <1>2, <1>3, <1>4, FlightTakes, FlightCalls, FlightCallEnds, FlightArrives, FlightAnswers,
     FlightStarts
  DEF S!Next, S!BatchStep, S!RequestStep

LEMMA FlightInit == ASSUME S!SlotAssumption, S!Init PROVE FlightInv
<1>1. \A b \in S!Batch : todo[b] = <<>> /\ work[b] = {} /\ status[b] = "idle"
  BY DEF S!Init
<1>2. ListOf(<<>>) /\ Elements(<<>>) = {}
  BY DEF ListOf, Distinct, Elements
<1>3. \A r \in Request : Waiting[r] = {} /\ Working[r] = {} /\ deferred[r] = <<>>
  BY <1>1, <1>2, WarmIsBatch DEF Waiting, Working, S!Init
<1>4. OneHolder(Waiting, Working, inFlight)
  BY <1>3 DEF OneHolder, S!Init
<1>5. S!TypeOK
  BY <1>1, <1>2, RangeIsElements DEF S!TypeOK, S!Init, S!SlotAssumption
<1> QED
  BY <1>1, <1>2, <1>3, <1>4, <1>5, WarmIsBatch DEF FlightInv, S!Init

(* And sparklineWarmupInFlight is who is being warmed: a key in it has one *)
(* target, in the queue of one warm-up or in one of its calls, and a key   *)
(* that is not in it has none, whatever requests defer the same keys, the  *)
(* slots refuse and the exchange answers.                                  *)
THEOREM SlotsKeepTimeHolds ==
  ASSUME S!SlotAssumption PROVE S!Spec => [](S!TypeOK /\ S!SlotsKeepTime)
<1>1. S!Init => FlightInv
  BY FlightInit
<1>2. FlightInv /\ [S!Next]_(S!vars) => FlightInv'
  BY FlightStep
<1>3. FlightInv /\ S!AnsweredInTime => S!TypeOK /\ S!SlotsKeepTime
  BY HolderCounts DEF FlightInv
<1>4. S!Spec => []S!AnsweredInTime
  BY AnsweredInTimeHolds
<1> QED
  BY <1>1, <1>2, <1>3, <1>4, PTL DEF S!Spec

-----------------------------------------------------------------------------
(* The small graphs themselves (SparklineGraphs).                          *)
CONSTANTS Caller, Mini, Shown, Target, Big, FullTtl, PartialTtl, Usable
VARIABLES flat, fast, lastKnownGood, ring, warming, job, answer

G == INSTANCE SparklineGraphs

OfCandles == {"minutes", "partial", "mini"}
Graphs  == [points : Nat, limit : Nat,
            quality : OfCandles \cup {"none", "live", "prepared"}, upTo : Int]
Entries == [graph : Graphs, expiresAt : Int, staleUntil : Int]
Items   == [source : {"unavailable", "none", "cache", "previous", "ring", "provider",
                      "last_known_good", "preview"},
            quality : OfCandles \cup {"none", "live", "prepared"},
            points : Nat, age : Int, ring : Nat]
Jobs    == [pc : {"idle", "listing", "fetching"}, kind : {"list", "batch", "top"},
            limit : Nat, since : Int, partial : Graphs, row : Items]

(* Candles were fetched by a call that ended in time, and are kept for the *)
(* usable time from then on.                                               *)
CacheInv ==
  /\ now \in Nat /\ flat \in BOOLEAN /\ fast \in Entries /\ lastKnownGood \in Graphs
  /\ fast # G!NoEntry => G!Displayable(fast.graph) /\ lastKnownGood = fast.graph
  /\ fast.graph.quality \in OfCandles =>
       fast.staleUntil <= fast.graph.upTo + Timeout + Usable

NotTooOld(a) ==
  a.quality \in OfCandles /\ a.source # "previous" => a.age <= Usable + Timeout

(* What a caller keeps in reserve is of the ring buffer, and the row it    *)
(* would be given is young enough.                                         *)
JobSound(j, t) ==
  /\ j \in Jobs
  /\ j.pc = "fetching" => j.since <= t /\ t <= j.since + Timeout
  /\ j.partial.quality \notin OfCandles
  /\ NotTooOld(j.row)

GraphInv ==
  /\ CacheInv
  /\ ring \in [points : 0..Big, at : Int] /\ warming \in BOOLEAN
  /\ job \in [Caller -> Jobs] /\ \A c \in Caller : JobSound(job[c], now)
  /\ answer \in Items /\ NotTooOld(answer)

LEMMA NothingTyped ==
  ASSUME G!GraphAssumption
  PROVE  /\ {Mini, Shown, Target, Big, FullTtl, PartialTtl, Usable, Timeout} \subseteq Nat
         /\ G!NoGraph \in Graphs /\ G!NoGraph.quality = "none"
         /\ G!NoEntry \in Entries /\ G!NoEntry.graph = G!NoGraph
         /\ G!Unavailable \in Items /\ G!Unavailable.quality = "none"
         /\ G!NoAnswer \in Items /\ G!NoAnswer.quality = "none"
         /\ G!NoJob \in Jobs /\ G!NoJob.pc = "idle" /\ G!NoJob.kind = "list"
         /\ G!NoJob.partial = G!NoGraph /\ G!NoJob.row = G!NoAnswer
BY DEF G!GraphAssumption, G!NoGraph, G!NoEntry, G!Unavailable, G!NoAnswer, G!NoJob,
   Graphs, Entries, Items, Jobs, OfCandles

LEMMA KeptFacts ==
  ASSUME G!GraphAssumption, GraphInv
  PROVE  /\ G!Kept \in {fast, G!NoEntry}
         /\ G!Kept # G!NoEntry => G!Kept = fast /\ now < fast.staleUntil
BY DEF G!Kept, GraphInv, CacheInv, Entries

LEMMA RingFacts ==
  ASSUME G!GraphAssumption, GraphInv, NEW limit \in Nat
  PROVE  G!RingGraph(limit) \in Graphs /\ G!RingGraph(limit).quality \notin OfCandles
<1>1. ring.points \in Nat /\ ring.at \in Int
  BY NothingTyped DEF GraphInv
<1> QED
  BY <1>1, NothingTyped DEF G!RingGraph, Graphs, OfCandles

LEMMA ProviderFacts ==
  ASSUME NEW points \in Nat, NEW limit \in Nat, NEW upTo \in Int
  PROVE  /\ G!ProviderGraph(points, limit, upTo) \in Graphs
         /\ G!ProviderGraph(points, limit, upTo).upTo = upTo
BY DEF G!ProviderGraph, Graphs, OfCandles

LEMMA AnsweredFacts ==
  ASSUME G!GraphAssumption, GraphInv, NEW g \in Graphs,
         NEW source \in {"cache", "previous", "ring", "provider", "last_known_good",
                         "preview"},
         g.quality \in OfCandles /\ source # "previous" => now - g.upTo <= Usable + Timeout
  PROVE  G!Answered(source, g) \in Items /\ NotTooOld(G!Answered(source, g))
<1>1. ring.points \in Nat /\ now \in Nat
  BY NothingTyped DEF GraphInv, CacheInv
<1> QED
  BY <1>1 DEF G!Answered, Items, Graphs, NotTooOld

(* A graph of candles that is in time is kept no longer than it may be.    *)
LEMMA WritesStep ==
  ASSUME G!GraphAssumption, GraphInv, NEW entry \in {fast, G!NoEntry}, NEW g \in Graphs,
         g.quality \in OfCandles => now <= g.upTo + Timeout,
         G!Writes(entry, g), now' = now, flat' = flat
  PROVE  CacheInv'
<1> DEFINE e == [graph |-> g, staleUntil |-> now + Usable,
                 expiresAt |-> now + IF g.points >= g.limit THEN FullTtl ELSE PartialTtl]
<1>1. \/ G!Displayable(g) /\ fast' = e /\ lastKnownGood' = g
      \/ fast' = entry /\ lastKnownGood' = lastKnownGood
  BY DEF G!Writes
<1>2. CASE G!Displayable(g) /\ fast' = e /\ lastKnownGood' = g
  <2>1. /\ e \in Entries /\ e.graph = g /\ e.staleUntil = now + Usable
    BY NothingTyped DEF Entries, GraphInv, CacheInv
  <2>2. g.quality \in OfCandles => now + Usable <= g.upTo + Timeout + Usable
    BY NothingTyped DEF GraphInv, CacheInv, Graphs
  <2>3. G!Displayable(g)'
    BY <1>2 DEF G!Displayable
  <2> HIDE DEF e
  <2> QED
    BY <1>2, <2>1, <2>2, <2>3 DEF GraphInv, CacheInv, G!Displayable
<1>3. CASE fast' = entry /\ lastKnownGood' = lastKnownGood
  BY <1>3, NothingTyped DEF GraphInv, CacheInv, G!Displayable, OfCandles
<1> QED
  BY <1>1, <1>2, <1>3

(* What a step must show when one caller moves on.                         *)
LEMMA OneCaller ==
  ASSUME G!GraphAssumption, GraphInv, NEW c \in Caller, NEW j, JobSound(j, now),
         job' = [job EXCEPT ![c] = j], now' = now, CacheInv',
         ring' \in [points : 0..Big, at : Int], warming' \in BOOLEAN,
         answer' \in Items, NotTooOld(answer')
  PROVE  GraphInv'
<1>1. j \in Jobs
  BY DEF JobSound
<1>2. \A d \in Caller : JobSound(job'[d], now')
  BY DEF GraphInv
<1> QED
  BY <1>1, <1>2 DEF GraphInv, NotTooOld

LEMMA NoJobSound ==
  ASSUME G!GraphAssumption PROVE JobSound(G!NoJob, now)
BY NothingTyped DEF JobSound, NotTooOld, OfCandles

LEMMA SampledTyped ==
  ASSUME G!GraphAssumption, GraphInv PROVE G!Sampled \in [points : 0..Big, at : Int]
BY NothingTyped DEF GraphInv, CacheInv, G!Sampled

LEMMA NoAnswerSound ==
  ASSUME G!GraphAssumption
  PROVE  /\ G!NoAnswer \in Items /\ NotTooOld(G!NoAnswer)
         /\ G!Unavailable \in Items /\ NotTooOld(G!Unavailable)
BY NothingTyped DEF NotTooOld, OfCandles

(* An entry that is still kept is of candles that are young enough.        *)
LEMMA KeptIsYoung ==
  ASSUME G!GraphAssumption, GraphInv, G!Kept # G!NoEntry,
         G!Kept.graph.quality \in OfCandles
  PROVE  now - G!Kept.graph.upTo <= Usable + Timeout
<1>1. /\ G!Kept = fast /\ now < fast.staleUntil
      /\ fast.staleUntil <= fast.graph.upTo + Timeout + Usable
  BY KeptFacts DEF GraphInv, CacheInv
<1>2. fast.staleUntil \in Int /\ fast.graph.upTo \in Int /\ now \in Nat
  BY DEF GraphInv, CacheInv, Entries, Graphs
<1> QED
  BY <1>1, <1>2, NothingTyped

LEMMA KeptStep ==
  ASSUME G!GraphAssumption, GraphInv, fast' = G!Kept,
         UNCHANGED <<now, flat, lastKnownGood>>
  PROVE  CacheInv'
BY KeptFacts, NothingTyped DEF GraphInv, CacheInv, G!Displayable, OfCandles

LEMMA ListAsksStep ==
  ASSUME G!GraphAssumption, GraphInv, NEW c \in Caller, G!ListAsks(c)
  PROVE  GraphInv'
<1> DEFINE row == G!Attached(G!Kept)
           first == [G!NoJob EXCEPT !.pc = "fetching"]
           second == [first EXCEPT !.since = now]
           third == [second EXCEPT !.row = row]
           j == [G!NoJob EXCEPT !.pc = "fetching", !.since = now, !.row = row]
<1>1. /\ ring' = G!Sampled /\ fast' = G!Kept /\ UNCHANGED <<now, flat, lastKnownGood>>
      /\ \/ job' = [job EXCEPT ![c] = j] /\ answer' = G!NoAnswer /\ warming' = warming
         \/ job' = [job EXCEPT ![c] = G!NoJob] /\ answer' = row /\ warming' \in BOOLEAN
  BY DEF G!ListAsks, G!Answers, G!Warms, GraphInv
<1>2. CacheInv'
  BY <1>1, KeptStep
<1>3. row \in Items /\ NotTooOld(row)
  <2>1. CASE G!Kept # G!NoEntry
    <3>1. row = G!Answered("cache", G!Kept.graph) /\ G!Kept.graph \in Graphs
      BY <2>1, KeptFacts DEF G!Attached, GraphInv, CacheInv, Entries
    <3> QED
      BY <2>1, <3>1, KeptIsYoung, AnsweredFacts
  <2>2. CASE G!Kept = G!NoEntry /\ lastKnownGood # G!NoGraph
    <3>1. row = G!Answered("previous", lastKnownGood) /\ lastKnownGood \in Graphs
      BY <2>2 DEF G!Attached, GraphInv, CacheInv
    <3> QED
      BY <3>1, AnsweredFacts
  <2>3. CASE G!Kept = G!NoEntry /\ lastKnownGood = G!NoGraph
    <3>1. row \in {G!Answered("ring", G!RingGraph(Target)), G!Unavailable}
      BY <2>3 DEF G!Attached
    <3> QED
      BY <3>1, RingFacts, AnsweredFacts, NoAnswerSound, NothingTyped
  <2> QED
    BY <2>1, <2>2, <2>3
<1> HIDE DEF row
<1>4. JobSound(j, now)
  <2>1. j = third
    BY NothingTyped DEF Jobs
  <2>2. first \in Jobs /\ first.partial = G!NoGraph
    BY NothingTyped DEF Jobs
  <2> HIDE DEF first
  <2>3. second \in Jobs /\ second.partial = G!NoGraph /\ second.since = now
    BY <2>2 DEF Jobs, GraphInv, CacheInv
  <2> HIDE DEF second
  <2>4. third \in Jobs /\ third.partial = G!NoGraph /\ third.since = now /\ third.row = row
    BY <1>3, <2>3 DEF Jobs
  <2> HIDE DEF third, j
  <2> QED
    BY <1>3, <2>1, <2>4, NothingTyped DEF JobSound, OfCandles, GraphInv, CacheInv
<1> HIDE DEF j
<1>5. ring' \in [points : 0..Big, at : Int]
  BY <1>1, SampledTyped
<1> QED
  BY <1>1, <1>2, <1>3, <1>4, <1>5, NoJobSound, NoAnswerSound, OneCaller DEF GraphInv

LEMMA ListFetchedStep ==
  ASSUME G!GraphAssumption, GraphInv, NEW c \in Caller, G!ListFetched(c)
  PROVE  GraphInv'
<1>1. /\ job[c].pc = "fetching" /\ UNCHANGED <<now, flat, ring, warming>>
      /\ job' = [job EXCEPT ![c] = G!NoJob]
  BY DEF G!ListFetched, G!Answers
<1>2. /\ job[c].since \in Int /\ now \in Nat /\ job[c].since <= now
      /\ now <= job[c].since + Timeout /\ job[c].row \in Items /\ NotTooOld(job[c].row)
  BY <1>1 DEF GraphInv, JobSound, Jobs, CacheInv
<1>3. CacheInv' /\ answer' \in Items /\ NotTooOld(answer')
  <2>1. ASSUME NEW upTo \in {job[c].since, now},
               G!Writes(fast, G!ProviderGraph(Target, Target, upTo)),
               answer' = G!Answered("provider", G!ProviderGraph(Target, Target, upTo))
        PROVE  CacheInv' /\ answer' \in Items /\ NotTooOld(answer')
    <3> DEFINE g == G!ProviderGraph(Target, Target, upTo)
    <3>0. Target \in Nat /\ upTo \in Int /\ now <= upTo + Timeout
      BY <1>2, NothingTyped
    <3>1. g \in Graphs /\ g.upTo = upTo /\ now <= upTo + Timeout /\ upTo \in Int
      BY <3>0, ProviderFacts
    <3>2. now - g.upTo <= Usable + Timeout
      BY <1>2, <3>1, NothingTyped
    <3> HIDE DEF g
    <3>3. CacheInv'
      BY <1>1, <2>1, <3>1, WritesStep DEF g
    <3> QED
      BY <2>1, <3>1, <3>2, <3>3, AnsweredFacts DEF g
  <2>2. ASSUME answer' = job[c].row, UNCHANGED <<fast, lastKnownGood>>
        PROVE  CacheInv' /\ answer' \in Items /\ NotTooOld(answer')
    BY <1>1, <1>2, <2>2 DEF GraphInv, CacheInv, G!Displayable
  <2> QED
    BY <2>1, <2>2 DEF G!ListFetched, G!Answers
<1> QED
  BY <1>1, <1>3, NoJobSound, OneCaller DEF GraphInv

LEMMA BatchAsksStep ==
  ASSUME G!GraphAssumption, GraphInv, NEW c \in Caller,
         G!BatchAsks(c) \/ G!BatchListFails(c)
  PROVE  GraphInv'
<1>1. /\ UNCHANGED <<now, flat, fast, lastKnownGood, warming>> /\ answer' = G!NoAnswer
      /\ ring' \in {G!Sampled, ring}
  BY DEF G!BatchAsks, G!BatchListFails
<1>2. CacheInv'
  BY <1>1 DEF GraphInv, CacheInv, G!Displayable
<1>3. PICK j : job' = [job EXCEPT ![c] = j] /\ JobSound(j, now)
  <2>1. CASE G!BatchAsks(c)
    <3>1. PICK kind \in {"batch", "top"}, limit \in {Target, Big} :
            job' = [job EXCEPT ![c] =
              [G!NoJob EXCEPT !.pc = "listing", !.kind = kind, !.limit = limit]]
      BY <2>1 DEF G!BatchAsks
    <3> DEFINE j == [G!NoJob EXCEPT !.pc = "listing", !.kind = kind, !.limit = limit]
    <3>2. /\ j \in Jobs /\ j.pc = "listing"
          /\ j.partial = G!NoGraph /\ j.row = G!NoAnswer
      BY NothingTyped DEF Jobs
    <3> HIDE DEF j
    <3>3. JobSound(j, now)
      BY <3>2, NothingTyped DEF JobSound, NotTooOld, OfCandles
    <3> QED
      BY <3>1, <3>3 DEF j
  <2>2. CASE G!BatchListFails(c)
    BY <2>2, NoJobSound DEF G!BatchListFails
  <2> QED
    BY <2>1, <2>2
<1> QED
  BY <1>1, <1>2, <1>3, SampledTyped, NoAnswerSound, OneCaller DEF GraphInv

LEMMA BatchReadsStep ==
  ASSUME G!GraphAssumption, GraphInv, NEW c \in Caller, G!BatchReads(c)
  PROVE  GraphInv'
<1> DEFINE prepared == G!RingGraph(job[c].limit)
           first == [job[c] EXCEPT !.pc = "fetching"]
           second == [first EXCEPT !.since = now]
           third == [second EXCEPT !.partial = prepared]
<1>1. UNCHANGED <<now, flat, ring>> /\ warming' \in BOOLEAN
  BY DEF G!BatchReads, G!Warms, GraphInv
<1>2. job[c] \in Jobs /\ JobSound(job[c], now) /\ now \in Nat
  BY DEF GraphInv, CacheInv
<1>3. prepared \in Graphs /\ prepared.quality \notin OfCandles
  BY <1>2, RingFacts DEF Jobs
<1> HIDE DEF prepared
<1>4. CASE /\ G!Displayable(G!Kept.graph)
           /\ G!Answers(c, G!Answered("cache", G!Kept.graph))
           /\ fast' = G!Kept /\ UNCHANGED lastKnownGood
  <2>1. CacheInv'
    BY <1>1, <1>4, KeptStep
  <2>2. G!Kept.graph \in Graphs
    BY KeptFacts, NothingTyped DEF GraphInv, CacheInv, Entries
  <2>3. G!Kept.graph.quality \in OfCandles => now - G!Kept.graph.upTo <= Usable + Timeout
    BY KeptIsYoung, NothingTyped DEF OfCandles
  <2>4. answer' \in Items /\ NotTooOld(answer')
    BY <1>4, <2>2, <2>3, AnsweredFacts DEF G!Answers
  <2>5. job' = [job EXCEPT ![c] = G!NoJob]
    BY <1>4 DEF G!Answers
  <2> QED
    BY <1>1, <2>1, <2>4, <2>5, NoJobSound, OneCaller DEF GraphInv
<1>5. CASE /\ G!Writes(G!Kept, prepared)
           /\ \/ G!Answers(c, G!Answered("ring", prepared))
              \/ G!Answers(c, G!Unavailable)
              \/ /\ job' = [job EXCEPT ![c].pc = "fetching", ![c].since = now,
                                       ![c].partial = prepared]
                 /\ answer' = G!NoAnswer
  <2>1. CacheInv'
    BY <1>1, <1>3, <1>5, KeptFacts, WritesStep
  <2>2. answer' \in Items /\ NotTooOld(answer')
    BY <1>3, <1>5, AnsweredFacts, NoAnswerSound DEF G!Answers
  <2>3. job' = [job EXCEPT ![c] = G!NoJob] \/ job' = [job EXCEPT ![c] = third]
    <3>1. third = [job[c] EXCEPT !.pc = "fetching", !.since = now, !.partial = prepared]
      BY <1>2 DEF Jobs
    <3> HIDE DEF third
    <3>2. [job EXCEPT ![c].pc = "fetching", ![c].since = now, ![c].partial = prepared]
            = [job EXCEPT ![c] = third]
      BY <3>1 DEF GraphInv
    <3> QED
      BY <1>5, <3>2 DEF G!Answers
  <2>4. JobSound(third, now)
    <3>1. first \in Jobs /\ first.row = job[c].row
      BY <1>2 DEF Jobs
    <3> HIDE DEF first
    <3>2. second \in Jobs /\ second.row = job[c].row /\ second.since = now
      BY <1>2, <3>1 DEF Jobs
    <3> HIDE DEF second
    <3>3. third \in Jobs /\ third.row = job[c].row /\ third.since = now
          /\ third.partial = prepared
      BY <1>3, <3>2 DEF Jobs
    <3> HIDE DEF third
    <3> QED
      BY <1>2, <1>3, <3>3, NothingTyped DEF JobSound
  <2> HIDE DEF third
  <2> QED
    BY <1>1, <2>1, <2>2, <2>3, <2>4, NoJobSound, OneCaller DEF GraphInv
<1> QED
  BY <1>4, <1>5 DEF G!BatchReads, prepared

LEMMA BatchFetchedStep ==
  ASSUME G!GraphAssumption, GraphInv, NEW c \in Caller, G!BatchFetched(c)
  PROVE  GraphInv'
<1>1. /\ job[c].pc = "fetching" /\ UNCHANGED <<now, flat, ring>>
      /\ warming' \in BOOLEAN /\ job' = [job EXCEPT ![c] = G!NoJob]
  BY DEF G!BatchFetched, G!WithoutProvider, G!Answers, G!Warms, GraphInv
<1>2. /\ job[c].since \in Int /\ now \in Nat /\ job[c].since <= now
      /\ now <= job[c].since + Timeout /\ job[c].limit \in Nat
      /\ job[c].partial \in Graphs /\ job[c].partial.quality \notin OfCandles
      /\ lastKnownGood \in Graphs
  BY <1>1 DEF GraphInv, JobSound, Jobs, CacheInv
<1>3. ASSUME NEW points \in Mini..job[c].limit, NEW upTo \in {job[c].since, now},
             G!Writes(fast, G!ProviderGraph(points, job[c].limit, upTo)),
             answer' = G!Answered("provider", G!ProviderGraph(points, job[c].limit, upTo))
      PROVE  CacheInv' /\ answer' \in Items /\ NotTooOld(answer')
  <2> DEFINE g == G!ProviderGraph(points, job[c].limit, upTo)
  <2>1. points \in Nat /\ upTo \in Int /\ now <= upTo + Timeout
    BY <1>2, NothingTyped
  <2>2. g \in Graphs /\ g.upTo = upTo
    BY <1>2, <2>1, ProviderFacts
  <2>3. now - g.upTo <= Usable + Timeout
    BY <1>2, <2>1, <2>2, NothingTyped
  <2> HIDE DEF g
  <2>4. CacheInv'
    BY <1>1, <1>3, <2>1, <2>2, WritesStep DEF g
  <2> QED
    BY <1>3, <2>2, <2>3, <2>4, AnsweredFacts DEF g
<1>4. ASSUME NEW timedOut \in BOOLEAN, G!WithoutProvider(c, timedOut),
             UNCHANGED <<fast, lastKnownGood>>
      PROVE  CacheInv' /\ answer' \in Items /\ NotTooOld(answer')
  <2>1. CacheInv'
    BY <1>1, <1>4 DEF GraphInv, CacheInv, G!Displayable
  <2>2. \/ answer' = G!Answered("ring", job[c].partial)
        \/ G!StillGood /\ answer' = G!Answered("last_known_good", lastKnownGood)
        \/ answer' = G!Answered("preview", G!RingGraph(Target))
        \/ answer' = G!Unavailable
    BY <1>4 DEF G!WithoutProvider, G!Answers
  <2>3. G!StillGood => now - lastKnownGood.upTo <= Usable + Timeout
    BY <1>2, NothingTyped DEF G!StillGood, Graphs
  <2>4. Target \in Nat
    BY NothingTyped
  <2> QED
    BY <1>2, <2>1, <2>2, <2>3, <2>4, AnsweredFacts, RingFacts, NoAnswerSound
<1>5. CacheInv' /\ answer' \in Items /\ NotTooOld(answer')
  BY <1>3, <1>4 DEF G!BatchFetched, G!Answers
<1> QED
  BY <1>1, <1>5, NoJobSound, OneCaller DEF GraphInv

LEMMA WarmupEndsStep ==
  ASSUME G!GraphAssumption, GraphInv, G!WarmupEnds
  PROVE  GraphInv'
<1>1. /\ UNCHANGED <<now, flat, ring, job>> /\ warming' = FALSE /\ answer' = G!NoAnswer
      /\ \/ \E points \in Mini..Big : G!Writes(fast, G!ProviderGraph(points, Big, now))
         \/ G!Writes(fast, G!RingGraph(Big))
         \/ UNCHANGED <<fast, lastKnownGood>>
  BY DEF G!WarmupEnds
<1>2. now \in Nat /\ Big \in Nat
  BY NothingTyped DEF GraphInv, CacheInv
<1>3. CacheInv'
  <2>1. ASSUME NEW points \in Mini..Big, G!Writes(fast, G!ProviderGraph(points, Big, now))
        PROVE  CacheInv'
    <3>1. points \in Nat /\ now <= now + Timeout
      BY <1>2, NothingTyped
    <3> QED
      BY <1>1, <1>2, <2>1, <3>1, ProviderFacts, WritesStep
  <2>2. CASE G!Writes(fast, G!RingGraph(Big))
    BY <1>1, <1>2, <2>2, RingFacts, WritesStep
  <2>3. CASE UNCHANGED <<fast, lastKnownGood>>
    BY <1>1, <2>3 DEF GraphInv, CacheInv, G!Displayable
  <2> QED
    BY <1>1, <2>1, <2>2, <2>3
<1> QED
  BY <1>1, <1>3, NoAnswerSound DEF GraphInv, NotTooOld

LEMMA GraphTickStep ==
  ASSUME G!GraphAssumption, GraphInv, G!Tick
  PROVE  GraphInv'
<1>1. /\ now' = now + 1 /\ answer' = G!NoAnswer
      /\ UNCHANGED <<flat, fast, lastKnownGood, ring, warming, job>>
      /\ \A c \in Caller : job[c].pc = "fetching" => now < job[c].since + Timeout
  BY DEF G!Tick
<1>2. CacheInv'
  BY <1>1 DEF GraphInv, CacheInv, G!Displayable
<1>3. ASSUME NEW c \in Caller PROVE JobSound(job'[c], now')
  <2>1. job[c].since \in Int /\ now \in Nat /\ Timeout \in Nat
    BY NothingTyped DEF GraphInv, Jobs, CacheInv
  <2> QED
    BY <1>1, <2>1 DEF GraphInv, JobSound, NotTooOld
<1> QED
  BY <1>1, <1>2, <1>3, NoAnswerSound DEF GraphInv, NotTooOld

LEMMA GraphStarts ==
  ASSUME G!GraphAssumption, G!Init PROVE GraphInv
<1>1. /\ now = 0 /\ flat \in BOOLEAN /\ fast = G!NoEntry /\ lastKnownGood = G!NoGraph
      /\ ring = [points |-> 0, at |-> 0] /\ warming = FALSE
      /\ job = [c \in Caller |-> G!NoJob] /\ answer = G!NoAnswer
  BY DEF G!Init
<1>2. CacheInv
  BY <1>1, NothingTyped DEF CacheInv, OfCandles
<1> QED
  <2>1. job \in [Caller -> Jobs] /\ \A c \in Caller : job[c] = G!NoJob
    BY <1>1, NothingTyped
  <2>2. \A c \in Caller : JobSound(job[c], now)
    BY <2>1, NoJobSound
  <2>3. ring \in [points : 0..Big, at : Int] /\ warming \in BOOLEAN
    <3>1. Big \in Nat
      BY NothingTyped
    <3>2. 0 \in 0..Big /\ 0 \in Int
      BY <3>1
    <3>3. [points |-> 0, at |-> 0] \in [points : 0..Big, at : Int]
      BY <3>2
    <3> QED
      BY <1>1, <3>3
  <2>4. answer \in Items /\ NotTooOld(answer)
    BY <1>1, NoAnswerSound
  <2> QED
    BY <1>2, <2>1, <2>2, <2>3, <2>4 DEF GraphInv

LEMMA GraphStep ==
  ASSUME G!GraphAssumption, GraphInv, [G!Next]_(G!vars)
  PROVE  GraphInv'
<1>1. CASE UNCHANGED G!vars
  BY <1>1 DEF G!vars, GraphInv, CacheInv, G!Displayable, JobSound, NotTooOld
<1> QED
  BY <1>1, ListAsksStep, ListFetchedStep, BatchAsksStep, BatchReadsStep,
     BatchFetchedStep, WarmupEndsStep, GraphTickStep
  DEF G!Next

(* No item of a list or a batch shows candles older than the time a cached *)
(* graph may be used for and the one call that fetched them, whatever calls *)
(* and warm-ups write to the caches meanwhile, and what is cached can be   *)
(* shown and is the last known good graph (writeRealSparklineCache,        *)
(* readCachedSparklineItem), for all times and lengths of a graph.         *)
THEOREM CandlesNotTooOldHolds ==
  ASSUME G!GraphAssumption
  PROVE  G!Spec => [](G!TypeOK /\ G!CandlesNotTooOld)
<1>1. GraphInv => G!TypeOK /\ G!CandlesNotTooOld
  BY DEF GraphInv, CacheInv, NotTooOld, OfCandles, G!TypeOK, G!CandlesNotTooOld
<1>2. GraphInv /\ [G!Next]_(G!vars) => GraphInv'
  BY GraphStep
<1> QED
  BY <1>1, <1>2, GraphStarts, PTL DEF G!Spec
-----------------------------------------------------------------------------
(* The trends (MarketTrends).                                              *)
CONSTANTS Collector, NoAnswer, Value, DayLength, RangeDays, Required, MaxPoints, MaxRestarts
VARIABLES collector, snapshots, history, rows, writes, call, restarts

T == INSTANCE MarketTrends

(* What f says of the elements rises from one to the next.                 *)
Rises(s, f) == \A i, j \in 1 .. Len(s) : i < j => f[s[i]] < f[s[j]]

LEMMA TrendSizes == \A A : T!Cardinality(A) = Cardinality(A)
BY DEF T!Cardinality, T!IsFiniteSet, Cardinality, IsFiniteSet

LEMMA TrendPlaces ==
  ASSUME NEW K \in SUBSET Int, IsFiniteSet(K), NEW key \in [K -> Int]
  PROVE  InOrder(T!InOrder(K, key), K, key)
<1> DEFINE rank(i) == T!Cardinality({j \in K : key[j] < key[i] \/ (key[j] = key[i] /\ j <= i)})
           o == T!InOrder(K, key)
<1>1. \A i \in K : rank(i) = Cardinality(UpTo(K, key, i))
  BY TrendSizes DEF UpTo
<1>2. T!Cardinality(K) = Cardinality(K)
  BY TrendSizes
<1>3. o = [n \in 1 .. T!Cardinality(K) |-> CHOOSE i \in K : rank(i) = n]
  BY DEF T!InOrder
<1> HIDE DEF rank, o
<1>4. ASSUME NEW n \in 1 .. Cardinality(K)
      PROVE  o[n] \in K /\ Cardinality(UpTo(K, key, o[n])) = n
  <2>1. \E i \in K : rank(i) = n
    BY <1>1, RanksCount
  <2>2. (CHOOSE i \in K : rank(i) = n) \in K /\ rank(CHOOSE i \in K : rank(i) = n) = n
    BY <2>1
  <2>3. o[n] = CHOOSE i \in K : rank(i) = n
    BY <1>2, <1>3
  <2>4. o[n] \in K /\ rank(o[n]) = n
    BY <2>2, <2>3
  <2> QED
    BY <1>1, <2>4
<1>5. o = [n \in 1 .. Cardinality(K) |-> o[n]]
  BY <1>2, <1>3
<1> QED
  BY <1>4, <1>5 DEF InOrder, o

LEMMA WhereRises ==
  ASSUME NEW X, NEW s \in Seq(X), NEW f \in [X -> Int], Rises(s, f), NEW K \in SUBSET DOMAIN s
  PROVE  /\ T!Where(s, K) \in Seq(X) /\ Rises(T!Where(s, K), f)
         /\ \A n \in 1 .. Len(T!Where(s, K)) : \E i \in K : T!Where(s, K)[n] = s[i]
<1> DEFINE key == [i \in K |-> i]
           o == T!InOrder(K, key)
           w == T!Where(s, K)
<1>1. K \in SUBSET Int /\ IsFiniteSet(K) /\ key \in [K -> Int]
  <2>1. DOMAIN s = 1 .. Len(s) /\ Len(s) \in Nat
    OBVIOUS
  <2>2. IsFiniteSet(1 .. Len(s))
    BY <2>1, FS_Interval
  <2> QED
    BY <2>1, <2>2, FS_Subset
<1>2. /\ Cardinality(K) \in Nat /\ o \in [1 .. Cardinality(K) -> K]
      /\ \A i, j \in 1 .. Cardinality(K) : i < j => Precedes(key, o[i], o[j])
  BY <1>1, TrendPlaces, InOrderFacts
<1>3. w = [n \in 1 .. Cardinality(K) |-> s[o[n]]]
  <2>2. DOMAIN o = 1 .. Cardinality(K)
    BY <1>2
  <2>3. w = [n \in DOMAIN o |-> s[o[n]]]
    BY DEF T!Where, T!At
  <2> QED
    BY <2>2, <2>3
<1> HIDE DEF o, w
<1>4. \A n \in 1 .. Cardinality(K) : o[n] \in K /\ o[n] \in 1 .. Len(s) /\ w[n] = s[o[n]] /\ s[o[n]] \in X
  BY <1>2, <1>3
<1>5. w \in Seq(X) /\ Len(w) = Cardinality(K)
  <2> DEFINE N == Cardinality(K)
  <2>1. N \in Nat
    BY <1>2
  <2>2. \A n \in 1..N : s[o[n]] \in X
    BY <1>4
  <2>3. w = [n \in 1..N |-> s[o[n]]]
    BY <1>3
  <2> HIDE DEF N
  <2>4. w \in [1..N -> X]
    BY <2>2, <2>3
  <2>5. w \in Seq(X) /\ Len(w) = N
    BY <2>1, <2>4
  <2> QED
    BY <2>5 DEF N
<1>6. Rises(w, f)
  <2> SUFFICES ASSUME NEW i \in 1 .. Cardinality(K), NEW j \in 1 .. Cardinality(K), i < j
               PROVE  f[w[i]] < f[w[j]]
    BY <1>5 DEF Rises
  <2>1. Precedes(key, o[i], o[j])
    BY <1>2
  <2>2. o[i] < o[j]
    BY <2>1, <1>4 DEF Precedes
  <2> QED
    BY <1>4, <2>2 DEF Rises
<1> QED
  BY <1>4, <1>5, <1>6 DEF w

LEMMA SortedRises ==
  ASSUME NEW X, NEW s \in Seq(X), NEW f \in [X -> Int],
         \A i, j \in 1 .. Len(s) : i # j => f[s[i]] # f[s[j]]
  PROVE  LET sorted == T!Sorted(s, [i \in DOMAIN s |-> f[s[i]]])
         IN  sorted \in Seq(X) /\ Rises(sorted, f)
<1> DEFINE K == DOMAIN s
           key == [i \in K |-> f[s[i]]]
           o == T!InOrder(K, key)
           w == T!Sorted(s, key)
<1>1. K \in SUBSET Int /\ IsFiniteSet(K) /\ key \in [K -> Int] /\ K = 1 .. Len(s)
  <2>1. DOMAIN s = 1 .. Len(s) /\ Len(s) \in Nat
    OBVIOUS
  <2> QED
    BY <2>1, FS_Interval
<1>2. /\ Cardinality(K) \in Nat /\ o \in [1 .. Cardinality(K) -> K]
      /\ \A i, j \in 1 .. Cardinality(K) : i < j => Precedes(key, o[i], o[j])
  BY <1>1, TrendPlaces, InOrderFacts
<1>3. w = [n \in 1 .. Cardinality(K) |-> s[o[n]]]
  <2>2. DOMAIN o = 1 .. Cardinality(K)
    BY <1>2
  <2>3. w = [n \in DOMAIN o |-> s[o[n]]]
    BY DEF T!Sorted, T!At
  <2> QED
    BY <2>2, <2>3
<1>3a. \A i \in K : s[i] \in X /\ key[i] = f[s[i]]
  OBVIOUS
<1> HIDE DEF o, w, key, K
<1>4. \A n \in 1 .. Cardinality(K) : o[n] \in K /\ w[n] = s[o[n]] /\ s[o[n]] \in X
  BY <1>2, <1>3, <1>3a
<1>5. w \in Seq(X) /\ Len(w) = Cardinality(K)
  <2>1. Cardinality(K) \in Nat
    BY <1>2
  <2>2. w \in [1 .. Cardinality(K) -> X]
    BY <1>3, <1>4
  <2> QED
    BY <2>1, <2>2
<1>6. Rises(w, f)
  <2> SUFFICES ASSUME NEW i \in 1 .. Cardinality(K), NEW j \in 1 .. Cardinality(K), i < j
               PROVE  f[w[i]] < f[w[j]]
    BY <1>5 DEF Rises
  <2>1. Precedes(key, o[i], o[j]) /\ o[i] \in K /\ o[j] \in K
    BY <1>2, <1>4
  <2>2. key[o[i]] = f[s[o[i]]] /\ key[o[j]] = f[s[o[j]]]
    BY <2>1, <1>3a
  <2>3. f[s[o[i]]] < f[s[o[j]]]
    BY <1>1, <2>1, <2>2 DEF Precedes
  <2> QED
    BY <1>4, <2>3
<1> QED
  BY <1>5, <1>6 DEF w, key, K

LEMMA NewestRises ==
  ASSUME MaxPoints \in Nat, NEW X, NEW s \in Seq(X), NEW f \in [X -> Int], Rises(s, f)
  PROVE  T!Newest(s) \in Seq(X) /\ Rises(T!Newest(s), f)
<1> DEFINE m == IF Len(s) > MaxPoints THEN Len(s) - MaxPoints + 1 ELSE 1
           w == SubSeq(s, m, Len(s))
<1>1. m \in Nat /\ m >= 1 /\ Len(s) \in Nat /\ m <= Len(s) + 1
  OBVIOUS
<1> HIDE DEF m
<1>2. w \in Seq(X) /\ Len(w) = Len(s) - m + 1 /\ \A i \in 1 .. Len(w) : w[i] = s[m + i - 1]
  BY <1>1
<1> HIDE DEF w
<1>3. Rises(w, f)
  <2> SUFFICES ASSUME NEW i \in 1 .. Len(w), NEW j \in 1 .. Len(w), i < j PROVE f[w[i]] < f[w[j]]
    BY DEF Rises
  <2>1. m + i - 1 \in 1 .. Len(s) /\ m + j - 1 \in 1 .. Len(s) /\ m + i - 1 < m + j - 1
    <3>1. i \in 1 .. Len(s) - m + 1 /\ j \in 1 .. Len(s) - m + 1
      BY <1>2
    <3>2. i \in Int /\ j \in Int /\ 1 <= i /\ i <= Len(s) - m + 1 /\ 1 <= j /\ j <= Len(s) - m + 1
      BY <1>1, <3>1
    <3> QED
      BY <1>1, <3>2
  <2>2. w[i] = s[m + i - 1] /\ w[j] = s[m + j - 1]
    BY <1>2
  <2>3. \A a, b \in 1 .. Len(s) : a < b => f[s[a]] < f[s[b]]
    BY DEF Rises
  <2> QED
    BY <2>1, <2>2, <2>3
<1> QED
  BY <1>2, <1>3 DEF w, m, T!Newest

(* An element is put among the others, those of its own value left out.    *)
LEMMA PutRises ==
  ASSUME MaxPoints \in Nat, NEW X, NEW s \in Seq(X), NEW f \in [X -> Int], Rises(s, f), NEW x \in X
  PROVE  LET points == Append(T!Where(s, {i \in DOMAIN s : f[s[i]] # f[x]}), x)
             put == T!Newest(T!Sorted(points, [i \in DOMAIN points |-> f[points[i]]]))
         IN  put \in Seq(X) /\ Rises(put, f)
<1> DEFINE K == {i \in DOMAIN s : f[s[i]] # f[x]}
           others == T!Where(s, K)
           points == Append(others, x)
<1>1. /\ others \in Seq(X) /\ Rises(others, f)
      /\ \A n \in 1 .. Len(others) : \E i \in K : others[n] = s[i]
  <2>1. K \in SUBSET DOMAIN s
    OBVIOUS
  <2> HIDE DEF K
  <2> QED
    BY <2>1, WhereRises
<1>2. \A n \in 1 .. Len(others) : f[others[n]] # f[x]
  BY <1>1
<1> HIDE DEF others
<1>3. points \in Seq(X) /\ \A i, j \in 1 .. Len(points) : i # j => f[points[i]] # f[points[j]]
  <2>1. points \in Seq(X) /\ Len(points) = Len(others) + 1 /\ points[Len(others) + 1] = x
    BY <1>1
  <2>2. \A i \in 1 .. Len(others) : points[i] = others[i] /\ f[others[i]] \in Int
    BY <1>1
  <2>3. \A i, j \in 1 .. Len(others) : i # j => f[others[i]] # f[others[j]]
    BY <1>1, <2>2 DEF Rises
  <2>4. \A i \in 1 .. Len(points) : i \in 1 .. Len(others) \/ i = Len(others) + 1
    BY <1>1, <2>1
  <2> HIDE DEF points
  <2> QED
    BY <1>2, <2>1, <2>2, <2>3, <2>4
<1> HIDE DEF points
<1> DEFINE sorted == T!Sorted(points, [i \in DOMAIN points |-> f[points[i]]])
<1>4. sorted \in Seq(X) /\ Rises(sorted, f)
  BY <1>3, SortedRises
<1> HIDE DEF sorted
<1>5. T!Newest(sorted) \in Seq(X) /\ Rises(T!Newest(sorted), f)
  BY <1>4, NewestRises
<1> QED
  BY <1>5 DEF sorted, points, others

SnapshotTime == [p \in T!Snapshot |-> p.at]
PointDay == [p \in T!Point |-> p.day]
Series(s) == s \in Seq(T!Snapshot) /\ Rises(s, SnapshotTime)
History(s) == s \in Seq(T!Point) /\ Rises(s, PointDay)

(* What a finished call answers is in order; only a history looks at what  *)
(* is stored.                                                              *)
TrendCallOk(j) ==
  /\ j = [kind |-> j.kind, pc |-> j.pc, at |-> j.at, answer |-> j.answer]
  /\ j.kind \in {"none", "dashboard", "series", "history", "collector"}
  /\ j.pc \in {"idle", "before", "fetch", "after", "done"} /\ j.at \in T!Time
  /\ j.pc \in {"before", "after"} => j.kind = "history"
  /\ j.pc = "done" => /\ j.kind = "series" => Series(j.answer)
                      /\ j.kind = "history" => History(j.answer)

TrendInv ==
  /\ collector \in {"off", "checking", "on"}
  /\ Series(snapshots) /\ History(history)
  /\ rows \in [T!Days -> Value] /\ writes \subseteq T!Point
  /\ now \in T!Time
  /\ call = [c \in T!Fetcher |-> call[c]] /\ \A c \in T!Fetcher : TrendCallOk(call[c])

LEMMA Quotient == ASSUME NEW a \in Nat, NEW d \in Nat \ {0} PROVE a \div d \in 0 .. a
OBVIOUS

LEMMA DaysFinite ==
  ASSUME T!TrendsAssumption
  PROVE  T!Days \subseteq Int /\ IsFiniteSet(T!Days) /\ \A at \in T!Time : T!DayOf(at) \in T!Days
<1>1. \A at \in T!Time : T!DayOf(at) \in 0 .. MaxTime
  BY Quotient DEF T!Time, T!DayOf, T!TrendsAssumption
<1>2. T!Days \in SUBSET (0 .. MaxTime)
  BY <1>1 DEF T!Days
<1>3. IsFiniteSet(0 .. MaxTime)
  BY FS_Interval DEF T!TrendsAssumption
<1>4. IsFiniteSet(T!Days)
  BY <1>2, <1>3, FS_Subset
<1>5. \A at \in T!Time : T!DayOf(at) \in T!Days
  BY DEF T!Days
<1> QED
  BY <1>2, <1>4, <1>5

LEMMA FieldsTyped ==
  ASSUME T!TrendsAssumption
  PROVE  SnapshotTime \in [T!Snapshot -> Int] /\ PointDay \in [T!Point -> Int]
BY DaysFinite DEF SnapshotTime, PointDay, T!Snapshot, T!Point, T!Time, T!TrendsAssumption

LEMMA NothingIsInOrder == Series(<<>>) /\ History(<<>>)
BY DEF Series, History, Rises

(* What is remembered is in order, whatever came before it.                *)
LEMMA RememberedInOrder ==
  ASSUME T!TrendsAssumption, Series(snapshots), NEW x \in T!Snapshot
  PROVE  Series(T!Remembered(x))
<1> DEFINE f == SnapshotTime
           K == {i \in DOMAIN snapshots : f[snapshots[i]] # f[x]}
           points == Append(T!Where(snapshots, K), x)
           sorted == T!Sorted(points, [i \in DOMAIN points |-> f[points[i]]])
<1>1. snapshots \in Seq(T!Snapshot) /\ Rises(snapshots, f) /\ f \in [T!Snapshot -> Int] /\ MaxPoints \in Nat
  BY FieldsTyped DEF Series, T!TrendsAssumption
<1>2. T!Newest(sorted) \in Seq(T!Snapshot) /\ Rises(T!Newest(sorted), f)
  BY <1>1, PutRises
<1>3. \A i \in DOMAIN snapshots : f[snapshots[i]] = snapshots[i].at
  BY <1>1 DEF SnapshotTime
<1>4. f[x] = x.at
  BY DEF SnapshotTime
<1>5. K = {i \in DOMAIN snapshots : snapshots[i].at # x.at}
  BY <1>3, <1>4
<1>6. points = Append(T!Others(x), x)
  BY <1>5 DEF T!Others
<1>7. points \in Seq(T!Snapshot)
  <2>1. K \in SUBSET DOMAIN snapshots
    OBVIOUS
  <2> HIDE DEF K, f
  <2>2. T!Where(snapshots, K) \in Seq(T!Snapshot)
    BY <1>1, <2>1, WhereRises
  <2> QED
    BY <2>2
<1> HIDE DEF points
<1>8. [i \in DOMAIN points |-> f[points[i]]] = [i \in DOMAIN points |-> points[i].at]
  BY <1>7 DEF SnapshotTime
<1>9. T!Remembered(x) = snapshots \/ T!Remembered(x) = T!Newest(sorted)
  BY <1>6, <1>8 DEF T!Remembered
<1> QED
  BY <1>1, <1>2, <1>9 DEF Series

LEMMA DatedInOrder ==
  ASSUME T!TrendsAssumption, History(history), NEW x \in T!Point
  PROVE  History(T!Dated(x))
<1> DEFINE f == PointDay
           K == {i \in DOMAIN history : f[history[i]] # f[x]}
           points == Append(T!Where(history, K), x)
           sorted == T!Sorted(points, [i \in DOMAIN points |-> f[points[i]]])
<1>1. history \in Seq(T!Point) /\ Rises(history, f) /\ f \in [T!Point -> Int] /\ MaxPoints \in Nat
  BY FieldsTyped DEF History, T!TrendsAssumption
<1>2. T!Newest(sorted) \in Seq(T!Point) /\ Rises(T!Newest(sorted), f)
  BY <1>1, PutRises
<1>3. \A i \in DOMAIN history : f[history[i]] = history[i].day
  BY <1>1 DEF PointDay
<1>4. f[x] = x.day
  BY DEF PointDay
<1>5. K = {i \in DOMAIN history : history[i].day # x.day}
  BY <1>3, <1>4
<1>6. points = Append(T!Where(history, {i \in DOMAIN history : history[i].day # x.day}), x)
  BY <1>5
<1>7. points \in Seq(T!Point)
  <2>1. K \in SUBSET DOMAIN history
    OBVIOUS
  <2> HIDE DEF K, f
  <2>2. T!Where(history, K) \in Seq(T!Point)
    BY <1>1, <2>1, WhereRises
  <2> QED
    BY <2>2
<1> HIDE DEF points
<1>8. [i \in DOMAIN points |-> f[points[i]]] = [i \in DOMAIN points |-> points[i].day]
  BY <1>7 DEF PointDay
<1>9. T!Dated(x) = T!Newest(sorted)
  BY <1>6, <1>8 DEF T!Dated
<1> QED
  BY <1>1, <1>2, <1>9 DEF History

(* What is read back is in order.                                          *)
LEMMA RowPointsInOrder ==
  ASSUME T!TrendsAssumption, rows \in [T!Days -> Value], NEW at
  PROVE  History(T!RowPoints(at))
<1> DEFINE K == {d \in T!Days : rows[d] # 0 /\ T!Recent(d, at)}
           key == [d \in K |-> d]
           o == T!InOrder(K, key)
           w == T!RowPoints(at)
<1>1. K \in SUBSET Int /\ IsFiniteSet(K) /\ key \in [K -> Int]
  <2>1. K \in SUBSET T!Days
    OBVIOUS
  <2>2. IsFiniteSet(K)
    BY <2>1, DaysFinite, FS_Subset
  <2> QED
    BY <2>1, <2>2, DaysFinite
<1>2. /\ Cardinality(K) \in Nat /\ o \in [1 .. Cardinality(K) -> K]
      /\ \A i, j \in 1 .. Cardinality(K) : i < j => Precedes(key, o[i], o[j])
  BY <1>1, TrendPlaces, InOrderFacts, ZenonT(60)
<1>3. w = [n \in 1 .. Cardinality(K) |-> [day |-> o[n], figures |-> rows[o[n]]]]
  <2>1. w = [n \in DOMAIN o |-> [day |-> o[n], figures |-> rows[o[n]]]]
    BY DEF T!RowPoints
  <2>2. DOMAIN o = 1 .. Cardinality(K)
    BY <1>2
  <2> QED
    BY <2>1, <2>2
<1>4. \A d \in K : d \in T!Days /\ d \in Int /\ key[d] = d /\ rows[d] \in Value
  BY DaysFinite
<1> HIDE DEF K, key, o, w
<1>5. \A n \in 1 .. Cardinality(K) : /\ o[n] \in K /\ w[n] = [day |-> o[n], figures |-> rows[o[n]]]
                                     /\ w[n] \in T!Point /\ w[n].day = o[n]
  BY <1>2, <1>3, <1>4 DEF T!Point
<1>6. w \in Seq(T!Point) /\ Len(w) = Cardinality(K)
  <2>1. w \in [1 .. Cardinality(K) -> T!Point]
    BY <1>3, <1>5
  <2> QED
    BY <1>2, <2>1
<1>7. Rises(w, PointDay)
  <2> SUFFICES ASSUME NEW i \in 1 .. Cardinality(K), NEW j \in 1 .. Cardinality(K), i < j
               PROVE  PointDay[w[i]] < PointDay[w[j]]
    BY <1>6 DEF Rises
  <2>1. Precedes(key, o[i], o[j])
    BY <1>2
  <2>2. o[i] < o[j]
    BY <2>1, <1>4, <1>5 DEF Precedes
  <2>3. PointDay[w[i]] = o[i] /\ PointDay[w[j]] = o[j]
    <3>1. \A p \in T!Point : PointDay[p] = p.day
      BY DEF PointDay
    <3>2. PointDay[w[i]] = w[i].day /\ PointDay[w[j]] = w[j].day
      BY <1>5, <3>1
    <3> QED
      BY <1>5, <3>2
  <2> QED
    BY <2>2, <2>3
<1> QED
  BY <1>6, <1>7 DEF w, History

LEMMA HistoryReadInOrder ==
  ASSUME T!TrendsAssumption, TrendInv, NEW at, NEW points \in T!HistoryRead(at)
  PROVE  History(points) /\ History(T!Shown(points))
<1> DEFINE K == {i \in DOMAIN history : T!Recent(history[i].day, at)}
<1>1. K \in SUBSET DOMAIN history /\ T!InRange(history, at) = T!Where(history, K)
  BY DEF T!InRange
<1> HIDE DEF K
<1>2. history \in Seq(T!Point) /\ Rises(history, PointDay) /\ PointDay \in [T!Point -> Int]
  BY FieldsTyped DEF TrendInv, History
<1>3. History(T!Where(history, K))
  BY <1>1, <1>2, WhereRises DEF History
<1>4. History(T!RowPoints(at))
  BY RowPointsInOrder DEF TrendInv
<1>5. History(points)
  BY <1>1, <1>3, <1>4 DEF T!HistoryRead
<1> QED
  BY <1>5, NothingIsInOrder DEF T!Shown

(* A call that goes on as it should leaves the others as they were.        *)
LEMMA TrendCallsKept ==
  ASSUME TrendInv, NEW c \in T!Fetcher, NEW j, TrendCallOk(j), call' = [call EXCEPT ![c] = j]
  PROVE  call' = [d \in T!Fetcher |-> call'[d]] /\ \A d \in T!Fetcher : TrendCallOk(call'[d])
BY DEF TrendInv

LEMMA TrendBegun ==
  ASSUME NEW k, NEW p, NEW a
  PROVE  [T!Idle EXCEPT !.kind = k, !.pc = p, !.at = a] = [kind |-> k, pc |-> p, at |-> a, answer |-> NoAnswer]
<1> DEFINE r0 == [kind |-> "none", pc |-> "idle", at |-> 0, answer |-> NoAnswer]
           r1 == [r0 EXCEPT !.kind = k]
           r2 == [r1 EXCEPT !.pc = p]
           r3 == [r2 EXCEPT !.at = a]
<1>1. r1 = [kind |-> k, pc |-> "idle", at |-> 0, answer |-> NoAnswer]
  OBVIOUS
<1> HIDE DEF r1
<1>2. r2 = [kind |-> k, pc |-> p, at |-> 0, answer |-> NoAnswer]
  BY <1>1
<1> HIDE DEF r2
<1>3. r3 = [kind |-> k, pc |-> p, at |-> a, answer |-> NoAnswer]
  BY <1>2
<1>4. [T!Idle EXCEPT !.kind = k, !.pc = p, !.at = a] = r3
  BY DEF T!Idle, r1, r2
<1> QED
  BY <1>3, <1>4

LEMMA TrendIdleOk == ASSUME T!TrendsAssumption PROVE TrendCallOk(T!Idle)
BY DEF TrendCallOk, T!Idle, T!Time, T!TrendsAssumption

LEMMA TrendStart ==
  ASSUME T!TrendsAssumption PROVE T!Init => TrendInv
<1> SUFFICES ASSUME T!Init PROVE TrendInv
  OBVIOUS
<1>1. 0 \in T!Time /\ 0 \in Value
  BY DEF T!Time, T!TrendsAssumption
<1>2. Series(snapshots) /\ History(history)
  BY NothingIsInOrder DEF T!Init
<1>3. call = [c \in T!Fetcher |-> call[c]] /\ \A c \in T!Fetcher : TrendCallOk(call[c])
  BY TrendIdleOk DEF T!Init, T!Fresh
<1> QED
  BY <1>1, <1>2, <1>3 DEF TrendInv, T!Init

LEMMA TrendStep ==
  ASSUME T!TrendsAssumption PROVE TrendInv /\ [T!Next]_(T!vars) => TrendInv'
<1> SUFFICES ASSUME TrendInv, [T!Next]_(T!vars) PROVE TrendInv'
  OBVIOUS
<1> USE DEF T!Time
<1>a. now \in T!Time /\ MaxTime \in Nat /\ \A c \in T!Fetcher : TrendCallOk(call[c])
  BY DEF TrendInv, T!TrendsAssumption
<1>b. Collector \in T!Fetcher /\ \A c \in Caller : c \in T!Fetcher
  BY DEF T!Fetcher
<1>c. TrendCallOk(T!Idle)
  BY TrendIdleOk
<1>d. TrendCallOk([T!Idle EXCEPT !.kind = "collector", !.pc = "fetch", !.at = now])
  <2>1. [T!Idle EXCEPT !.kind = "collector", !.pc = "fetch", !.at = now]
          = [kind |-> "collector", pc |-> "fetch", at |-> now, answer |-> NoAnswer]
    BY TrendBegun
  <2> QED
    BY <1>a, <2>1 DEF TrendCallOk
<1>1. CASE T!Start
  BY <1>1 DEF T!Start, TrendInv, Series, History
<1>2. CASE T!Checked
  <2>1. CASE call' = [call EXCEPT ![Collector] =
                        [T!Idle EXCEPT !.kind = "collector", !.pc = "fetch", !.at = now]]
    <3>1. call' = [d \in T!Fetcher |-> call'[d]] /\ \A d \in T!Fetcher : TrendCallOk(call'[d])
      BY <1>b, <1>d, <2>1, TrendCallsKept
    <3> QED
      BY <1>2, <3>1 DEF T!Checked, TrendInv
  <2>2. CASE UNCHANGED call
    BY <1>2, <2>2 DEF T!Checked, TrendInv
  <2> QED
    BY <1>2, <2>1, <2>2 DEF T!Checked
<1>3. CASE T!Collects
  <2>1. call' = [d \in T!Fetcher |-> call'[d]] /\ \A d \in T!Fetcher : TrendCallOk(call'[d])
    BY <1>3, <1>b, <1>d, TrendCallsKept DEF T!Collects
  <2> QED
    BY <1>3, <2>1 DEF T!Collects, TrendInv
<1>4. CASE T!Restart
  <2>1. call' = [d \in T!Fetcher |-> call'[d]] /\ \A d \in T!Fetcher : TrendCallOk(call'[d])
    BY <1>4, <1>c DEF T!Restart, T!Fresh
  <2>2. Series(snapshots') /\ History(history') /\ writes' \subseteq T!Point
    BY <1>4, NothingIsInOrder DEF T!Restart
  <2> QED
    BY <1>4, <2>1, <2>2 DEF T!Restart, TrendInv
<1>5. CASE T!Tick
  <2>1. now' \in T!Time
    BY <1>5, <1>a DEF T!Tick
  <2> QED
    BY <1>5, <2>1 DEF T!Tick, TrendInv
<1>6. ASSUME NEW c \in Caller, NEW kind \in {"dashboard", "series", "history"}, T!Begins(c, kind)
      PROVE  TrendInv'
  <2> DEFINE j == [T!Idle EXCEPT !.kind = kind, !.pc = IF kind = "history" THEN "before" ELSE "fetch",
                                 !.at = now]
  <2>1. TrendCallOk(j)
    <3>1. j = [kind |-> kind, pc |-> IF kind = "history" THEN "before" ELSE "fetch", at |-> now, answer |-> NoAnswer]
      BY TrendBegun
    <3> HIDE DEF j
    <3> QED
      BY <1>a, <3>1 DEF TrendCallOk
  <2>2. call' = [call EXCEPT ![c] = j]
    BY <1>6 DEF T!Begins
  <2> HIDE DEF j
  <2>3. call' = [d \in T!Fetcher |-> call'[d]] /\ \A d \in T!Fetcher : TrendCallOk(call'[d])
    BY <1>b, <2>1, <2>2, TrendCallsKept
  <2> QED
    BY <1>6, <2>3 DEF T!Begins, TrendInv
<1>7. ASSUME NEW c \in Caller, T!ReadsHistory(c) PROVE TrendInv'
  <2>1. PICK points \in T!HistoryRead(now) :
          call' = [call EXCEPT ![c] =
                     IF @.pc = "before" /\ Len(points) < Required
                     THEN [@ EXCEPT !.pc = "fetch", !.at = now]
                     ELSE [@ EXCEPT !.pc = "done", !.answer = T!Shown(points)]]
    BY <1>7 DEF T!ReadsHistory
  <2>2. History(T!Shown(points))
    BY HistoryReadInOrder
  <2> DEFINE j == IF call[c].pc = "before" /\ Len(points) < Required
                  THEN [call[c] EXCEPT !.pc = "fetch", !.at = now]
                  ELSE [call[c] EXCEPT !.pc = "done", !.answer = T!Shown(points)]
  <2>3. TrendCallOk(j)
    <3>1. TrendCallOk(call[c]) /\ call[c].kind = "history"
      BY <1>7, <1>a, <1>b DEF T!ReadsHistory, TrendCallOk
    <3> QED
      BY <3>1, <2>2, <1>a DEF TrendCallOk
  <2>4. call' = [call EXCEPT ![c] = j]
    BY <2>1
  <2> HIDE DEF j
  <2>5. call' = [d \in T!Fetcher |-> call'[d]] /\ \A d \in T!Fetcher : TrendCallOk(call'[d])
    BY <1>b, <2>3, <2>4, TrendCallsKept
  <2> QED
    BY <1>7, <2>5 DEF T!ReadsHistory, TrendInv
<1>8. ASSUME NEW c \in Caller, T!Leaves(c) PROVE TrendInv'
  <2>1. call' = [d \in T!Fetcher |-> call'[d]] /\ \A d \in T!Fetcher : TrendCallOk(call'[d])
    BY <1>8, <1>b, <1>c, TrendCallsKept DEF T!Leaves
  <2> QED
    BY <1>8, <2>1 DEF T!Leaves, TrendInv
<1>9. ASSUME NEW c \in T!Fetcher, T!Fetched(c) PROVE TrendInv'
  <2>1. PICK failed \in BOOLEAN, fear \in BOOLEAN, figures \in Value :
          LET snapshot == [at |-> call[c].at, figures |-> IF failed THEN 0 ELSE figures, fear |-> fear]
              point    == [day |-> T!DayOf(snapshot.at), figures |-> snapshot.figures]
              since    == now - RangeDays * DayLength
          IN  /\ failed => figures = 0
              /\ call[c].pc = "fetch"
              /\ snapshots' = T!Remembered(snapshot)
              /\ IF point.figures = 0
                 THEN UNCHANGED <<history, writes>>
                 ELSE history' = T!Dated(point) /\ writes' = writes \cup {point}
              /\ call' = [call EXCEPT ![c] =
                   CASE @.kind = "history"   -> [@ EXCEPT !.pc = "after"]
                     [] @.kind = "dashboard" -> [@ EXCEPT !.pc = "done", !.answer = T!Dashboard(snapshot, failed, snapshots')]
                     [] @.kind = "series"    -> [@ EXCEPT !.pc = "done",
                          !.answer = T!Where(snapshots', {i \in DOMAIN snapshots' : snapshots'[i].at >= since})]
                     [] OTHER                -> T!Idle]
              /\ UNCHANGED <<collector, rows, now, restarts>>
    BY <1>9 DEF T!Fetched
  <2> DEFINE x == [at |-> call[c].at, figures |-> IF failed THEN 0 ELSE figures, fear |-> fear]
             p == [day |-> T!DayOf(x.at), figures |-> x.figures]
             since == now - RangeDays * DayLength
             K == {i \in DOMAIN snapshots' : snapshots'[i].at >= since}
             shown == T!Dashboard(x, failed, snapshots')
             recent == T!Where(snapshots', K)
  <2>2. TrendCallOk(call[c]) /\ call[c].at \in T!Time
    BY <1>a DEF TrendCallOk
  <2>3. x \in T!Snapshot
    BY <2>2 DEF T!Snapshot, T!TrendsAssumption
  <2>4. p \in T!Point
    BY <2>2, <2>3, DaysFinite DEF T!Point, T!Snapshot
  <2>5. Series(snapshots')
    BY <2>1, <2>3, RememberedInOrder DEF TrendInv
  <2>6. History(history') /\ writes' \subseteq T!Point
    <3>1. CASE p.figures = 0
      BY <2>1, <3>1 DEF TrendInv
    <3>2. CASE p.figures # 0
      BY <2>1, <2>4, <3>2, DatedInOrder DEF TrendInv
    <3> QED
      BY <3>1, <3>2
  <2>7. Series(recent)
    <3>1. snapshots' \in Seq(T!Snapshot) /\ Rises(snapshots', SnapshotTime) /\ SnapshotTime \in [T!Snapshot -> Int]
      BY <2>5, FieldsTyped DEF Series
    <3>2. K \in SUBSET DOMAIN snapshots'
      OBVIOUS
    <3> HIDE DEF K
    <3> QED
      BY <3>1, <3>2, WhereRises DEF Series
  <2> DEFINE j == CASE call[c].kind = "history"   -> [call[c] EXCEPT !.pc = "after"]
                    [] call[c].kind = "dashboard" -> [call[c] EXCEPT !.pc = "done", !.answer = shown]
                    [] call[c].kind = "series"    -> [call[c] EXCEPT !.pc = "done", !.answer = recent]
                    [] OTHER                      -> T!Idle
  <2>8. call' = [call EXCEPT ![c] = j]
    BY <2>1
  <2> HIDE DEF x, p, recent, shown
  <2>9. TrendCallOk(j)
    BY <2>2, <2>7, <1>c DEF TrendCallOk
  <2> HIDE DEF j
  <2>10. call' = [d \in T!Fetcher |-> call'[d]] /\ \A d \in T!Fetcher : TrendCallOk(call'[d])
    BY <2>8, <2>9, TrendCallsKept
  <2> QED
    BY <2>1, <2>5, <2>6, <2>10 DEF TrendInv
<1>10. ASSUME NEW p \in writes, T!Lands(p) PROVE TrendInv'
  <2>1. p \in T!Point
    BY DEF TrendInv
  <2>2. rows' \in [T!Days -> Value] /\ writes' \subseteq T!Point
    BY <1>10, <2>1 DEF T!Lands, TrendInv, T!Point
  <2> QED
    BY <1>10, <2>2 DEF T!Lands, TrendInv
<1>11. CASE UNCHANGED T!vars
  BY <1>11 DEF T!vars, TrendInv
<1> QED
  BY <1>1, <1>2, <1>3, <1>4, <1>5, <1>6, <1>7, <1>8, <1>9, <1>10, <1>11 DEF T!Next

(* However the fetches overlap, and whatever a restart forgets, the        *)
(* snapshots and the history are in the order of time with one entry for a *)
(* time, and so is every series and every history that a call answers      *)
(* (rememberSnapshot, rememberHistoryPoint, getGlobalMarketHistory).       *)
THEOREM TrendsInOrderHolds ==
  ASSUME T!TrendsAssumption PROVE T!Spec => [](T!TypeOK /\ T!TrendsInOrder)
<1>1. TrendInv => T!TypeOK /\ T!TrendsInOrder
  <2> SUFFICES ASSUME TrendInv PROVE T!TypeOK /\ T!TrendsInOrder
    OBVIOUS
  <2>1. T!TypeOK
    BY DEF T!TypeOK, TrendInv, TrendCallOk, Series, History
  <2>2. ASSUME NEW s, Series(s) PROVE T!Increasing([i \in 1 .. Len(s) |-> s[i].at])
    <3>1. s \in Seq(T!Snapshot) /\ Len(s) \in Nat
      BY <2>2 DEF Series
    <3>2. \A i \in 1 .. Len(s) : SnapshotTime[s[i]] = s[i].at
      BY <3>1 DEF SnapshotTime
    <3>3. \A i, j \in 1 .. Len(s) : i < j => s[i].at < s[j].at
      BY <2>2, <3>2 DEF Series, Rises
    <3> QED
      BY <3>1, <3>3 DEF T!Increasing
  <2>3. ASSUME NEW s, History(s) PROVE T!Increasing([i \in 1 .. Len(s) |-> s[i].day])
    <3>1. s \in Seq(T!Point) /\ Len(s) \in Nat
      BY <2>3 DEF History
    <3>2. \A i \in 1 .. Len(s) : PointDay[s[i]] = s[i].day
      BY <3>1 DEF PointDay
    <3>3. \A i, j \in 1 .. Len(s) : i < j => s[i].day < s[j].day
      BY <2>3, <3>2 DEF History, Rises
    <3> QED
      BY <3>1, <3>3 DEF T!Increasing
  <2>4. ASSUME NEW c \in Caller, call[c].pc = "done"
        PROVE  /\ call[c].kind = "series" =>
                    T!Increasing([i \in 1 .. Len(call[c].answer) |-> call[c].answer[i].at])
               /\ call[c].kind = "history" =>
                    T!Increasing([i \in 1 .. Len(call[c].answer) |-> call[c].answer[i].day])
    <3>1. TrendCallOk(call[c])
      BY DEF TrendInv, T!Fetcher
    <3> QED
      BY <2>2, <2>3, <2>4, <3>1 DEF TrendCallOk
  <2>5. Series(snapshots) /\ History(history)
    BY DEF TrendInv
  <2> QED
    BY <2>1, <2>2, <2>3, <2>4, <2>5 DEF T!TrendsInOrder
<1> QED
  BY <1>1, TrendStart, TrendStep, PTL DEF T!Spec

-----------------------------------------------------------------------------
(* The small graphs of several markets (SparklineBatches): workers end in  *)
(* any order, and every key of the request is found in the answer once.    *)
CONSTANTS Input, Wildcard, MarketOf, OtherQuote, Listed, PathLimit, Workers, MaxInputs
VARIABLES request, pc, next, busy, results

B == INSTANCE SparklineBatches

(* The members of a finite set of numbers, in order.                       *)
Sorted(K) ==
  [n \in 1..Cardinality(K) |-> CHOOSE i \in K : Cardinality({j \in K : j <= i}) = n]

LEMMA SortedFacts ==
  ASSUME NEW K \in SUBSET Int, IsFiniteSet(K)
  PROVE  /\ Cardinality(K) \in Nat /\ DOMAIN Sorted(K) = 1..Cardinality(K)
         /\ Sorted(K) \in [1..Cardinality(K) -> K]
         /\ \A i, j \in 1..Cardinality(K) : i < j => Sorted(K)[i] < Sorted(K)[j]
         /\ \A i, j \in 1..Cardinality(K) : Sorted(K)[i] = Sorted(K)[j] => i = j
         /\ \A k \in K : \E n \in 1..Cardinality(K) : Sorted(K)[n] = k
<1> DEFINE N == Cardinality(K)
           key == [i \in K |-> i]
           rank(i) == Cardinality({j \in K : j <= i})
           o == Sorted(K)
<1>1. key \in [K -> Int]
  OBVIOUS
<1>2. \A i \in K : rank(i) = Cardinality(UpTo(K, key, i))
  <2> SUFFICES ASSUME NEW i \in K PROVE rank(i) = Cardinality(UpTo(K, key, i))
    OBVIOUS
  <2>1. \A j \in K : j \in Int /\ i \in Int /\ key[j] = j /\ key[i] = i
    OBVIOUS
  <2>2. \A j \in K : j <= i <=> key[j] < key[i] \/ (key[j] = key[i] /\ j <= i)
    BY <2>1
  <2>3. {j \in K : j <= i} = UpTo(K, key, i)
    BY <2>2 DEF UpTo
  <2> QED
    BY <2>3
<1>3. o = [n \in 1..N |-> CHOOSE i \in K : rank(i) = n]
  BY DEF Sorted
<1> HIDE DEF o, rank, key
<1>4. \A n \in 1..N : o[n] \in K /\ Cardinality(UpTo(K, key, o[n])) = n
  <2> SUFFICES ASSUME NEW n \in 1..N PROVE o[n] \in K /\ Cardinality(UpTo(K, key, o[n])) = n
    OBVIOUS
  <2>1. PICK p \in K : Cardinality(UpTo(K, key, p)) = n
    BY <1>1, RanksCount
  <2>2. \E k \in K : rank(k) = n
    BY <1>2, <2>1
  <2>3. (CHOOSE i \in K : rank(i) = n) \in K /\ rank(CHOOSE i \in K : rank(i) = n) = n
    BY <2>2
  <2>4. o[n] \in K /\ rank(o[n]) = n
    BY <1>3, <2>3
  <2> QED
    BY <1>2, <2>4
<1>5. o = [n \in 1..N |-> o[n]]
  BY <1>3
<1>6. InOrder(o, K, key)
  BY <1>4, <1>5 DEF InOrder
<1>7. /\ N \in Nat /\ o \in [1..N -> K]
      /\ \A i, j \in 1..N : i < j => Precedes(key, o[i], o[j])
      /\ \A k \in K : \E n \in 1..N : o[n] = k
  BY <1>1, <1>6, InOrderFacts
<1>8. \A i, j \in 1..N : i < j => o[i] < o[j]
  BY <1>7 DEF Precedes, key
<1>9. \A i, j \in 1..N : o[i] = o[j] => i = j
  <2> SUFFICES ASSUME NEW i \in 1..N, NEW j \in 1..N, o[i] = o[j], i # j PROVE FALSE
    OBVIOUS
  <2>1. o[i] \in K /\ o[j] \in K /\ i \in Int /\ j \in Int
    BY <1>7
  <2>a. \A k \in K : k \in Int
    OBVIOUS
  <2>2. o[i] \in Int /\ o[j] \in Int
    BY <2>1, <2>a
  <2>3. i < j \/ j < i
    BY <2>1
  <2> QED
    BY <1>8, <2>2, <2>3
<1> QED
  BY <1>3, <1>7, <1>8, <1>9 DEF o

LEMMA BatchSizes == \A X : B!Cardinality(X) = Cardinality(X)
BY DEF B!Cardinality, B!IsFiniteSet, Cardinality, IsFiniteSet

LEMMA BatchOrdered == ASSUME NEW K PROVE B!Ordered(K) = Sorted(K)
BY DEF B!Ordered, Sorted, B!Cardinality, B!IsFiniteSet, Cardinality, IsFiniteSet

(* What is asked for, of an input that is read.                            *)
AskedOf(input) == IF input \in DOMAIN MarketOf THEN MarketOf[input] ELSE input

TargetAt(n)  == Sorted(B!Targets)[n]
GraphItems       == {[market |-> m, points |-> p] : m \in {"none"} \cup {MarketOf[i] : i \in DOMAIN MarketOf},
                                               p \in B!Points}
Pointless    == {i \in DOMAIN results : results[i].points < 2}

(* What no worker has and was taken is done, at its place.                 *)
WorkOk ==
  /\ next \in Nat /\ 1 <= next /\ next <= Cardinality(B!Targets) + 1
  /\ busy \subseteq 1..(next - 1)
  /\ results \in Seq(GraphItems) /\ Len(results) <= next - 1
  /\ \A k \in 1..(next - 1) : k \notin busy =>
       k <= Len(results) /\ results[k].market = B!At(TargetAt(k)).market

AnswerOk ==
  /\ answer.items = results
  /\ answer.missing = [n \in DOMAIN Sorted(B!Unsupported) |-> B!Missing(Sorted(B!Unsupported)[n])]
                      \o [n \in DOMAIN Sorted(Pointless) |->
                            [of |-> results[Sorted(Pointless)[n]].market, reason |-> "points"]]
  /\ answer.deferred = [n \in DOMAIN Sorted(B!Deferred) |-> B!Key(Sorted(B!Deferred)[n])]

BatchInv ==
  /\ \E n \in Nat : DOMAIN request.inputs = 1..n
  /\ pc \in {"idle", "refused", "listing", "failed", "working", "answered"}
  /\ pc \notin {"working", "answered"} => next = 1 /\ busy = {} /\ results = <<>>
  /\ pc # "answered" => answer = B!NoAnswer
  /\ pc \in {"working", "answered"} => WorkOk
  /\ pc = "answered" => next > Cardinality(B!Targets) /\ busy = {} /\ AnswerOk

LEMMA UpToFinite ==
  \A n \in Nat : IsFiniteSet(1..n)
BY FS_Interval

LEMMA PlacesFinite ==
  ASSUME NEW n \in Nat, DOMAIN request.inputs = 1..n, NEW K, K \subseteq DOMAIN request.inputs
  PROVE  K \in SUBSET Int /\ IsFiniteSet(K) /\ Cardinality(K) \in Nat
<1>1. IsFiniteSet(1..n)
  BY UpToFinite
<1> QED
  BY <1>1, FS_Subset, FS_CardinalityType

LEMMA BatchPlaces ==
  /\ B!Inputs \subseteq DOMAIN request.inputs /\ B!Processed \subseteq B!Inputs
  /\ B!Targets \subseteq B!Processed /\ B!Unsupported = B!Processed \ B!Targets
  /\ B!Deferred = B!Inputs \ B!Processed
BY DEF B!Inputs, B!Processed, B!Targets, B!Unsupported, B!Deferred

LEMMA BatchSame ==
  ASSUME UNCHANGED <<request, rows>>
  PROVE  /\ B!Targets' = B!Targets /\ B!Unsupported' = B!Unsupported /\ B!Deferred' = B!Deferred
         /\ \A i : B!At(i)' = B!At(i) /\ TargetAt(i)' = TargetAt(i)
<1>1. \A i : B!At(i)' = B!At(i) /\ B!Key(i)' = B!Key(i)
  BY DEF B!At, B!Key
<1>2. B!Inputs' = B!Inputs
  BY <1>1 DEF B!Inputs
<1>3. B!Processed' = B!Processed
  BY <1>2 DEF B!Processed
<1>4. B!Targets' = B!Targets
  BY <1>1, <1>3 DEF B!Targets, B!HasRow
<1> QED
  BY <1>1, <1>2, <1>3, <1>4 DEF B!Unsupported, B!Deferred, TargetAt

LEMMA BatchReceives == ASSUME BatchInv, B!Receives PROVE BatchInv'
<1>1. pc = "idle" /\ UNCHANGED <<rows, next, busy, results, answer>>
      /\ pc' \in {"refused", "listing"}
  BY DEF B!Receives
<1>2. PICK n \in 0..MaxInputs : \E inputs \in [1..n -> Input] : request'.inputs = inputs
  BY DEF B!Receives
<1>3. n \in Nat /\ DOMAIN request'.inputs = 1..n
  BY <1>2
<1>4. answer' = B!NoAnswer /\ B!NoAnswer' = B!NoAnswer
  BY <1>1 DEF BatchInv, B!NoAnswer
<1> QED
  BY <1>1, <1>3, <1>4 DEF BatchInv

LEMMA BatchListEnds == ASSUME BatchInv, B!ListEnds PROVE BatchInv'
<1>1. /\ pc = "listing" /\ pc' \in {"working", "failed"}
      /\ UNCHANGED <<request, next, busy, results, answer>>
  BY DEF B!ListEnds
<1>2. next = 1 /\ busy = {} /\ results = <<>> /\ answer = B!NoAnswer
  BY <1>1 DEF BatchInv
<1>3. PICK n \in Nat : DOMAIN request.inputs = 1..n
  BY DEF BatchInv
<1>4. B!Targets' \subseteq DOMAIN request.inputs
  BY <1>1 DEF B!Targets, B!Processed, B!Inputs
<1>5. Cardinality(B!Targets') \in Nat
  BY <1>3, <1>4, PlacesFinite
<1>6. WorkOk'
  BY <1>1, <1>2, <1>5 DEF WorkOk
<1> QED
  BY <1>1, <1>2, <1>6 DEF BatchInv, B!NoAnswer

LEMMA BatchTakes == ASSUME BatchInv, B!WorkerTakes PROVE BatchInv'
<1>1. /\ pc = "working" /\ next <= Cardinality(B!Targets) /\ busy' = busy \cup {next}
      /\ next' = next + 1 /\ UNCHANGED <<request, pc, rows, results, answer>>
  BY BatchSizes DEF B!WorkerTakes
<1>2. WorkOk
  BY <1>1 DEF BatchInv
<1>3. PICK n \in Nat : DOMAIN request.inputs = 1..n
  BY DEF BatchInv
<1>4. Cardinality(B!Targets) \in Nat
  BY <1>3, PlacesFinite, BatchPlaces
<1>5. WorkOk'
  <2>a. next \in Nat /\ Len(results) \in Nat /\ Len(results) <= next - 1
        /\ busy \subseteq 1..(next - 1)
    BY <1>2 DEF WorkOk
  <2>1. /\ next' \in Nat /\ 1 <= next' /\ next' <= Cardinality(B!Targets) + 1
        /\ busy' \subseteq 1..(next' - 1) /\ Len(results) <= next' - 1
    BY <1>1, <1>4, <2>a
  <2>2. \A k \in 1..(next' - 1) : k \notin busy' => k \in 1..(next - 1) /\ k \notin busy
    BY <1>1, <1>2 DEF WorkOk
  <2>3. GraphItems' = GraphItems
    BY DEF GraphItems, B!Points
  <2> QED
    BY <1>1, <1>2, <2>1, <2>2, <2>3, BatchSame DEF WorkOk
<1> QED
  BY <1>1, <1>3, <1>5 DEF BatchInv, B!NoAnswer

LEMMA BatchItem == ASSUME BatchInv, B!ItemEnds PROVE BatchInv'
<1>1. PICK i \in busy, points \in B!Points :
        /\ busy' = busy \ {i}
        /\ results' = B!Placed(i, [market |-> B!At(TargetAt(i)).market, points |-> points])
        /\ UNCHANGED <<request, pc, rows, next, answer>>
  BY BatchOrdered DEF B!ItemEnds, TargetAt
<1> DEFINE item == [market |-> B!At(TargetAt(i)).market, points |-> points]
           size == IF Len(results) < i THEN i ELSE Len(results)
<1>2. pc = "working" /\ WorkOk
  BY <1>1 DEF BatchInv
<1>3. PICK n \in Nat : DOMAIN request.inputs = 1..n
  BY DEF BatchInv
<1>4. Cardinality(B!Targets) \in Nat
  BY <1>3, PlacesFinite, BatchPlaces
<1>5. i \in Nat /\ 1 <= i /\ i <= next - 1 /\ i <= Cardinality(B!Targets) /\ size \in Nat
      /\ size <= next - 1 /\ i <= size /\ Len(results) <= size /\ Len(results) \in Nat
  BY <1>2, <1>4 DEF WorkOk
<1>6. item \in GraphItems
  <2>1. TargetAt(i) \in B!Targets
    BY <1>3, <1>5, PlacesFinite, BatchPlaces, SortedFacts DEF TargetAt
  <2> DEFINE names == {"none"} \cup {MarketOf[x] : x \in DOMAIN MarketOf}
             name  == B!At(TargetAt(i)).market
  <2>2. name \in names
    BY DEF B!At, B!Resolved
  <2>3. GraphItems = {[market |-> m, points |-> p] : m \in names, p \in B!Points}
    BY DEF GraphItems
  <2>4. item = [market |-> name, points |-> points]
    OBVIOUS
  <2> HIDE DEF names, name, item
  <2> QED
    BY <1>1, <2>2, <2>3, <2>4
<1>7. B!NoItem \in GraphItems
  BY DEF GraphItems, B!NoItem, B!Points
<1>8. results' = [k \in 1..size |-> IF k = i THEN item
                                    ELSE IF k <= Len(results) THEN results[k] ELSE B!NoItem]
  BY <1>1 DEF B!Placed
<1> HIDE DEF item, size
<1>9. results' \in Seq(GraphItems) /\ Len(results') = size
  <2>1. \A k \in 1..Len(results) : results[k] \in GraphItems
    BY <1>2 DEF WorkOk
  <2>2. results' \in [1..size -> GraphItems]
    BY <1>5, <1>6, <1>7, <1>8, <2>1
  <2> QED
    BY <1>5, <2>2
<1>10. ASSUME NEW k \in 1..(next - 1), k \notin busy'
       PROVE  k <= size /\ results'[k].market = B!At(TargetAt(k)).market
  <2>1. CASE k = i
    <3>1. k \in 1..size /\ results'[k] = item
      BY <1>5, <1>8, <2>1
    <3> QED
      BY <1>5, <2>1, <3>1 DEF item
  <2>2. CASE k # i
    <3>1. k <= Len(results) /\ results[k].market = B!At(TargetAt(k)).market
      BY <1>1, <1>2, <1>10, <2>2 DEF WorkOk
    <3>2. k \in 1..size /\ results'[k] = results[k]
      BY <1>5, <1>8, <2>2, <3>1
    <3> QED
      BY <1>5, <3>1, <3>2
  <2> QED
    BY <2>1, <2>2
<1>11. WorkOk'
  <2>1. GraphItems' = GraphItems
    BY DEF GraphItems, B!Points
  <2> QED
    BY <1>1, <1>2, <1>5, <1>9, <1>10, <2>1, BatchSame DEF WorkOk
<1> QED
  BY <1>1, <1>2, <1>3, <1>11 DEF BatchInv, B!NoAnswer

LEMMA BatchResponds == ASSUME BatchInv, B!Responds PROVE BatchInv'
<1>1. /\ pc = "working" /\ next > Cardinality(B!Targets) /\ busy = {} /\ pc' = "answered"
      /\ UNCHANGED <<request, rows, next, busy, results>>
  BY BatchSizes DEF B!Responds
<1>2. AnswerOk'
  <2>1. Pointless' = Pointless /\ \A i : B!Key(i)' = B!Key(i) /\ B!Missing(i)' = B!Missing(i)
    BY <1>1, BatchSame DEF Pointless, B!Key, B!Missing
  <2>2. /\ B!Ordered(Pointless) = Sorted(Pointless) /\ B!Ordered(B!Unsupported) = Sorted(B!Unsupported)
        /\ B!Ordered(B!Deferred) = Sorted(B!Deferred)
    <3>1. B!Ordered(Pointless) = Sorted(Pointless)
      BY BatchOrdered, Zenon
    <3>2. B!Ordered(B!Unsupported) = Sorted(B!Unsupported)
      BY BatchOrdered, Zenon
    <3>3. B!Ordered(B!Deferred) = Sorted(B!Deferred)
      BY BatchOrdered, Zenon
    <3> QED
      BY <3>1, <3>2, <3>3
  <2>3. /\ answer'.items = results
        /\ answer'.missing = [n \in DOMAIN Sorted(B!Unsupported) |-> B!Missing(Sorted(B!Unsupported)[n])]
                             \o [n \in DOMAIN Sorted(Pointless) |->
                                  [of |-> results[Sorted(Pointless)[n]].market, reason |-> "points"]]
        /\ answer'.deferred = [n \in DOMAIN Sorted(B!Deferred) |-> B!Key(Sorted(B!Deferred)[n])]
    BY <2>2, ZenonT(60) DEF B!Responds, Pointless
  <2> QED
    BY <1>1, <2>1, <2>3, BatchSame DEF AnswerOk
<1>3. WorkOk'
  <2>1. GraphItems' = GraphItems
    BY DEF GraphItems, B!Points
  <2> QED
    BY <1>1, <2>1, BatchSame DEF BatchInv, WorkOk
<1> QED
  BY <1>1, <1>2, <1>3, BatchSame DEF BatchInv

LEMMA BatchStep == ASSUME BatchInv, [B!Next]_(B!vars) PROVE BatchInv'
<1>1. CASE UNCHANGED B!vars
  <2>1. UNCHANGED <<request, pc, rows, next, busy, results, answer>>
    BY <1>1 DEF B!vars
  <2>2. Pointless' = Pointless /\ GraphItems' = GraphItems
        /\ \A i : B!Key(i)' = B!Key(i) /\ B!Missing(i)' = B!Missing(i)
    BY <2>1, BatchSame DEF Pointless, GraphItems, B!Points, B!Key, B!Missing
  <2>3. WorkOk => WorkOk'
    BY <2>1, <2>2, BatchSame DEF WorkOk
  <2>4. AnswerOk => AnswerOk'
    BY <2>1, <2>2, BatchSame DEF AnswerOk
  <2> QED
    BY <2>1, <2>3, <2>4, BatchSame DEF BatchInv, B!NoAnswer
<1> QED
  BY <1>1, BatchReceives, BatchListEnds, BatchTakes, BatchItem, BatchResponds DEF B!Next

(* One of the first so many numbers, or none, is where a sequence that     *)
(* repeats nothing has a value.                                            *)
LEMMA FoundOnce ==
  ASSUME NEW c \in Nat, NEW A, NEW o \in [1..c -> A], NEW v,
         \A i, j \in 1..c : o[i] = o[j] => i = j
  PROVE  Cardinality({i \in 1..c : o[i] = v}) = IF \E i \in 1..c : o[i] = v THEN 1 ELSE 0
<1>1. CASE \E i \in 1..c : o[i] = v
  <2>1. PICK i \in 1..c : o[i] = v
    BY <1>1
  <2>2. {j \in 1..c : o[j] = v} = {i}
    BY <2>1
  <2> QED
    BY <1>1, <2>2, FS_Singleton
<1>2. CASE ~\E i \in 1..c : o[i] = v
  <2>1. {j \in 1..c : o[j] = v} = {}
    BY <1>2
  <2> QED
    BY <1>2, <2>1, FS_EmptySet
<1> QED
  BY <1>1, <1>2

LEMMA KeyFacts ==
  ASSUME B!BatchAssumption
  PROVE  /\ \A i : B!Key(i) = AskedOf(request.inputs[i])
         /\ \A i : B!At(i).reason = "none" =>
              B!At(i).market = B!Key(i) /\ request.inputs[i] \in DOMAIN MarketOf
<1>1. \A i : /\ B!At(i).input = request.inputs[i]
             /\ request.inputs[i] \in DOMAIN MarketOf =>
                  B!At(i).market = MarketOf[request.inputs[i]] /\ B!At(i).market # "none"
             /\ request.inputs[i] \notin DOMAIN MarketOf =>
                  B!At(i).market = "none" /\ B!At(i).reason = "invalid_market_id"
  BY DEF B!At, B!Resolved, B!BatchAssumption
<1> QED
  BY <1>1 DEF B!Key, B!KeyOf, AskedOf

(* The places where a value comes first: each value has one.               *)
Firsts(K, key) == {i \in K : \A j \in 1..(i - 1) : j \in K => key[j] # key[i]}

LEMMA FirstPlaces ==
  ASSUME NEW n \in Nat, NEW K \in SUBSET (1..n), NEW key
  PROVE  /\ \A i \in K : \E p \in Firsts(K, key) : key[p] = key[i]
         /\ \A p, q \in Firsts(K, key) : key[p] = key[q] => p = q
<1> DEFINE F == Firsts(K, key)
<1>1. ASSUME NEW i \in K
      PROVE  \E p \in F : key[p] = key[i]
  <2> DEFINE L == {j \in K : key[j] = key[i]}
  <2>1. L \in SUBSET Int /\ IsFiniteSet(L) /\ i \in L
    <3>1. IsFiniteSet(1..n)
      BY FS_Interval
    <3>2. L \subseteq 1..n
      OBVIOUS
    <3> QED
      BY <3>1, <3>2, FS_Subset
  <2> HIDE DEF L
  <2>2. /\ Cardinality(L) \in Nat /\ Sorted(L) \in [1..Cardinality(L) -> L]
        /\ \A a, b \in 1..Cardinality(L) : a < b => Sorted(L)[a] < Sorted(L)[b]
        /\ \A k \in L : \E a \in 1..Cardinality(L) : Sorted(L)[a] = k
    BY <2>1, SortedFacts
  <2>3. 1 \in 1..Cardinality(L)
    BY <2>1, <2>2
  <2> DEFINE p == Sorted(L)[1]
  <2>4. p \in L
    BY <2>2, <2>3
  <2>5. \A j \in L : p <= j
    <3> SUFFICES ASSUME NEW j \in L PROVE p <= j
      OBVIOUS
    <3>1. PICK a \in 1..Cardinality(L) : Sorted(L)[a] = j
      BY <2>2
    <3>2. \A k \in L : k \in Int
      BY <2>1
    <3>3. a = 1 \/ 1 < a
      BY <2>2, <3>1
    <3> QED
      BY <2>2, <2>3, <2>4, <3>1, <3>2, <3>3
  <2> HIDE DEF p
  <2>6. p \in K /\ key[p] = key[i] /\ p \in 1..n
    BY <2>4 DEF L
  <2>7. ASSUME NEW j \in 1..(p - 1), j \in K
        PROVE  key[j] # key[p]
    <3>1. j \in Int /\ ~(p <= j)
      BY <2>6, <2>7
    <3> QED
      BY <2>5, <2>6, <2>7, <3>1 DEF L
  <2> QED
    BY <2>6, <2>7 DEF Firsts
<1>2. ASSUME NEW a \in F, NEW b \in F, key[a] = key[b], a # b
      PROVE  FALSE
  <2>1. /\ a \in K /\ b \in K /\ a \in 1..n /\ b \in 1..n
        /\ \A j \in 1..(a - 1) : j \in K => key[j] # key[a]
        /\ \A j \in 1..(b - 1) : j \in K => key[j] # key[b]
    BY DEF Firsts
  <2>2. a \in 1..(b - 1) \/ b \in 1..(a - 1)
    BY <1>2, <2>1
  <2> QED
    BY <1>2, <2>1, <2>2
<1> QED
  BY <1>1, <1>2

(* A key of the request has its place.                                     *)
LEMMA KeyHasPlace ==
  ASSUME NEW n \in Nat, DOMAIN request.inputs = 1..n
  PROVE  /\ \A i \in 1..n : \E p \in B!Inputs : B!Key(p) = B!Key(i)
         /\ \A p, q \in B!Inputs : B!Key(p) = B!Key(q) => p = q
<1> DEFINE K   == 1..n
           key == [i \in K |-> B!Key(i)]
<1>1. B!Inputs = Firsts(K, key)
  <2>1. \A i \in 1..n : \A j \in 1..(i - 1) : j \in 1..n
    OBVIOUS
  <2> QED
    BY <2>1 DEF B!Inputs, Firsts
<1>2. K \in SUBSET (1..n) /\ \A i \in K : key[i] = B!Key(i)
  OBVIOUS
<1>3. K = 1..n
  OBVIOUS
<1> HIDE DEF key, K
<1>4. /\ \A i \in K : \E p \in Firsts(K, key) : key[p] = key[i]
      /\ \A p, q \in Firsts(K, key) : key[p] = key[q] => p = q
  BY <1>2, FirstPlaces
<1>5. Firsts(K, key) \subseteq K
  BY DEF Firsts
<1> QED
  BY <1>1, <1>2, <1>3, <1>4, <1>5

(* What the answer is made of, when every target was taken and done.       *)
LEMMA BatchAnswered ==
  ASSUME B!BatchAssumption, BatchInv, pc = "answered"
  PROVE  LET N == Cardinality(B!Targets)
             U == Cardinality(B!Unsupported)
             D == Cardinality(B!Deferred)
             P == Cardinality(Pointless)
         IN /\ N \in Nat /\ U \in Nat /\ D \in Nat /\ P \in Nat
            /\ answer.items = results /\ DOMAIN results = 1..N
            /\ \A k \in 1..N : /\ results[k].market = B!Key(TargetAt(k))
                               /\ results[k].points \in Int
            /\ Pointless \in SUBSET (1..N) /\ IsFiniteSet(Pointless)
            /\ DOMAIN answer.missing = 1..(U + P)
            /\ \A k \in 1..U : answer.missing[k].of = B!Key(Sorted(B!Unsupported)[k])
            /\ \A k \in 1..P : answer.missing[U + k].of = B!Key(TargetAt(Sorted(Pointless)[k]))
            /\ DOMAIN answer.deferred = 1..D
            /\ \A k \in 1..D : answer.deferred[k] = B!Key(Sorted(B!Deferred)[k])
<1> DEFINE N == Cardinality(B!Targets)
           U == Cardinality(B!Unsupported)
           D == Cardinality(B!Deferred)
           P == Cardinality(Pointless)
<1>1. PICK n \in Nat : DOMAIN request.inputs = 1..n
  BY DEF BatchInv
<1>2. /\ N \in Nat /\ B!Targets \in SUBSET Int /\ IsFiniteSet(B!Targets)
      /\ U \in Nat /\ B!Unsupported \in SUBSET Int /\ IsFiniteSet(B!Unsupported)
      /\ D \in Nat /\ B!Deferred \in SUBSET Int /\ IsFiniteSet(B!Deferred)
  BY <1>1, PlacesFinite, BatchPlaces
<1>3. WorkOk /\ AnswerOk /\ next > N /\ busy = {}
  BY DEF BatchInv
<1>4. next = N + 1 /\ Len(results) \in Nat /\ Len(results) = N /\ results \in Seq(GraphItems)
  <2>1. next \in Nat /\ next = N + 1 /\ Len(results) \in Nat /\ Len(results) <= N
        /\ results \in Seq(GraphItems)
    BY <1>2, <1>3 DEF WorkOk
  <2>2. N \in 1..(next - 1) => N <= Len(results)
    BY <1>3 DEF WorkOk
  <2> QED
    BY <1>2, <2>1, <2>2
<1>5. DOMAIN results = 1..N /\ \A k \in 1..N : results[k] \in GraphItems
  BY <1>4
<1>6. ASSUME NEW k \in 1..N
      PROVE  results[k].market = B!Key(TargetAt(k)) /\ results[k].points \in Int
  <2>1. results[k].market = B!At(TargetAt(k)).market
    BY <1>2, <1>3, <1>4 DEF WorkOk
  <2>2. TargetAt(k) \in B!Targets
    BY <1>2, SortedFacts DEF TargetAt
  <2>3. B!At(TargetAt(k)).market = B!Key(TargetAt(k))
    BY <2>2, KeyFacts DEF B!Targets, B!HasRow
  <2>4. results[k].points \in B!Points
    BY <1>5 DEF GraphItems
  <2> QED
    BY <2>1, <2>3, <2>4 DEF B!Points
<1>7. Pointless \in SUBSET (1..N) /\ IsFiniteSet(Pointless) /\ P \in Nat
      /\ Pointless \in SUBSET Int
  <2>1. Pointless \in SUBSET (1..N)
    BY <1>5 DEF Pointless
  <2>2. IsFiniteSet(1..N)
    BY <1>2, FS_Interval
  <2>3. IsFiniteSet(Pointless)
    BY <2>1, <2>2, FS_Subset
  <2>4. \A i \in 1..N : i \in Int
    BY <1>2
  <2> HIDE DEF N
  <2> QED
    BY <2>1, <2>3, <2>4, FS_CardinalityType
<1> DEFINE u == [k \in 1..U |-> B!Missing(Sorted(B!Unsupported)[k])]
           w == [k \in 1..P |-> [of |-> results[Sorted(Pointless)[k]].market, reason |-> "points"]]
           R == {u[k] : k \in 1..U} \cup {w[k] : k \in 1..P}
<1>8. answer.missing = u \o w
  <2>1. DOMAIN Sorted(B!Unsupported) = 1..U /\ DOMAIN Sorted(Pointless) = 1..P
    BY <1>2, <1>7, SortedFacts
  <2> QED
    BY <1>3, <2>1 DEF AnswerOk
<1>9. u \in Seq(R) /\ w \in Seq(R) /\ Len(u) = U /\ Len(w) = P
  <2>1. u \in [1..U -> R] /\ w \in [1..P -> R]
    OBVIOUS
  <2> HIDE DEF u, w, R
  <2> QED
    BY <1>2, <1>7, <2>1
<1>10. /\ \A k \in 1..U : u[k].of = B!Key(Sorted(B!Unsupported)[k])
       /\ \A k \in 1..P : w[k].of = results[Sorted(Pointless)[k]].market
  BY DEF B!Missing
<1> HIDE DEF u, w, R
<1>11. /\ u \o w \in Seq(R) /\ DOMAIN (u \o w) = 1..(U + P)
       /\ \A k \in 1..U : (u \o w)[k] = u[k]
       /\ \A k \in 1..P : (u \o w)[U + k] = w[k]
  BY <1>2, <1>7, <1>9
<1>12. \A k \in 1..P : Sorted(Pointless)[k] \in 1..N
  BY <1>7, SortedFacts
<1>13. DOMAIN answer.deferred = 1..D /\ \A k \in 1..D : answer.deferred[k] = B!Key(Sorted(B!Deferred)[k])
  BY <1>2, <1>3, SortedFacts DEF AnswerOk
<1> HIDE DEF N, U, D, P
<1>14. \A k \in 1..P : answer.missing[U + k].of = B!Key(TargetAt(Sorted(Pointless)[k]))
  <2> SUFFICES ASSUME NEW k \in 1..P
               PROVE  answer.missing[U + k].of = B!Key(TargetAt(Sorted(Pointless)[k]))
    OBVIOUS
  <2>1. answer.missing[U + k] = w[k]
    BY <1>8, <1>11
  <2>2. w[k].of = results[Sorted(Pointless)[k]].market
    BY <1>10
  <2>3. results[Sorted(Pointless)[k]].market = B!Key(TargetAt(Sorted(Pointless)[k]))
    BY <1>6, <1>12
  <2> QED
    BY <2>1, <2>2, <2>3
<1> QED
  BY <1>2, <1>3, <1>5, <1>6, <1>7, <1>8, <1>10, <1>11, <1>13, <1>14, ZenonT(60) DEF N, U, D, P, AnswerOk

(* Every key of a batch request is in the answer once - with a graph,      *)
(* missing or deferred - and the items are in the order of the request,    *)
(* whatever order the workers end in, for any spellings, limits and number *)
(* of workers (getMarketSparklineBatch).                                   *)
THEOREM BatchAddsUpHolds ==
  ASSUME B!BatchAssumption
  PROVE  B!Spec => []B!BatchAddsUp
<1>1. B!Init => BatchInv
  BY DEF B!Init, BatchInv, B!NoRequest
<1>2. BatchInv /\ [B!Next]_(B!vars) => BatchInv'
  BY BatchStep
<1>3. BatchInv => B!BatchAddsUp
  <2> SUFFICES ASSUME BatchInv, answer # B!NoAnswer
               PROVE  B!BatchAddsUp
    BY DEF B!BatchAddsUp
  <2>1. pc = "answered"
    BY DEF BatchInv
  <2>2. PICK n \in Nat : DOMAIN request.inputs = 1..n
    BY DEF BatchInv
  <2> DEFINE N == Cardinality(B!Targets)
             U == Cardinality(B!Unsupported)
             D == Cardinality(B!Deferred)
             P == Cardinality(Pointless)
             O == Sorted(B!Targets)
             R == Sorted(B!Unsupported)
             L == Sorted(B!Deferred)
             W == Sorted(Pointless)
  <2>3. /\ N \in Nat /\ U \in Nat /\ D \in Nat /\ P \in Nat
        /\ DOMAIN answer.items = 1..N
        /\ \A k \in 1..N : answer.items[k].market = B!Key(O[k]) /\ answer.items[k].points \in Int
        /\ Pointless = {k \in 1..N : answer.items[k].points < 2}
        /\ DOMAIN answer.missing = 1..(U + P)
        /\ \A k \in 1..U : answer.missing[k].of = B!Key(R[k])
        /\ \A k \in 1..P : answer.missing[U + k].of = B!Key(O[W[k]])
        /\ DOMAIN answer.deferred = 1..D
        /\ \A k \in 1..D : answer.deferred[k] = B!Key(L[k])
    BY <2>1, BatchAnswered DEF TargetAt, Pointless
  <2>4. /\ O \in [1..N -> B!Targets] /\ (\A i, j \in 1..N : O[i] = O[j] => i = j)
        /\ (\A i, j \in 1..N : i < j => O[i] < O[j])
        /\ (\A p \in B!Targets : \E k \in 1..N : O[k] = p)
        /\ R \in [1..U -> B!Unsupported] /\ (\A i, j \in 1..U : R[i] = R[j] => i = j)
        /\ (\A p \in B!Unsupported : \E k \in 1..U : R[k] = p)
        /\ L \in [1..D -> B!Deferred] /\ (\A i, j \in 1..D : L[i] = L[j] => i = j)
        /\ (\A p \in B!Deferred : \E k \in 1..D : L[k] = p)
    BY <2>2, PlacesFinite, BatchPlaces, SortedFacts
  <2>5. /\ W \in [1..P -> Pointless] /\ (\A i, j \in 1..P : W[i] = W[j] => i = j)
        /\ (\A p \in Pointless : \E k \in 1..P : W[k] = p)
    <3>1. Pointless \in SUBSET Int /\ IsFiniteSet(Pointless)
      <4>1. Pointless \in SUBSET (1..N) /\ IsFiniteSet(Pointless)
        BY <2>1, BatchAnswered
      <4> QED
        BY <2>3, <4>1
    <3> QED
      BY <3>1, SortedFacts
  <2> HIDE DEF N, U, D, P, O, R, L, W
  <2>6. /\ \A p, q \in B!Inputs : B!Key(p) = B!Key(q) => p = q
        /\ \A i \in 1..n : \E p \in B!Inputs : B!Key(p) = B!Key(i)
    BY <2>2, KeyHasPlace
  <2> DEFINE withGraph(k) == {i \in 1..N : answer.items[i].market = k /\ answer.items[i].points >= 2}
             missing(k)   == {i \in 1..(U + P) : answer.missing[i].of = k}
             later(k)  == {i \in 1..D : answer.deferred[i] = k}
  <2>7. ASSUME NEW p \in B!Inputs
        PROVE  /\ Cardinality(withGraph(B!Key(p))) \in Nat /\ Cardinality(missing(B!Key(p))) \in Nat
               /\ Cardinality(later(B!Key(p))) \in Nat
               /\ Cardinality(withGraph(B!Key(p))) + Cardinality(missing(B!Key(p)))
                    + Cardinality(later(B!Key(p))) = 1
    <3>1. \A i \in 1..N : O[i] \in B!Inputs /\ (answer.items[i].market = B!Key(p) <=> O[i] = p)
      <4> SUFFICES ASSUME NEW i \in 1..N
                   PROVE  O[i] \in B!Inputs /\ (answer.items[i].market = B!Key(p) <=> O[i] = p)
        OBVIOUS
      <4>1. O[i] \in B!Targets
        BY <2>4
      <4>2. O[i] \in B!Inputs
        BY <4>1, BatchPlaces
      <4>3. answer.items[i].market = B!Key(O[i])
        BY <2>3
      <4>4. B!Key(O[i]) = B!Key(p) => O[i] = p
        BY <2>6, <4>2
      <4> QED
        BY <4>2, <4>3, <4>4
    <3>2. \A i \in 1..U : answer.missing[i].of = B!Key(p) <=> R[i] = p
      <4> SUFFICES ASSUME NEW i \in 1..U
                   PROVE  answer.missing[i].of = B!Key(p) <=> R[i] = p
        OBVIOUS
      <4>1. R[i] \in B!Unsupported
        BY <2>4
      <4>2. R[i] \in B!Inputs
        BY <4>1, BatchPlaces
      <4>3. answer.missing[i].of = B!Key(R[i])
        BY <2>3
      <4>4. B!Key(R[i]) = B!Key(p) => R[i] = p
        BY <2>6, <4>2
      <4> QED
        BY <4>3, <4>4
    <3>3. \A i \in 1..P : W[i] \in 1..N /\ (answer.missing[U + i].of = B!Key(p) <=> O[W[i]] = p)
      BY <2>3, <2>5, <2>6, <3>1
    <3>4. \A i \in 1..D : answer.deferred[i] = B!Key(p) <=> L[i] = p
      <4> SUFFICES ASSUME NEW i \in 1..D
                   PROVE  answer.deferred[i] = B!Key(p) <=> L[i] = p
        OBVIOUS
      <4>1. L[i] \in B!Deferred
        BY <2>4
      <4>2. L[i] \in B!Inputs
        BY <4>1, BatchPlaces
      <4>3. answer.deferred[i] = B!Key(L[i])
        BY <2>3
      <4>4. B!Key(L[i]) = B!Key(p) => L[i] = p
        BY <2>6, <4>2
      <4> QED
        BY <4>3, <4>4
    <3>5. \A i \in 1..(U + P) : i \in 1..U \/ (i - U \in 1..P /\ i = U + (i - U))
      BY <2>3
    <3>7. CASE p \in B!Deferred
      <4>1. p \notin B!Targets /\ p \notin B!Unsupported
        BY <3>7, BatchPlaces
      <4>2. withGraph(B!Key(p)) = {} /\ missing(B!Key(p)) = {}
        BY <2>4, <3>1, <3>2, <3>3, <3>5, <4>1
      <4>3. PICK k \in 1..D : L[k] = p
        BY <2>4, <3>7
      <4>4. later(B!Key(p)) = {k}
        BY <2>4, <3>4, <4>3
      <4>c. Cardinality(withGraph(B!Key(p))) = 0 /\ Cardinality(missing(B!Key(p))) = 0
           /\ Cardinality(later(B!Key(p))) = 1
        BY <4>2, <4>4, FS_EmptySet, FS_Singleton
      <4> HIDE DEF withGraph, missing, later
      <4> QED
        BY <4>c
    <3>8. CASE p \in B!Unsupported
      <4>1. p \notin B!Targets /\ p \notin B!Deferred
        BY <3>8, BatchPlaces
      <4>2. withGraph(B!Key(p)) = {} /\ later(B!Key(p)) = {}
        BY <2>4, <3>1, <3>4, <4>1
      <4>3. PICK k \in 1..U : R[k] = p
        BY <2>4, <3>8
      <4>4. k \in 1..(U + P)
        BY <2>3
      <4>5. missing(B!Key(p)) = {k}
        BY <2>4, <3>2, <3>3, <3>5, <4>1, <4>3, <4>4
      <4>c. Cardinality(withGraph(B!Key(p))) = 0 /\ Cardinality(missing(B!Key(p))) = 1
           /\ Cardinality(later(B!Key(p))) = 0
        BY <4>2, <4>5, FS_EmptySet, FS_Singleton
      <4> HIDE DEF withGraph, missing, later
      <4> QED
        BY <4>c
    <3>9. CASE p \in B!Targets
      <4>1. p \notin B!Unsupported /\ p \notin B!Deferred
        BY <3>9, BatchPlaces
      <4>2. later(B!Key(p)) = {}
        BY <2>4, <3>4, <4>1
      <4>3. PICK k \in 1..N : O[k] = p
        BY <2>4, <3>9
      <4>4. \A i \in 1..N : O[i] = p <=> i = k
        BY <2>4, <4>3
      <4>5. \A i \in 1..P : O[W[i]] = p <=> W[i] = k
        BY <3>3, <4>4
      <4>6. \A i \in 1..U : R[i] # p
        BY <2>4, <4>1
      <4>7. CASE answer.items[k].points < 2
        <5>1. withGraph(B!Key(p)) = {}
          BY <2>3, <3>1, <4>4, <4>7
        <5>2. PICK i \in 1..P : W[i] = k
          BY <2>3, <2>5, <4>7
        <5>3. U + i \in 1..(U + P)
          BY <2>3
        <5>4. missing(B!Key(p)) = {U + i}
          <6>1. U + i \in missing(B!Key(p))
            BY <3>3, <4>5, <5>2, <5>3
          <6>2. ASSUME NEW j \in missing(B!Key(p))
                PROVE  j = U + i
            <7>1. j - U \in 1..P /\ j = U + (j - U)
              BY <3>2, <3>5, <4>6
            <7>2. W[j - U] = k
              BY <3>3, <4>5, <7>1
            <7>3. j - U = i
              BY <2>5, <5>2, <7>1, <7>2
            <7> QED
              BY <7>1, <7>3
          <6> QED
            BY <6>1, <6>2
        <5>c. Cardinality(withGraph(B!Key(p))) = 0 /\ Cardinality(missing(B!Key(p))) = 1
             /\ Cardinality(later(B!Key(p))) = 0
          BY <4>2, <5>1, <5>4, FS_EmptySet, FS_Singleton
        <5> HIDE DEF withGraph, missing, later
        <5> QED
          BY <5>c
      <4>8. CASE ~(answer.items[k].points < 2)
        <5>1. withGraph(B!Key(p)) = {k}
          BY <2>3, <3>1, <4>4, <4>8
        <5>2. \A i \in 1..P : W[i] # k
          BY <2>3, <2>5, <4>8
        <5>3. missing(B!Key(p)) = {}
          BY <3>2, <3>3, <3>5, <4>5, <4>6, <5>2
        <5>c. Cardinality(withGraph(B!Key(p))) = 1 /\ Cardinality(missing(B!Key(p))) = 0
             /\ Cardinality(later(B!Key(p))) = 0
          BY <4>2, <5>1, <5>3, FS_EmptySet, FS_Singleton
        <5> HIDE DEF withGraph, missing, later
        <5> QED
          BY <5>c
      <4> QED
        BY <4>7, <4>8
    <3> QED
      BY <3>7, <3>8, <3>9, BatchPlaces
  <2> DEFINE asked == {IF i \in DOMAIN MarketOf THEN MarketOf[i] ELSE i :
                         i \in {request.inputs[k] : k \in DOMAIN request.inputs}}
             place(m) == CHOOSE i \in DOMAIN request.inputs :
                           /\ request.inputs[i] \in DOMAIN MarketOf /\ MarketOf[request.inputs[i]] = m
                           /\ \A j \in 1..(i - 1) :
                                request.inputs[j] \in DOMAIN MarketOf => MarketOf[request.inputs[j]] # m
  <2>8. \A k \in asked : \E p \in B!Inputs : k = B!Key(p)
    <3> SUFFICES ASSUME NEW i \in DOMAIN request.inputs
                 PROVE  \E p \in B!Inputs : AskedOf(request.inputs[i]) = B!Key(p)
      BY DEF AskedOf
    <3> QED
      BY <2>2, <2>6, KeyFacts
  <2>9. ASSUME NEW k \in 1..N
        PROVE  place(answer.items[k].market) = O[k]
    <3> DEFINE m == B!Key(O[k])
               first(i) == /\ request.inputs[i] \in DOMAIN MarketOf /\ MarketOf[request.inputs[i]] = m
                           /\ \A j \in 1..(i - 1) :
                                request.inputs[j] \in DOMAIN MarketOf => MarketOf[request.inputs[j]] # m
    <3>1. O[k] \in B!Targets /\ O[k] \in B!Inputs /\ O[k] \in 1..n
      BY <2>2, <2>4, BatchPlaces
    <3>2. request.inputs[O[k]] \in DOMAIN MarketOf /\ MarketOf[request.inputs[O[k]]] = m
      BY <3>1, KeyFacts DEF B!Targets, B!HasRow, AskedOf
    <3>3. \A j \in 1..(O[k] - 1) : request.inputs[j] \in DOMAIN MarketOf => MarketOf[request.inputs[j]] # m
      BY <3>1, KeyFacts DEF B!Inputs, AskedOf
    <3>4. first(O[k])
      BY <3>2, <3>3
    <3>5. ASSUME NEW i \in 1..n, first(i), i # O[k]
          PROVE  FALSE
      <4>1. i \in 1..(O[k] - 1) \/ O[k] \in 1..(i - 1)
        BY <3>1, <3>5
      <4> QED
        BY <3>2, <3>3, <3>5, <4>1
    <3>6. place(m) = CHOOSE i \in 1..n : first(i)
      BY <2>2
    <3> HIDE DEF first, place, m
    <3>7. (CHOOSE i \in 1..n : first(i)) = O[k]
      BY <3>1, <3>4, <3>5
    <3> QED
      BY <2>3, <3>6, <3>7 DEF m
  <2>10. ASSUME NEW i \in 1..N, NEW j \in 1..N, i < j
         PROVE  place(answer.items[i].market) < place(answer.items[j].market)
    <3>1. place(answer.items[i].market) = O[i] /\ place(answer.items[j].market) = O[j]
      BY <2>9
    <3> HIDE DEF place
    <3> QED
      BY <2>4, <2>10, <3>1
  <2>11. \A k \in asked : /\ Cardinality(withGraph(k)) + Cardinality(missing(k)) + Cardinality(later(k)) = 1
    BY <2>7, <2>8
  <2>12. /\ DOMAIN answer.items = 1..N /\ DOMAIN answer.missing = 1..(U + P)
         /\ DOMAIN answer.deferred = 1..D
    BY <2>3
  <2> QED
    BY <2>10, <2>11, <2>12, BatchSizes DEF B!BatchAddsUp
<1> QED
  BY <1>1, <1>2, <1>3, PTL DEF B!Spec

-----------------------------------------------------------------------------
(* The premiums of many symbols (KimchiBatches): chunks end in any order   *)
(* and some fail, and every token of the request is accounted for.         *)
CONSTANTS Token, SymbolOf, Comparable, Representative, ChunkSize, FastPath, MaxTokens
VARIABLES chunks

KP == INSTANCE KimchiBatches

Named        == (DOMAIN request.tokens) \ KP!Rejected(request)
SymAt        == [i \in Named |-> KP!SymbolAt(request, i)]
AskedPlaces  == KP!Asked(request)
ChunkAt(i)   == KP!ChunkOf(request, i)
AllRows(s)   == KP!RowsFor(s) \cup {KP!FailedRow}
Failure(s, row) == [symbol |-> s, code |-> row.code]

(* A chunk that has settled has a row for each of its symbols and tells    *)
(* the code of each that has one.                                          *)
SettledAs(load, places, sym) ==
  /\ DOMAIN load.rows = places
  /\ \A i \in places :
       /\ load.rows[i] \in AllRows(sym[i])
       /\ load.rows[i].code # "none" => Failure(sym[i], load.rows[i]) \in load.failures
  /\ \A f \in load.failures :
       \/ f.symbol = "all"
       \/ \E i \in places : load.rows[i].code # "none" /\ f = Failure(sym[i], load.rows[i])

Settled(c) == SettledAs(chunks[c], KP!Chunk(c), SymAt)

ChunksInv ==
  /\ DOMAIN chunks = KP!ChunksOf(request)
  /\ \A c \in DOMAIN chunks : chunks[c] = KP!Pending \/ Settled(c)

KimchiInv ==
  /\ \E n \in Nat : DOMAIN request.tokens = 1..n
  /\ request = KP!NoRequest => answer = KP!NoAnswer /\ chunks = <<>>
  /\ request # KP!NoRequest => request.route \in {"batch", "sparkline"}
  /\ request # KP!NoRequest /\ answer = KP!NoAnswer => ChunksInv
  /\ KP!EveryTokenAccountedFor

LEMMA SettledNext ==
  ASSUME NEW c, KP!Chunk(c)' = KP!Chunk(c), SymAt' = SymAt
  PROVE  Settled(c)' <=> SettledAs(chunks'[c], KP!Chunk(c), SymAt)
BY DEF Settled, SettledAs, AllRows, KP!RowsFor, KP!FailedRow, KP!Row, Failure

LEMMA KimchiSizes == \A X : KP!Cardinality(X) = Cardinality(X)
BY DEF KP!Cardinality, KP!IsFiniteSet, Cardinality, IsFiniteSet

LEMMA KimchiOrdered == ASSUME NEW K PROVE KP!Ordered(K) = Sorted(K)
BY DEF KP!Ordered, Sorted, KP!Cardinality, KP!IsFiniteSet, Cardinality, IsFiniteSet

(* A symbol of the request has one place, and it is not asked for only     *)
(* when the sparkline route skips it.                                      *)
LEMMA SymbolPlaces ==
  ASSUME NEW n \in Nat, DOMAIN request.tokens = 1..n
  PROVE  /\ Named \subseteq 1..n /\ KP!Symbols(request) \subseteq Named
         /\ AskedPlaces = KP!Symbols(request) \ KP!Skipped(request)
         /\ KP!Skipped(request) \subseteq KP!Symbols(request)
         /\ \A i \in 1..n : request.tokens[i] \in DOMAIN SymbolOf
              <=> i \in Named
         /\ \A i \in Named : SymAt[i] = SymbolOf[request.tokens[i]]
                             /\ KP!SymbolAt(request, i) = SymAt[i]
         /\ \A i \in Named : \E p \in KP!Symbols(request) : SymAt[p] = SymAt[i]
         /\ \A p, q \in KP!Symbols(request) : SymAt[p] = SymAt[q] => p = q
<1>1. Named \in SUBSET (1..n)
  BY DEF Named
<1>2. KP!Symbols(request) = Firsts(Named, SymAt)
  <2>1. \A i \in Named : \A j \in 1..(i - 1) : j \in Named <=> j \notin KP!Rejected(request)
    BY DEF Named
  <2> QED
    BY <2>1 DEF KP!Symbols, Firsts, Named, SymAt
<1>3. /\ \A i \in Named : \E p \in KP!Symbols(request) : SymAt[p] = SymAt[i]
      /\ \A p, q \in KP!Symbols(request) : SymAt[p] = SymAt[q] => p = q
  BY <1>1, <1>2, FirstPlaces
<1>4. KP!Symbols(request) \subseteq Named
  BY <1>2 DEF Firsts
<1>5. \A i \in 1..n : request.tokens[i] \in DOMAIN SymbolOf <=> i \in Named
  BY DEF Named, KP!Rejected
<1>6. \A i \in Named : SymAt[i] = SymbolOf[request.tokens[i]] /\ KP!SymbolAt(request, i) = SymAt[i]
  BY DEF SymAt, KP!SymbolAt
<1> QED
  BY <1>1, <1>3, <1>4, <1>5, <1>6 DEF AskedPlaces, KP!Asked, KP!Skipped

LEMMA KimchiStarts == KP!Init => KimchiInv
<1> SUFFICES ASSUME KP!Init PROVE KimchiInv
  OBVIOUS
<1>1. request = KP!NoRequest /\ answer = KP!NoAnswer /\ chunks = <<>>
  BY DEF KP!Init
<1>2. DOMAIN request.tokens = 1..0 /\ answer.kind = "none"
  BY <1>1 DEF KP!NoRequest, KP!NoAnswer
<1>3. KP!EveryTokenAccountedFor
  BY <1>2 DEF KP!EveryTokenAccountedFor
<1> QED
  BY <1>1, <1>2, <1>3 DEF KimchiInv

LEMMA KimchiAsks == ASSUME KimchiInv, KP!Asks PROVE KimchiInv'
<1>1. request = KP!NoRequest /\ answer = KP!NoAnswer
  BY DEF KP!Asks, KimchiInv
<1>2. PICK route \in {"batch", "sparkline"}, n \in 1..MaxTokens : \E tokens \in [1..n -> Token] :
        /\ request' = [route |-> route, tokens |-> tokens]
        /\ \/ answer' = [kind |-> "bad_request"]
           \/ answer' = answer /\ chunks' = [c \in KP!ChunksOf(request') |-> KP!Pending]
  BY DEF KP!Asks
<1>3. PICK tokens \in [1..n -> Token] :
        /\ request' = [route |-> route, tokens |-> tokens]
        /\ \/ answer' = [kind |-> "bad_request"]
           \/ answer' = answer /\ chunks' = [c \in KP!ChunksOf(request') |-> KP!Pending]
  BY <1>2
<1>4. /\ n \in Nat /\ DOMAIN request'.tokens = 1..n /\ request'.route \in {"batch", "sparkline"}
      /\ answer'.kind \in {"none", "bad_request"} /\ KP!NoAnswer' = KP!NoAnswer
      /\ request' # KP!NoRequest /\ KP!NoRequest' = KP!NoRequest
  <2>1. request'.route = route /\ request'.tokens = tokens /\ route # "none"
    BY <1>3
  <2>2. request' # KP!NoRequest
    BY <2>1 DEF KP!NoRequest
  <2>3. answer'.kind \in {"none", "bad_request"}
    BY <1>1, <1>3 DEF KP!NoAnswer
  <2> QED
    BY <1>2, <2>1, <2>2, <2>3 DEF KP!NoAnswer, KP!NoRequest
<1>5. answer' = KP!NoAnswer => ChunksInv'
  <2> SUFFICES ASSUME answer' = KP!NoAnswer PROVE ChunksInv'
    OBVIOUS
  <2>1. chunks' = [c \in KP!ChunksOf(request') |-> KP!Pending]
    BY <1>3 DEF KP!NoAnswer
  <2>2. KP!Pending' = KP!Pending /\ KP!ChunksOf(request)' = KP!ChunksOf(request')
    BY DEF KP!Pending
  <2> QED
    BY <2>1, <2>2 DEF ChunksInv
<1>6. KP!EveryTokenAccountedFor'
  BY <1>4 DEF KP!EveryTokenAccountedFor
<1> QED
  BY <1>3, <1>4, <1>5, <1>6 DEF KimchiInv

(* A load that ends makes its chunk settled and leaves the others be.      *)
LEMMA KimchiSettles ==
  ASSUME KimchiInv, NEW c \in DOMAIN chunks, NEW load, chunks' = [chunks EXCEPT ![c] = load],
         UNCHANGED <<request, answer>>, request # KP!NoRequest, answer = KP!NoAnswer,
         Settled(c)'
  PROVE  KimchiInv'
<1>1. ChunksInv /\ DOMAIN chunks' = DOMAIN chunks
  BY DEF KimchiInv
<1>2. KP!ChunksOf(request)' = KP!ChunksOf(request) /\ KP!Pending' = KP!Pending
  BY DEF KP!Pending
<1>3. \A d : KP!Chunk(d)' = KP!Chunk(d) /\ SymAt' = SymAt
  BY DEF KP!Chunk, SymAt, Named
<1>4. ASSUME NEW d \in DOMAIN chunks, d # c
      PROVE  (chunks[d] = KP!Pending \/ Settled(d))'
  <2>1. chunks'[d] = chunks[d]
    BY <1>4
  <2>2. chunks[d] = KP!Pending \/ Settled(d)
    BY <1>1 DEF ChunksInv
  <2>3. Settled(d) => Settled(d)'
    BY <1>3, <2>1, SettledNext DEF Settled
  <2> QED
    BY <1>2, <2>1, <2>2, <2>3
<1>5. ChunksInv'
  BY <1>1, <1>2, <1>4 DEF ChunksInv
<1>6. KP!EveryTokenAccountedFor'
  BY DEF KP!NoAnswer, KP!EveryTokenAccountedFor
<1> QED
  BY <1>5, <1>6 DEF KimchiInv, KP!NoRequest, KP!NoAnswer

LEMMA ChunkNamed ==
  ASSUME KimchiInv, NEW c
  PROVE  KP!Chunk(c) \subseteq Named /\ \A i \in KP!Chunk(c) : KP!SymbolAt(request, i) = SymAt[i]
<1>1. PICK n \in Nat : DOMAIN request.tokens = 1..n
  BY DEF KimchiInv
<1>2. KP!Chunk(c) \subseteq AskedPlaces
  BY DEF KP!Chunk, AskedPlaces
<1> QED
  BY <1>1, <1>2, SymbolPlaces

LEMMA KimchiLoads ==
  ASSUME KimchiInv, NEW c \in DOMAIN chunks, request # KP!NoRequest, KP!ChunkLoads(c)
  PROVE  KimchiInv'
<1>1. answer = KP!NoAnswer /\ UNCHANGED <<request, answer>>
  BY DEF KP!ChunkLoads
<1>2. PICK loaded : /\ DOMAIN loaded = KP!Chunk(c)
                    /\ \A i \in KP!Chunk(c) : loaded[i] \in KP!RowsFor(KP!SymbolAt(request, i))
                    /\ chunks' = [chunks EXCEPT ![c] = KP!Loaded(loaded)]
  BY DEF KP!ChunkLoads
<1>3. chunks'[c] = KP!Loaded(loaded)
  BY <1>2
<1>4. chunks'[c].rows = loaded /\ chunks'[c].failures = KP!FailuresOf(loaded)
  BY <1>3 DEF KP!Loaded
<1>5. \A i \in KP!Chunk(c) : loaded[i] \in AllRows(SymAt[i])
  BY <1>2, ChunkNamed DEF AllRows
<1>6. \A i \in KP!Chunk(c) : loaded[i].code # "none" => Failure(SymAt[i], loaded[i]) \in KP!FailuresOf(loaded)
  BY <1>2, ChunkNamed DEF Failure, KP!FailuresOf
<1>7. ASSUME NEW f \in KP!FailuresOf(loaded), f.symbol # "all"
      PROVE  \E i \in KP!Chunk(c) : loaded[i].code # "none" /\ f = Failure(SymAt[i], loaded[i])
  <2>1. f \notin {[symbol |-> "all", code |-> "ALL_PROVIDERS_FAILED"]}
    BY <1>7
  <2>2. PICK i \in DOMAIN loaded : loaded[i].code # "none"
                /\ f = [symbol |-> KP!SymbolAt(request, i), code |-> loaded[i].code]
    BY <2>1 DEF KP!FailuresOf
  <2> QED
    BY <1>2, <2>2, ChunkNamed DEF Failure
<1>8. KP!Chunk(c)' = KP!Chunk(c) /\ SymAt' = SymAt
  BY <1>1 DEF KP!Chunk, SymAt, Named
<1>9. Settled(c)'
  BY <1>2, <1>4, <1>5, <1>6, <1>7, <1>8, SettledNext DEF SettledAs
<1> QED
  BY <1>1, <1>2, <1>9, KimchiSettles

LEMMA KimchiFails ==
  ASSUME KimchiInv, NEW c \in DOMAIN chunks, request # KP!NoRequest, KP!ChunkFails(c)
  PROVE  KimchiInv'
<1>1. answer = KP!NoAnswer /\ request' = request
  BY DEF KP!ChunkFails
<1>2. CASE chunks' = [chunks EXCEPT ![c] = KP!FailedChunk(KP!Chunk(c))] /\ answer' = answer
  <2>1. chunks'[c] = KP!FailedChunk(KP!Chunk(c))
    BY <1>2
  <2>2. /\ chunks'[c].rows = [i \in KP!Chunk(c) |-> KP!FailedRow]
        /\ chunks'[c].failures = {[symbol |-> KP!SymbolAt(request, i), code |-> KP!FailedRow.code] :
                                    i \in KP!Chunk(c)}
    BY <2>1 DEF KP!FailedChunk
  <2>3. KP!Chunk(c)' = KP!Chunk(c) /\ SymAt' = SymAt
    BY <1>1 DEF KP!Chunk, SymAt, Named
  <2>4. KP!FailedRow.code # "none" /\ KP!FailedRow' = KP!FailedRow
    BY DEF KP!FailedRow, KP!Row
  <2>5. \A i \in KP!Chunk(c) : [symbol |-> KP!SymbolAt(request, i), code |-> KP!FailedRow.code]
                               = Failure(SymAt[i], KP!FailedRow)
    BY ChunkNamed DEF Failure
  <2>6. \A i \in KP!Chunk(c) : Failure(SymAt[i], KP!FailedRow) \in chunks'[c].failures
    BY <2>2, <2>5
  <2>7. \A f \in chunks'[c].failures : \E i \in KP!Chunk(c) : f = Failure(SymAt[i], KP!FailedRow)
    BY <2>2, <2>5
  <2>8. \A s : KP!FailedRow \in AllRows(s)
    BY DEF AllRows
  <2>9. DOMAIN chunks'[c].rows = KP!Chunk(c) /\ \A i \in KP!Chunk(c) : chunks'[c].rows[i] = KP!FailedRow
    BY <2>2
  <2> DEFINE load == chunks'[c]
             places == KP!Chunk(c)
  <2>10. \A i \in places : load.rows[i] = KP!FailedRow
    BY <2>9
  <2>11. \A f \in load.failures :
           \E i \in places : load.rows[i].code # "none" /\ f = Failure(SymAt[i], load.rows[i])
    <3> SUFFICES ASSUME NEW f \in load.failures
                 PROVE  \E i \in places : load.rows[i].code # "none" /\ f = Failure(SymAt[i], load.rows[i])
      OBVIOUS
    <3>1. PICK i \in places : f = Failure(SymAt[i], KP!FailedRow)
      BY <2>7
    <3>2. load.rows[i] = KP!FailedRow
      BY <2>10
    <3> QED
      BY <2>4, <3>1, <3>2
  <2>12. \A i \in places : /\ load.rows[i] \in AllRows(SymAt[i])
                           /\ Failure(SymAt[i], load.rows[i]) \in load.failures
    BY <2>6, <2>8, <2>10
  <2>13. DOMAIN load.rows = places
    BY <2>9
  <2> HIDE DEF load, places
  <2>14. SettledAs(load, places, SymAt)
    BY <2>11, <2>12, <2>13 DEF SettledAs
  <2>15. Settled(c)'
    BY <2>3, <2>14, SettledNext DEF load, places
  <2> QED
    BY <1>1, <1>2, <2>15, KimchiSettles
<1>3. CASE answer' = [kind |-> "failed"] /\ chunks' = chunks
  <2>1. KP!EveryTokenAccountedFor'
    BY <1>3 DEF KP!EveryTokenAccountedFor
  <2>2. answer' # KP!NoAnswer /\ KP!NoAnswer' = KP!NoAnswer /\ KP!NoRequest' = KP!NoRequest
    <3>1. answer'.kind # KP!NoAnswer.kind
      BY <1>3 DEF KP!NoAnswer
    <3> QED
      BY <3>1 DEF KP!NoAnswer, KP!NoRequest
  <2> QED
    BY <1>1, <2>1, <2>2 DEF KimchiInv
<1> QED
  BY <1>2, <1>3 DEF KP!ChunkFails

-----------------------------------------------------------------------------
(* What has settled is merged: each symbol asked for is entered once, at   *)
(* its place, with the row its chunk has for it.                           *)
RowAt(i) == chunks[ChunkAt(i)].rows[i]
EntryAt(i) == [symbol |-> SymAt[i], row |-> RowAt(i)]

Answering ==
  KimchiInv /\ request # KP!NoRequest /\ answer = KP!NoAnswer /\ KP!AllSettled

LEMMA AskedAre ==
  ASSUME Answering
  PROVE  /\ AskedPlaces \in SUBSET Int /\ IsFiniteSet(AskedPlaces)
         /\ AskedPlaces \subseteq Named
         /\ \A i \in AskedPlaces : KP!SymbolAt(request, i) = SymAt[i]
         /\ \A p, q \in AskedPlaces : SymAt[p] = SymAt[q] => p = q
<1>1. PICK n \in Nat : DOMAIN request.tokens = 1..n
  BY DEF Answering, KimchiInv
<1>2. AskedPlaces \subseteq 1..n
  BY <1>1, SymbolPlaces
<1>3. IsFiniteSet(AskedPlaces)
  <2>1. IsFiniteSet(1..n)
    BY <1>1, FS_Interval
  <2> QED
    BY <1>2, <2>1, FS_Subset
<1>4. 1..n \in SUBSET Int
  BY <1>1
<1> QED
  BY <1>1, <1>2, <1>3, <1>4, SymbolPlaces

LEMMA AskedSettled ==
  ASSUME Answering
  PROVE  /\ \A c \in DOMAIN chunks : SettledAs(chunks[c], KP!Chunk(c), SymAt)
         /\ \A i \in AskedPlaces : ChunkAt(i) \in DOMAIN chunks /\ i \in KP!Chunk(ChunkAt(i))
         /\ \A c \in DOMAIN chunks : \A i \in KP!Chunk(c) : i \in AskedPlaces /\ c = ChunkAt(i)
<1>1. ChunksInv
  BY DEF Answering, KimchiInv
<1>2. \A c \in DOMAIN chunks : SettledAs(chunks[c], KP!Chunk(c), SymAt)
  BY <1>1 DEF ChunksInv, Answering, KP!AllSettled, Settled
<1>3. \A i \in AskedPlaces : ChunkAt(i) \in DOMAIN chunks
  BY <1>1 DEF ChunksInv, KP!ChunksOf, ChunkAt, AskedPlaces
<1>4. \A c : \A i : i \in KP!Chunk(c) <=> i \in AskedPlaces /\ c = ChunkAt(i)
  BY DEF KP!Chunk, ChunkAt, AskedPlaces
<1> QED
  BY <1>2, <1>3, <1>4

LEMMA MergesRows ==
  ASSUME Answering, NEW i \in AskedPlaces
  PROVE  KP!RowOf(SymAt[i]) = EntryAt(i) /\ RowAt(i) \in AllRows(SymAt[i])
<1>1. /\ ChunkAt(i) \in DOMAIN chunks /\ i \in KP!Chunk(ChunkAt(i))
      /\ \A c \in DOMAIN chunks : DOMAIN chunks[c].rows = KP!Chunk(c)
      /\ RowAt(i) \in AllRows(SymAt[i])
  BY AskedSettled DEF SettledAs, RowAt
<1>2. \A c \in DOMAIN chunks : \A j \in DOMAIN chunks[c].rows :
        KP!SymbolAt(request, j) = SymAt[i] <=> j = i
  <2>1. \A c \in DOMAIN chunks : \A j \in DOMAIN chunks[c].rows : j \in AskedPlaces
    BY <1>1, AskedSettled
  <2> QED
    BY <2>1, AskedAre
<1>3. \A c \in DOMAIN chunks : (\E j \in DOMAIN chunks[c].rows : KP!SymbolAt(request, j) = SymAt[i])
                                <=> c = ChunkAt(i)
  BY <1>1, <1>2, AskedSettled
<1> DEFINE load == CHOOSE c \in DOMAIN chunks :
                     \E j \in DOMAIN chunks[c].rows : KP!SymbolAt(request, j) = SymAt[i]
           place == CHOOSE j \in DOMAIN chunks[load].rows : KP!SymbolAt(request, j) = SymAt[i]
<1>4. load = ChunkAt(i)
  BY <1>1, <1>3
<1> HIDE DEF load
<1>5. place = i
  BY <1>1, <1>2, <1>4
<1> HIDE DEF place
<1>6. KP!RowOf(SymAt[i]) = [symbol |-> SymAt[i], row |-> chunks[load].rows[place]]
  BY DEF KP!RowOf, load, place
<1> QED
  BY <1>1, <1>4, <1>5, <1>6 DEF EntryAt, RowAt

LEMMA EntriesAre ==
  ASSUME Answering
  PROVE  /\ DOMAIN KP!Entries = 1..Cardinality(AskedPlaces)
         /\ DOMAIN Sorted(AskedPlaces) = 1..Cardinality(AskedPlaces)
         /\ \A n \in 1..Cardinality(AskedPlaces) :
              /\ Sorted(AskedPlaces)[n] \in AskedPlaces
              /\ KP!Entries[n] = EntryAt(Sorted(AskedPlaces)[n])
<1> DEFINE here == {i \in KP!Asked(request) :
                      \E c \in DOMAIN chunks : \E j \in DOMAIN chunks[c].rows :
                        KP!SymbolAt(request, j) = KP!SymbolAt(request, i)}
<1>1. here = AskedPlaces
  <2>1. \A i \in AskedPlaces : ChunkAt(i) \in DOMAIN chunks /\ i \in DOMAIN chunks[ChunkAt(i)].rows
    BY AskedSettled DEF SettledAs
  <2> QED
    BY <2>1 DEF AskedPlaces
<1>2. KP!Entries = [n \in DOMAIN KP!Ordered(here) |->
                      KP!RowOf(KP!SymbolAt(request, KP!Ordered(here)[n]))]
  BY DEF KP!Entries
<1> HIDE DEF here
<1>3. KP!Ordered(here) = Sorted(AskedPlaces)
  BY <1>1, KimchiOrdered
<1>4. KP!Entries = [n \in DOMAIN Sorted(AskedPlaces) |->
                      KP!RowOf(KP!SymbolAt(request, Sorted(AskedPlaces)[n]))]
  BY <1>2, <1>3
<1>5. /\ DOMAIN Sorted(AskedPlaces) = 1..Cardinality(AskedPlaces)
      /\ \A n \in 1..Cardinality(AskedPlaces) : Sorted(AskedPlaces)[n] \in AskedPlaces
  BY AskedAre, SortedFacts
<1>6. ASSUME NEW n \in 1..Cardinality(AskedPlaces)
      PROVE  KP!Entries[n] = EntryAt(Sorted(AskedPlaces)[n])
  <2>1. KP!SymbolAt(request, Sorted(AskedPlaces)[n]) = SymAt[Sorted(AskedPlaces)[n]]
    BY <1>5, AskedAre
  <2>2. KP!Entries[n] = KP!RowOf(SymAt[Sorted(AskedPlaces)[n]])
    BY <1>4, <1>5, <2>1
  <2> QED
    BY <1>5, <2>2, MergesRows
<1> QED
  BY <1>4, <1>5, <1>6

LEMMA EnteredAre ==
  ASSUME Answering
  PROVE  KP!Entered = {EntryAt(i) : i \in AskedPlaces}
<1>1. \A i \in AskedPlaces : \E n \in 1..Cardinality(AskedPlaces) : Sorted(AskedPlaces)[n] = i
  BY AskedAre, SortedFacts
<1> QED
  BY <1>1, EntriesAre DEF KP!Entered

(* A symbol is told of in exactly the failure its row calls for.           *)
LEMMA FailuresAre ==
  ASSUME KP!KimchiBatchAssumption, Answering, NEW i \in AskedPlaces
  PROVE  {f \in KP!Failures : f.symbol = SymAt[i]}
         = IF RowAt(i).code = "none" THEN {} ELSE {Failure(SymAt[i], RowAt(i))}
<1>1. SymAt[i] # "all"
  <2>1. PICK n \in Nat : DOMAIN request.tokens = 1..n
    BY DEF Answering, KimchiInv
  <2>2. i \in Named /\ i \in 1..n
    BY <2>1, AskedAre, SymbolPlaces
  <2>3. request.tokens[i] \in DOMAIN SymbolOf /\ SymAt[i] = SymbolOf[request.tokens[i]]
    BY <2>1, <2>2, SymbolPlaces
  <2> QED
    BY <2>3 DEF KP!KimchiBatchAssumption
<1>2. ASSUME RowAt(i).code # "none"
      PROVE  Failure(SymAt[i], RowAt(i)) \in KP!Failures
  <2>1. /\ ChunkAt(i) \in DOMAIN chunks
        /\ Failure(SymAt[i], RowAt(i)) \in chunks[ChunkAt(i)].failures
    BY <1>2, AskedSettled DEF SettledAs, RowAt
  <2> QED
    BY <2>1 DEF KP!Failures
<1>3. ASSUME NEW f \in KP!Failures, f.symbol = SymAt[i]
      PROVE  RowAt(i).code # "none" /\ f = Failure(SymAt[i], RowAt(i))
  <2>1. PICK c \in DOMAIN chunks : f \in chunks[c].failures
    BY <1>3 DEF KP!Failures
  <2>2. PICK j \in KP!Chunk(c) : /\ chunks[c].rows[j].code # "none"
                                 /\ f = Failure(SymAt[j], chunks[c].rows[j])
    BY <1>1, <1>3, <2>1, AskedSettled DEF SettledAs
  <2>3. j \in AskedPlaces /\ c = ChunkAt(j) /\ f.symbol = SymAt[j]
    BY <2>2, AskedSettled DEF Failure
  <2>4. j = i
    BY <1>3, <2>3, AskedAre
  <2> QED
    BY <2>2, <2>3, <2>4 DEF RowAt
<1>4. Failure(SymAt[i], RowAt(i)).symbol = SymAt[i]
  BY DEF Failure
<1> QED
  BY <1>2, <1>3, <1>4

LEMMA ListedAre ==
  ASSUME KP!KimchiBatchAssumption, Answering
  PROVE  KP!Unsupported \cup KP!Unavailable = KP!Failures
<1>1. ASSUME NEW x \in KP!Entered, x.row.code # "none", \A f \in KP!Failures : f.symbol # x.symbol
      PROVE  FALSE
  <2>1. PICK i \in AskedPlaces : x = EntryAt(i)
    BY EnteredAre
  <2>2. x.symbol = SymAt[i] /\ x.row = RowAt(i)
    BY <2>1 DEF EntryAt
  <2>3. Failure(SymAt[i], RowAt(i)) \in {f \in KP!Failures : f.symbol = SymAt[i]}
    BY <1>1, <2>2, FailuresAre
  <2> QED
    BY <1>1, <2>2, <2>3
<1>2. KP!Unavailable = KP!Failures \ KP!Unsupported
  BY <1>1 DEF KP!Unavailable
<1> QED
  BY <1>2 DEF KP!Unsupported

(* Every token of the request is accounted for by the entries, whatever    *)
(* the route.                                                              *)
LEMMA TokensEntered ==
  ASSUME Answering
  PROVE  /\ \A i \in DOMAIN request.tokens :
              request.tokens[i] \notin DOMAIN SymbolOf => i \in KP!Rejected(request)
         /\ \A i \in DOMAIN request.tokens :
              request.tokens[i] \in DOMAIN SymbolOf =>
                LET s == SymbolOf[request.tokens[i]] IN
                \E p \in KP!Symbols(request) :
                  /\ SymAt[p] = s /\ KP!SymbolAt(request, p) = s
                  /\ p \in AskedPlaces =>
                       Cardinality({n \in DOMAIN KP!Entries : KP!Entries[n].symbol = s}) = 1
                  /\ p \in KP!Skipped(request) =>
                       {n \in DOMAIN KP!Entries : KP!Entries[n].symbol = s} = {}
         /\ [n \in DOMAIN KP!Entries |-> KP!Entries[n].symbol] = KP!SymbolsOf(request, AskedPlaces)
<1>1. PICK size \in Nat : DOMAIN request.tokens = 1..size
  BY DEF Answering, KimchiInv
<1> DEFINE o == Sorted(AskedPlaces)
           C == Cardinality(AskedPlaces)
<1>2. /\ DOMAIN KP!Entries = 1..C /\ DOMAIN o = 1..C
      /\ \A n \in 1..C : o[n] \in AskedPlaces /\ KP!Entries[n].symbol = SymAt[o[n]]
  BY EntriesAre DEF EntryAt
<1>3. \A i, j \in 1..C : o[i] = o[j] => i = j
  BY AskedAre, SortedFacts
<1>4. \A i \in AskedPlaces : \E n \in 1..C : o[n] = i
  BY AskedAre, SortedFacts
<1>5. KP!Ordered(AskedPlaces) = o
  BY KimchiOrdered
<1> HIDE DEF o, C
<1>6. [n \in DOMAIN KP!Entries |-> KP!Entries[n].symbol] = KP!SymbolsOf(request, AskedPlaces)
  <2>1. \A n \in 1..C : KP!Entries[n].symbol = KP!SymbolAt(request, o[n])
    BY <1>2, AskedAre
  <2>2. KP!SymbolsOf(request, AskedPlaces) = [n \in 1..C |-> KP!SymbolAt(request, o[n])]
    BY <1>2, <1>5 DEF KP!SymbolsOf
  <2>3. [n \in DOMAIN KP!Entries |-> KP!Entries[n].symbol] = [n \in 1..C |-> KP!Entries[n].symbol]
    BY <1>2
  <2> QED
    BY <2>1, <2>2, <2>3
<1>7. ASSUME NEW i \in DOMAIN request.tokens, request.tokens[i] \notin DOMAIN SymbolOf
      PROVE  i \in KP!Rejected(request)
  BY <1>7 DEF KP!Rejected
<1>8. ASSUME NEW i \in DOMAIN request.tokens, request.tokens[i] \in DOMAIN SymbolOf,
             NEW s, s = SymbolOf[request.tokens[i]]
      PROVE  \E p \in KP!Symbols(request) :
               /\ SymAt[p] = s /\ KP!SymbolAt(request, p) = s
               /\ p \in AskedPlaces =>
                    Cardinality({n \in DOMAIN KP!Entries : KP!Entries[n].symbol = s}) = 1
               /\ p \in KP!Skipped(request) =>
                    {n \in DOMAIN KP!Entries : KP!Entries[n].symbol = s} = {}
  <2>1. i \in Named /\ SymAt[i] = s
    BY <1>1, <1>8, SymbolPlaces
  <2>2. PICK p \in KP!Symbols(request) : SymAt[p] = s
    BY <1>1, <2>1, SymbolPlaces
  <2>3. KP!SymbolAt(request, p) = s
    BY <1>1, <2>2, SymbolPlaces
  <2>4. \A n \in 1..C : SymAt[o[n]] = s => o[n] = p
    BY <1>1, <1>2, <2>2, SymbolPlaces
  <2>5. ASSUME p \in AskedPlaces
        PROVE  Cardinality({n \in DOMAIN KP!Entries : KP!Entries[n].symbol = s}) = 1
    <3>1. PICK a \in 1..C : o[a] = p
      BY <1>4, <2>5
    <3>2. {n \in DOMAIN KP!Entries : KP!Entries[n].symbol = s} = {a}
      BY <1>2, <1>3, <2>2, <2>4, <3>1
    <3> QED
      BY <3>2, FS_Singleton
  <2>6. ASSUME p \in KP!Skipped(request)
        PROVE  {n \in DOMAIN KP!Entries : KP!Entries[n].symbol = s} = {}
    <3>1. p \notin AskedPlaces
      BY <1>1, <2>6, SymbolPlaces
    <3> QED
      BY <1>2, <2>4, <3>1
  <2> QED
    BY <2>2, <2>3, <2>5, <2>6
<1> QED
  BY <1>6, <1>7, <1>8

(* An answer that tells of nothing and has every row loaded is not to be   *)
(* followed by more.                                                       *)
LEMMA WholeAnswer ==
  ASSUME Answering, KP!Unsupported = {}, KP!Unavailable = {},
         \A e \in KP!Entered : e.row.status = "loaded"
  PROVE  /\ \A e \in KP!Entered : e.row = KP!Row("loaded", "none", TRUE)
         /\ Cardinality(KP!Hydrated) = Len(KP!Entries)
<1>1. ASSUME NEW i \in AskedPlaces
      PROVE  /\ EntryAt(i).row = KP!Row("loaded", "none", TRUE)
             /\ KP!Usable(EntryAt(i).row) /\ EntryAt(i).symbol = SymAt[i]
  <2>1. RowAt(i) \in AllRows(SymAt[i]) /\ EntryAt(i).row = RowAt(i)
    BY MergesRows DEF EntryAt
  <2>2. EntryAt(i).row.status = "loaded"
    BY EnteredAre
  <2>3. \A s : \A r \in AllRows(s) : r.status = "loaded" => r = KP!Row("loaded", "none", TRUE)
    BY DEF AllRows, KP!RowsFor, KP!FailedRow, KP!Row
  <2> QED
    BY <2>1, <2>2, <2>3 DEF KP!Usable, KP!Successful, KP!Row, EntryAt
<1>2. KP!Hydrated = {SymAt[i] : i \in AskedPlaces}
  <2>1. {x \in KP!Entered : KP!Usable(x.row)} = {EntryAt(i) : i \in AskedPlaces}
    BY <1>1, EnteredAre
  <2>2. KP!Hydrated = {e.symbol : e \in {EntryAt(i) : i \in AskedPlaces}}
    BY <2>1 DEF KP!Hydrated
  <2> QED
    BY <1>1, <2>2
<1>3. Cardinality(KP!Hydrated) = Cardinality(AskedPlaces)
  <2> DEFINE f == [i \in AskedPlaces |-> SymAt[i]]
  <2>1. f \in Bijection(AskedPlaces, KP!Hydrated)
    BY <1>2, AskedAre DEF Bijection, Injection, Surjection, IsInjective
  <2> QED
    BY <2>1, AskedAre, FS_Bijection DEF ExistsBijection
<1>4. Len(KP!Entries) = Cardinality(AskedPlaces)
  <2>1. DOMAIN KP!Entries = 1..Cardinality(AskedPlaces) /\ Cardinality(AskedPlaces) \in Nat
    BY EntriesAre, AskedAre, SortedFacts
  <2>2. KP!Entries \in [1..Cardinality(AskedPlaces) -> KP!Entered]
    BY <2>1 DEF KP!Entries, KP!Entered
  <2> QED
    BY <2>1, <2>2
<1>5. \A e \in KP!Entered : e.row = KP!Row("loaded", "none", TRUE)
  BY <1>1, EnteredAre
<1> QED
  BY <1>3, <1>4, <1>5

LEMMA AnswersBatchWell ==
  ASSUME KP!KimchiBatchAssumption, KimchiInv, request # KP!NoRequest, KP!AnswersBatch
  PROVE  KP!EveryTokenAccountedFor'
<1>1. Answering /\ request.route = "batch" /\ request' = request
  BY DEF KP!AnswersBatch, Answering
<1> DEFINE phase == KP!Phase(Len(request.tokens))
           pending == \/ KP!Cardinality(KP!Hydrated) < Len(KP!Entries) \/ KP!Unavailable # {}
                      \/ phase = "background_batch"
           partial == \/ KP!Rejected(request) # {}
                      \/ KP!Unsupported # {} \/ KP!Unavailable # {}
                      \/ \E e \in KP!Entered : e.row.status # "loaded"
<1>2. PICK cached \in BOOLEAN :
        answer' = [kind |-> "batch", entries |-> KP!Entries,
                   rejected |-> {request.tokens[i] : i \in KP!Rejected(request)},
                   unsupported |-> KP!Unsupported, unavailable |-> KP!Unavailable,
                   phase |-> phase,
                   hint |-> KP!Hint(KP!Hydrated \cap Representative # {} \/ cached, pending, phase),
                   partial |-> partial]
  BY DEF KP!AnswersBatch
<1> DEFINE hint == KP!Hint(KP!Hydrated \cap Representative # {} \/ cached, pending, phase)
<1>3. /\ answer'.kind = "batch" /\ answer'.entries = KP!Entries
      /\ answer'.rejected = {request.tokens[i] : i \in KP!Rejected(request)}
      /\ answer'.unsupported = KP!Unsupported /\ answer'.unavailable = KP!Unavailable
      /\ answer'.hint = hint /\ answer'.partial = partial
  BY <1>2
<1>4. ASSUME ~partial PROVE hint # "background_hydration_only"
  <2>1. KP!Unsupported = {} /\ KP!Unavailable = {} /\ \A e \in KP!Entered : e.row.status = "loaded"
    BY <1>4
  <2>2. KP!Cardinality(KP!Hydrated) = Len(KP!Entries) /\ Len(KP!Entries) \in Nat
    <3>1. Len(KP!Entries) \in Nat
      <4>1. Cardinality(KP!Hydrated) = Len(KP!Entries)
        BY <1>1, <2>1, WholeAnswer
      <4>2. DOMAIN KP!Entries = 1..Cardinality(AskedPlaces) /\ Cardinality(AskedPlaces) \in Nat
        BY <1>1, EntriesAre, AskedAre, SortedFacts
      <4>3. KP!Entries \in [1..Cardinality(AskedPlaces) -> KP!Entered]
        BY <4>2 DEF KP!Entries, KP!Entered
      <4> QED
        BY <4>2, <4>3
    <3> QED
      BY <1>1, <2>1, <3>1, WholeAnswer, KimchiSizes
  <2>3. ~(KP!Cardinality(KP!Hydrated) < Len(KP!Entries))
    BY <2>2
  <2>4. phase # "background_batch" /\ phase # "degraded"
    BY <2>1, <2>3 DEF KP!Phase
  <2>5. ~pending
    BY <2>1, <2>3, <2>4
  <2> HIDE DEF phase, pending
  <2> QED
    BY <2>1, <2>4, <2>5 DEF KP!Hint
<1>5. partial \/ KP!Rejected(request) = {}
  OBVIOUS
<1>6. partial \/ \A e \in KP!Entered : e.row = KP!Row("loaded", "none", TRUE)
  <2>1. ~partial => /\ KP!Unsupported = {} /\ KP!Unavailable = {}
                    /\ \A e \in KP!Entered : e.row.status = "loaded"
    OBVIOUS
  <2> QED
    BY <1>1, <2>1, WholeAnswer
<1>7. ASSUME NEW e \in KP!Entered
      PROVE  {f \in KP!Unsupported \cup KP!Unavailable : f.symbol = e.symbol}
             = IF e.row.code = "none" THEN {} ELSE {[symbol |-> e.symbol, code |-> e.row.code]}
  <2>1. PICK i \in AskedPlaces : e = EntryAt(i)
    BY <1>1, EnteredAre
  <2>2. e.symbol = SymAt[i] /\ e.row = RowAt(i)
    BY <2>1 DEF EntryAt
  <2>3. {f \in KP!Failures : f.symbol = SymAt[i]}
        = IF RowAt(i).code = "none" THEN {} ELSE {Failure(SymAt[i], RowAt(i))}
    BY <1>1, FailuresAre
  <2>4. KP!Unsupported \cup KP!Unavailable = KP!Failures
    BY <1>1, ListedAre
  <2> QED
    BY <2>2, <2>3, <2>4 DEF Failure
<1>8. /\ \A i \in DOMAIN request.tokens :
           request.tokens[i] \notin DOMAIN SymbolOf => i \in KP!Rejected(request)
      /\ \A i \in DOMAIN request.tokens :
           request.tokens[i] \in DOMAIN SymbolOf =>
             Cardinality({n \in DOMAIN KP!Entries : KP!Entries[n].symbol = SymbolOf[request.tokens[i]]}) = 1
  <2>1. KP!Skipped(request) = {}
    BY <1>1 DEF KP!Skipped
  <2>2. AskedPlaces = KP!Symbols(request)
    BY <2>1 DEF AskedPlaces, KP!Asked
  <2> QED
    BY <1>1, <2>2, TokensEntered
<1>9. [n \in DOMAIN KP!Entries |-> KP!Entries[n].symbol] = KP!SymbolsOf(request, AskedPlaces)
  BY <1>1, TokensEntered
<1>10. KP!Given' = KP!Entered
  BY <1>3 DEF KP!Given, KP!Entered
<1>11. ASSUME NEW s
       PROVE  {n \in DOMAIN answer'.entries : answer'.entries[n].symbol = s}
              = {n \in DOMAIN KP!Entries : KP!Entries[n].symbol = s}
  BY <1>3
<1>12. /\ KP!Rejected(request)' = KP!Rejected(request) /\ AskedPlaces' = AskedPlaces
       /\ KP!SymbolsOf(request, AskedPlaces)' = KP!SymbolsOf(request, AskedPlaces)
  BY <1>1 DEF AskedPlaces
<1> HIDE DEF partial, hint, phase, pending
<1>13. ASSUME NEW i \in DOMAIN request.tokens
       PROVE  LET t == request'.tokens[i]
              IN IF t \notin DOMAIN SymbolOf THEN t \in answer'.rejected
                 ELSE Cardinality({n \in DOMAIN answer'.entries :
                                     answer'.entries[n].symbol = SymbolOf[t]}) = 1
  <2> DEFINE s == SymbolOf[request.tokens[i]]
  <2>1. request'.tokens[i] = request.tokens[i]
    BY <1>1
  <2>2. request.tokens[i] \notin DOMAIN SymbolOf => request.tokens[i] \in answer'.rejected
    BY <1>3, <1>8
  <2>3. request.tokens[i] \in DOMAIN SymbolOf =>
          Cardinality({n \in DOMAIN answer'.entries : answer'.entries[n].symbol = s}) = 1
    BY <1>8, <1>11
  <2> QED
    BY <2>1, <2>2, <2>3
<1>14. KP!Row("loaded", "none", TRUE)' = KP!Row("loaded", "none", TRUE)
  BY DEF KP!Row
<1> DEFINE kept == /\ answer'.rejected = {} /\ answer'.hint # "background_hydration_only"
                   /\ \A e \in KP!Given' : e.row = KP!Row("loaded", "none", TRUE)
<1>15. ~answer'.partial => kept
  <2>1. KP!Rejected(request) = {} => answer'.rejected = {}
    BY <1>3
  <2> QED
    BY <1>3, <1>4, <1>5, <1>6, <1>10, <2>1
<1>16. \A e \in KP!Given' :
         {f \in answer'.unsupported \cup answer'.unavailable : f.symbol = e.symbol}
         = IF e.row.code = "none" THEN {} ELSE {[symbol |-> e.symbol, code |-> e.row.code]}
  BY <1>3, <1>7, <1>10
<1>17. [n \in DOMAIN answer'.entries |-> answer'.entries[n].symbol] = KP!SymbolsOf(request, AskedPlaces)'
  BY <1>3, <1>9, <1>12
<1>18. \A i \in DOMAIN request'.tokens :
         LET t == request'.tokens[i]
         IN IF t \notin DOMAIN SymbolOf THEN t \in answer'.rejected
            ELSE Cardinality({n \in DOMAIN answer'.entries :
                                answer'.entries[n].symbol = SymbolOf[t]}) = 1
  BY <1>1, <1>13
<1> HIDE DEF kept
<1>19. \A i \in DOMAIN request'.tokens :
         LET t == request'.tokens[i]
         IN IF t \notin DOMAIN SymbolOf THEN t \in answer'.rejected
            ELSE IF answer'.kind = "sparkline" /\ SymbolOf[t] \notin Comparable
            THEN /\ \E n \in DOMAIN answer'.skipped : answer'.skipped[n] = SymbolOf[t]
                 /\ {n \in DOMAIN answer'.entries : answer'.entries[n].symbol = SymbolOf[t]} = {}
            ELSE KP!Cardinality({n \in DOMAIN answer'.entries :
                                   answer'.entries[n].symbol = SymbolOf[t]}) = 1
  BY <1>3, <1>18, KimchiSizes
<1> QED
  BY <1>3, <1>14, <1>15, <1>16, <1>17, <1>19
  DEF KP!EveryTokenAccountedFor, KP!Answered, AskedPlaces, kept

LEMMA AnswersSparklineWell ==
  ASSUME KimchiInv, request # KP!NoRequest, KP!AnswersSparkline
  PROVE  KP!EveryTokenAccountedFor'
<1>1. Answering /\ request.route = "sparkline" /\ request' = request
  BY DEF KP!AnswersSparkline, Answering
<1>2. /\ answer'.kind = "sparkline" /\ answer'.entries = KP!Entries
      /\ answer'.rejected = {request.tokens[i] : i \in KP!Rejected(request)}
      /\ answer'.skipped = KP!SymbolsOf(request, KP!Skipped(request))
  BY DEF KP!AnswersSparkline
<1>3. PICK size \in Nat : DOMAIN request.tokens = 1..size
  BY <1>1 DEF Answering, KimchiInv
<1>4. \A p \in KP!Skipped(request) :
        \E n \in DOMAIN answer'.skipped : answer'.skipped[n] = KP!SymbolAt(request, p)
  <2> DEFINE K == KP!Skipped(request)
  <2>1. K \subseteq 1..size
    BY <1>3, SymbolPlaces
  <2>2. IsFiniteSet(1..size) /\ 1..size \in SUBSET Int
    BY FS_Interval
  <2>3. IsFiniteSet(K) /\ K \in SUBSET Int
    BY <2>1, <2>2, FS_Subset
  <2> HIDE DEF K
  <2>4. /\ DOMAIN Sorted(K) = 1..Cardinality(K)
        /\ \A p \in K : \E n \in 1..Cardinality(K) : Sorted(K)[n] = p
    BY <2>3, SortedFacts
  <2>5. KP!SymbolsOf(request, K) = [n \in 1..Cardinality(K) |-> KP!SymbolAt(request, Sorted(K)[n])]
    BY <2>4, KimchiOrdered DEF KP!SymbolsOf
  <2>6. \A p \in K : \E n \in 1..Cardinality(K) :
          KP!SymbolsOf(request, K)[n] = KP!SymbolAt(request, p)
    BY <2>4, <2>5
  <2> QED
    BY <1>2, <2>5, <2>6 DEF K
<1>5. [n \in DOMAIN KP!Entries |-> KP!Entries[n].symbol] = KP!SymbolsOf(request, AskedPlaces)
  BY <1>1, TokensEntered
<1>6. AskedPlaces' = AskedPlaces /\ KP!SymbolsOf(request, AskedPlaces)' = KP!SymbolsOf(request, AskedPlaces)
  BY <1>1 DEF AskedPlaces
<1>7. [n \in DOMAIN answer'.entries |-> answer'.entries[n].symbol] = KP!SymbolsOf(request, AskedPlaces)'
  BY <1>2, <1>5, <1>6
<1>8. ASSUME NEW i \in DOMAIN request.tokens, request.tokens[i] \notin DOMAIN SymbolOf
      PROVE  request.tokens[i] \in answer'.rejected
  BY <1>1, <1>2, <1>8, TokensEntered
<1>9. ASSUME NEW i \in DOMAIN request.tokens, request.tokens[i] \in DOMAIN SymbolOf,
             NEW s, s = SymbolOf[request.tokens[i]]
      PROVE  IF s \notin Comparable
             THEN /\ \E n \in DOMAIN answer'.skipped : answer'.skipped[n] = s
                  /\ {n \in DOMAIN answer'.entries : answer'.entries[n].symbol = s} = {}
             ELSE KP!Cardinality({n \in DOMAIN answer'.entries : answer'.entries[n].symbol = s}) = 1
  <2>1. PICK p \in KP!Symbols(request) :
          /\ KP!SymbolAt(request, p) = s
          /\ p \in AskedPlaces =>
               Cardinality({n \in DOMAIN KP!Entries : KP!Entries[n].symbol = s}) = 1
          /\ p \in KP!Skipped(request) =>
               {n \in DOMAIN KP!Entries : KP!Entries[n].symbol = s} = {}
    BY <1>1, <1>9, TokensEntered
  <2>2. p \in KP!Skipped(request) <=> s \notin Comparable
    BY <1>1, <2>1 DEF KP!Skipped
  <2>3. p \in AskedPlaces <=> p \notin KP!Skipped(request)
    BY <2>1, <1>3, SymbolPlaces
  <2>4. {n \in DOMAIN answer'.entries : answer'.entries[n].symbol = s}
        = {n \in DOMAIN KP!Entries : KP!Entries[n].symbol = s}
    BY <1>2
  <2>5. s \notin Comparable => \E n \in DOMAIN answer'.skipped : answer'.skipped[n] = s
    BY <1>4, <2>1, <2>2
  <2> QED
    BY <2>1, <2>2, <2>3, <2>4, <2>5, KimchiSizes
<1>10. \A i \in DOMAIN request'.tokens :
         LET t == request'.tokens[i]
         IN IF t \notin DOMAIN SymbolOf THEN t \in answer'.rejected
            ELSE IF answer'.kind = "sparkline" /\ SymbolOf[t] \notin Comparable
            THEN /\ \E n \in DOMAIN answer'.skipped : answer'.skipped[n] = SymbolOf[t]
                 /\ {n \in DOMAIN answer'.entries : answer'.entries[n].symbol = SymbolOf[t]} = {}
            ELSE KP!Cardinality({n \in DOMAIN answer'.entries :
                                   answer'.entries[n].symbol = SymbolOf[t]}) = 1
  BY <1>1, <1>2, <1>8, <1>9
<1> QED
  BY <1>2, <1>7, <1>10 DEF KP!EveryTokenAccountedFor, KP!Answered, AskedPlaces

LEMMA KimchiAnswers ==
  ASSUME KP!KimchiBatchAssumption, KimchiInv, request # KP!NoRequest,
         KP!AnswersBatch \/ KP!AnswersSparkline
  PROVE  KimchiInv'
<1>1. /\ KP!EveryTokenAccountedFor' /\ request' = request
      /\ answer'.kind \in {"batch", "sparkline"}
  <2>1. CASE KP!AnswersBatch
    <3>1. answer'.kind = "batch" /\ request' = request
      BY <2>1 DEF KP!AnswersBatch
    <3> QED
      BY <2>1, <3>1, AnswersBatchWell
  <2>2. CASE KP!AnswersSparkline
    <3>1. answer'.kind = "sparkline" /\ request' = request
      BY <2>2 DEF KP!AnswersSparkline
    <3> QED
      BY <2>2, <3>1, AnswersSparklineWell
  <2> QED
    BY <2>1, <2>2
<1>2. answer' # KP!NoAnswer /\ KP!NoAnswer' = KP!NoAnswer /\ KP!NoRequest' = KP!NoRequest
  <2>1. answer'.kind # KP!NoAnswer.kind
    BY <1>1 DEF KP!NoAnswer
  <2> QED
    BY <2>1 DEF KP!NoAnswer, KP!NoRequest
<1> QED
  BY <1>1, <1>2 DEF KimchiInv

LEMMA KimchiStep ==
  ASSUME KP!KimchiBatchAssumption, KimchiInv, [KP!Next]_KP!vars
  PROVE  KimchiInv'
<1>1. CASE KP!Asks
  BY <1>1, KimchiAsks
<1>2. CASE (KP!AnswersBatch \/ KP!AnswersSparkline) /\ request # KP!NoRequest
  BY <1>2, KimchiAnswers
<1>3. CASE (KP!AnswersBatch \/ KP!AnswersSparkline) /\ request = KP!NoRequest
  BY <1>3 DEF KP!AnswersBatch, KP!AnswersSparkline, KP!NoRequest
<1>4. ASSUME NEW c \in DOMAIN chunks, KP!ChunkLoads(c) \/ KP!ChunkFails(c)
      PROVE  KimchiInv'
  <2>1. request # KP!NoRequest
    BY DEF KimchiInv
  <2> QED
    BY <1>4, <2>1, KimchiLoads, KimchiFails
<1>5. CASE UNCHANGED KP!vars
  <2>1. request' = request /\ chunks' = chunks /\ answer' = answer
    BY <1>5 DEF KP!vars
  <2>2. KP!EveryTokenAccountedFor'
    <3>1. KP!Row("loaded", "none", TRUE)' = KP!Row("loaded", "none", TRUE)
      BY DEF KP!Row
    <3>2. KP!SymbolsOf(request, KP!Asked(request))' = KP!SymbolsOf(request, KP!Asked(request))
      BY <2>1
    <3>3. \A s : {n \in DOMAIN answer'.entries : answer'.entries[n].symbol = s}
                 = {n \in DOMAIN answer.entries : answer.entries[n].symbol = s}
      BY <2>1
    <3>4. [n \in DOMAIN answer'.entries |-> answer'.entries[n].symbol]
          = [n \in DOMAIN answer.entries |-> answer.entries[n].symbol]
      BY <2>1
    <3>5. KP!Given' = KP!Given
      BY <2>1 DEF KP!Given
    <3>6. KP!EveryTokenAccountedFor
      BY DEF KimchiInv
    <3>7. CASE answer.kind \notin {"batch", "sparkline"}
      BY <2>1, <3>7 DEF KP!EveryTokenAccountedFor
    <3>8. CASE answer.kind \in {"batch", "sparkline"}
      <4>1. \A i \in DOMAIN request'.tokens :
              LET t == request'.tokens[i]
              IN IF t \notin DOMAIN SymbolOf THEN t \in answer'.rejected
                 ELSE IF answer'.kind = "sparkline" /\ SymbolOf[t] \notin Comparable
                 THEN /\ \E n \in DOMAIN answer'.skipped : answer'.skipped[n] = SymbolOf[t]
                      /\ {n \in DOMAIN answer'.entries : answer'.entries[n].symbol = SymbolOf[t]} = {}
                 ELSE KP!Cardinality({n \in DOMAIN answer'.entries :
                                        answer'.entries[n].symbol = SymbolOf[t]}) = 1
        BY <2>1, <3>6, <3>8 DEF KP!EveryTokenAccountedFor, KP!Answered
      <4>2. [n \in DOMAIN answer'.entries |-> answer'.entries[n].symbol]
            = KP!SymbolsOf(request, KP!Asked(request))'
        BY <3>2, <3>4, <3>6, <3>8 DEF KP!EveryTokenAccountedFor
      <4>3. answer'.kind = "batch" =>
              \A e \in KP!Given' :
                {f \in answer'.unsupported \cup answer'.unavailable : f.symbol = e.symbol}
                = IF e.row.code = "none" THEN {} ELSE {[symbol |-> e.symbol, code |-> e.row.code]}
        BY <2>1, <3>5, <3>6, <3>8 DEF KP!EveryTokenAccountedFor
      <4>4. answer'.kind = "batch" /\ ~answer'.partial =>
              /\ answer'.rejected = {} /\ answer'.hint # "background_hydration_only"
              /\ \A e \in KP!Given' : e.row = KP!Row("loaded", "none", TRUE)
        BY <2>1, <3>5, <3>6, <3>8 DEF KP!EveryTokenAccountedFor
      <4> QED
        BY <3>1, <4>1, <4>2, <4>3, <4>4 DEF KP!EveryTokenAccountedFor, KP!Answered
    <3> QED
      BY <3>7, <3>8
  <2>3. \A d : KP!Chunk(d)' = KP!Chunk(d) /\ SymAt' = SymAt
    BY <2>1 DEF KP!Chunk, SymAt, Named
  <2>4. \A d : Settled(d) => Settled(d)'
    BY <2>1, <2>3, SettledNext DEF Settled
  <2>5. KP!ChunksOf(request)' = KP!ChunksOf(request) /\ KP!Pending' = KP!Pending
    BY <2>1 DEF KP!Pending
  <2>6. ChunksInv => ChunksInv'
    BY <2>1, <2>4, <2>5 DEF ChunksInv
  <2> QED
    BY <2>1, <2>2, <2>6 DEF KimchiInv, KP!NoRequest, KP!NoAnswer
<1> QED
  BY <1>1, <1>2, <1>3, <1>4, <1>5 DEF KP!Next

(* Whichever chunks of a request fail, and in whatever order they end,     *)
(* every token of it is rejected, skipped or answered once, with its error *)
(* told once, and an answer that is not partial is complete                *)
(* (mergeKimchiSnapshotLoads, classifyKimchiBatchFailures).                *)
THEOREM EveryTokenAccountedForHolds ==
  ASSUME KP!KimchiBatchAssumption
  PROVE  KP!Spec => []KP!EveryTokenAccountedFor
<1>1. KimchiInv => KP!EveryTokenAccountedFor
  BY DEF KimchiInv
<1> QED
  BY <1>1, KimchiStarts, KimchiStep, PTL DEF KP!Spec

-----------------------------------------------------------------------------
(* The candles of the market contract (ContractCandles): those of longer   *)
(* timeframes are made of a number of shorter ones.                        *)
CONSTANTS Span, Limit, Cap, CacheTtl, Price
VARIABLES traded, cache, keptGood, flight, waiting

C == INSTANCE ContractCandles

LEMMA CandleSizes == \A X : C!Cardinality(X) = Cardinality(X)
BY DEF C!Cardinality, C!IsFiniteSet, Cardinality, IsFiniteSet

LEMMA CandlesOrdered == ASSUME NEW K PROVE C!Ordered(K) = Sorted(K)
BY DEF C!Ordered, Sorted, C!Cardinality, C!IsFiniteSet, Cardinality, IsFiniteSet

LEMMA LowestOf ==
  ASSUME NEW K \in SUBSET Int, IsFiniteSet(K), K # {}
  PROVE  \E p \in K : \A j \in K : p <= j
<1>1. /\ Cardinality(K) \in Nat
      /\ \A k \in K : \E n \in 1..Cardinality(K) : Sorted(K)[n] = k
      /\ Sorted(K) \in [1..Cardinality(K) -> K]
      /\ \A i, j \in 1..Cardinality(K) : i < j => Sorted(K)[i] < Sorted(K)[j]
  BY SortedFacts
<1>2. 1 \in 1..Cardinality(K)
  <2>1. PICK k \in K : TRUE
    OBVIOUS
  <2>2. PICK n \in 1..Cardinality(K) : Sorted(K)[n] = k
    BY <1>1
  <2> QED
    BY <1>1, <2>2
<1>3. \A j \in K : Sorted(K)[1] <= j
  <2> SUFFICES ASSUME NEW j \in K PROVE Sorted(K)[1] <= j
    OBVIOUS
  <2>1. PICK a \in 1..Cardinality(K) : Sorted(K)[a] = j
    BY <1>1
  <2>2. a = 1 \/ 1 < a
    BY <1>1
  <2>3. Sorted(K)[1] \in Int /\ j \in Int
    BY <1>1, <1>2
  <2> QED
    BY <1>1, <1>2, <2>1, <2>2, <2>3
<1> QED
  BY <1>1, <1>2, <1>3

(* The n newest of a set have all that is later than one of them, and are  *)
(* n of them or all.                                                       *)
LEMMA NewestFacts ==
  ASSUME NEW K \in SUBSET Int, IsFiniteSet(K), NEW n \in Nat
  PROVE  /\ C!Newest(K, n) \subseteq K /\ IsFiniteSet(C!Newest(K, n))
         /\ \A i \in C!Newest(K, n), j \in K : i <= j => j \in C!Newest(K, n)
         /\ Cardinality(C!Newest(K, n)) = IF Cardinality(K) < n THEN Cardinality(K) ELSE n
         /\ Cardinality(K) <= n => C!Newest(K, n) = K
<1> DEFINE N == C!Newest(K, n)
           size == Cardinality(K)
           o == Sorted(K)
           above(i) == {j \in K : j >= i}
<1>1. N = {i \in K : Cardinality(above(i)) <= n}
  BY CandleSizes DEF C!Newest
<1>2. /\ size \in Nat /\ o \in [1..size -> K]
      /\ \A i, j \in 1..size : i < j => o[i] < o[j]
      /\ \A k \in K : \E m \in 1..size : o[m] = k
  BY SortedFacts
<1> HIDE DEF N, size, o
<1>2b. N \subseteq K /\ \A k \in K : k \in Int
  BY <1>1
<1>2a. \A m \in 1..size : o[m] \in K /\ o[m] \in Int /\ m \in Int
  <2> SUFFICES ASSUME NEW m \in 1..size PROVE o[m] \in K /\ o[m] \in Int /\ m \in Int
    OBVIOUS
  <2>1. o[m] \in K
    BY <1>2
  <2>2. m \in Int
    BY <1>2
  <2> QED
    BY <1>2b, <2>1, <2>2
<1>3. ASSUME NEW m \in 1..size
      PROVE  Cardinality(above(o[m])) = size - m + 1
  <2>1. above(o[m]) = {o[l] : l \in m..size}
    <3>1. ASSUME NEW l \in m..size PROVE o[l] \in above(o[m])
      <4>1. l \in 1..size /\ (l = m \/ m < l)
        BY <1>2
      <4>2. o[l] \in K /\ o[m] \in Int /\ o[l] \in Int
        BY <1>2a, <4>1
      <4>3. o[l] >= o[m]
        BY <1>2, <4>1, <4>2
      <4> QED
        BY <4>2, <4>3
    <3>2. ASSUME NEW k \in above(o[m]) PROVE \E l \in m..size : o[l] = k
      <4>1. PICK l \in 1..size : o[l] = k
        BY <1>2
      <4>2. o[l] \in Int /\ o[m] \in Int /\ o[l] >= o[m]
        BY <1>2, <4>1
      <4>3. ~(l < m)
        BY <1>2, <4>2
      <4> QED
        BY <1>2, <4>1, <4>3
    <3> QED
      BY <3>1, <3>2
  <2> DEFINE f == [l \in m..size |-> o[l]]
  <2>2. f \in Bijection(m..size, above(o[m]))
    <3>1. \A l \in m..size : l \in 1..size
      BY <1>2
    <3>2. \A l, p \in m..size : o[l] = o[p] => l = p
      <4> SUFFICES ASSUME NEW l \in m..size, NEW p \in m..size, o[l] = o[p] PROVE l = p
        OBVIOUS
      <4>1. l \in 1..size /\ p \in 1..size /\ (l < p \/ p < l \/ l = p)
        BY <1>2
      <4>2. o[l] \in Int /\ o[p] \in Int
        BY <1>2, <4>1
      <4> QED
        BY <1>2, <4>1, <4>2
    <3> HIDE DEF above
    <3> QED
      BY <2>1, <3>2 DEF Bijection, Injection, Surjection, IsInjective
  <2>3. IsFiniteSet(m..size) /\ Cardinality(m..size) = size - m + 1
    BY <1>2, FS_Interval
  <2> HIDE DEF f, above
  <2> QED
    BY <2>2, <2>3, FS_Bijection DEF ExistsBijection
<1>4. ASSUME NEW i \in N, NEW j \in K, i <= j
      PROVE  j \in N
  <2>1. above(j) \subseteq above(i) /\ above(i) \subseteq K
    <3>1. i \in Int /\ j \in Int
      BY <1>2b
    <3>2. \A k \in K : k >= j => k >= i
      BY <1>2b, <1>4, <3>1
    <3> QED
      BY <3>2
  <2>2. IsFiniteSet(above(i)) /\ Cardinality(above(j)) <= Cardinality(above(i))
    BY <2>1, FS_Subset
  <2>3. Cardinality(above(i)) \in Nat /\ Cardinality(above(j)) \in Nat
    BY <2>1, <2>2, FS_Subset, FS_CardinalityType
  <2> QED
    BY <1>1, <2>2, <2>3
<1>5. N \subseteq K /\ IsFiniteSet(N)
  BY <1>1, FS_Subset
<1>6. N = {o[m] : m \in {l \in 1..size : size - l + 1 <= n}}
  <2> HIDE DEF above
  <2> QED
    BY <1>1, <1>2, <1>2a, <1>3
<1> DEFINE start == IF size < n THEN 1 ELSE size - n + 1
<1>7. {l \in 1..size : size - l + 1 <= n} = start..size
  BY <1>2
<1>8. Cardinality(N) = IF size < n THEN size ELSE n
  <2> DEFINE f == [l \in start..size |-> o[l]]
  <2>0. start \in Int /\ start >= 1
    BY <1>2
  <2> HIDE DEF start
  <2>1. \A l \in start..size : l \in 1..size
    BY <1>2, <2>0
  <2>2. \A l, p \in start..size : o[l] = o[p] => l = p
    <3> SUFFICES ASSUME NEW l \in start..size, NEW p \in start..size, o[l] = o[p] PROVE l = p
      OBVIOUS
    <3>1. l \in 1..size /\ p \in 1..size
      BY <2>1
    <3>2. o[l] \in Int /\ o[p] \in Int /\ (l < p \/ p < l \/ l = p)
      BY <1>2, <1>2a, <3>1
    <3> QED
      BY <1>2, <3>1, <3>2
  <2>3. f \in Bijection(start..size, N)
    BY <1>6, <1>7, <2>2 DEF Bijection, Injection, Surjection, IsInjective
  <2>4. IsFiniteSet(start..size) /\ Cardinality(start..size) = IF start > size THEN 0 ELSE size - start + 1
    BY <1>2, <2>0, FS_Interval
  <2> HIDE DEF f
  <2>5. Cardinality(N) = Cardinality(start..size)
    BY <2>3, <2>4, FS_Bijection DEF ExistsBijection
  <2> QED
    BY <1>2, <2>4, <2>5 DEF start
<1>9. size <= n => N = K
  <2> SUFFICES ASSUME size <= n, NEW k \in K PROVE k \in N
    BY <1>5
  <2>1. PICK m \in 1..size : o[m] = k
    BY <1>2
  <2> QED
    BY <1>2, <1>6, <2>1
<1> QED
  BY <1>4, <1>5, <1>8, <1>9 DEF N, size

(* A bucket has the times from its start, Span of them at most.            *)
LEMMA MoreSpans ==
  ASSUME NEW a \in Int, NEW b \in Int, NEW t \in Nat \ {0}, a >= b + 1
  PROVE  t * a >= t * b + t
<1>1. PICK d \in Nat : a = b + 1 + d
  BY a - b - 1 \in Nat, a = b + 1 + (a - b - 1)
<1>2. t * a = t * b + t + t * d
  BY <1>1
<1>3. t * d >= 0
  OBVIOUS
<1> QED
  BY <1>2, <1>3, t * b \in Int, t * d \in Int

LEMMA BucketFacts ==
  ASSUME C!ContractAssumption, NEW n \in Nat
  PROVE  /\ C!Bucket(n) \in Int /\ n - C!Bucket(n) \in 0..(Span - 1)
         /\ \E q \in Int : C!Bucket(n) = Span * q
<1>1. Span \in Nat \ {0}
  BY DEF C!ContractAssumption
<1> DEFINE q == n \div Span
           r == n % Span
<1>2. n = Span * q + r /\ q \in Int /\ r \in 0..(Span - 1)
  BY <1>1
<1>3. C!Bucket(n) = Span * q
  BY DEF C!Bucket
<1> HIDE DEF q, r
<1>4. Span * q \in Int
  BY <1>1, <1>2
<1>5. n - Span * q = r
  BY <1>2, <1>4
<1> QED
  BY <1>2, <1>3, <1>4, <1>5

LEMMA BucketsRise ==
  ASSUME C!ContractAssumption, NEW m \in Nat, NEW n \in Nat, m <= n
  PROVE  C!Bucket(m) <= C!Bucket(n)
<1>1. Span \in Nat \ {0}
  BY DEF C!ContractAssumption
<1>2. PICK q \in Int : C!Bucket(m) = Span * q
  BY BucketFacts
<1>3. PICK p \in Int : C!Bucket(n) = Span * p
  BY BucketFacts
<1>4. /\ C!Bucket(m) \in Int /\ C!Bucket(n) \in Int
      /\ m - C!Bucket(m) \in 0..(Span - 1) /\ n - C!Bucket(n) \in 0..(Span - 1)
  BY BucketFacts
<1>5. CASE p >= q + 1
  <2>1. Span * p >= Span * q + Span
    BY <1>1, <1>5, MoreSpans
  <2> QED
    BY <1>1, <1>2, <1>3, <1>4, <2>1
<1>6. CASE p = q
  BY <1>2, <1>3, <1>4, <1>6
<1>7. CASE q >= p + 1
  <2>1. Span * q >= Span * p + Span
    BY <1>1, <1>7, MoreSpans
  <2>2. C!Bucket(m) >= C!Bucket(n) + Span
    BY <1>2, <1>3, <2>1
  <2> QED
    BY <1>1, <1>4, <2>2
<1> QED
  BY <1>5, <1>6, <1>7

StartsOf(K) == {C!Bucket(h) : h \in K}

LEMMA FewPerBucket ==
  ASSUME C!ContractAssumption, NEW K \in SUBSET Nat, IsFiniteSet(K)
  PROVE  /\ IsFiniteSet(StartsOf(K)) /\ Cardinality(StartsOf(K)) \in Nat
         /\ Cardinality(K) <= Cardinality(StartsOf(K)) * Span
<1>1. Span \in Nat \ {0}
  BY DEF C!ContractAssumption
<1> DEFINE Q == StartsOf(K)
           X == 0..(Span - 1)
           g == [h \in K |-> C!Bucket(h)]
           f == [h \in K |-> <<C!Bucket(h), h - C!Bucket(h)>>]
<1>2. g \in Surjection(K, Q)
  BY DEF Surjection, StartsOf
<1>3. IsFiniteSet(Q)
  BY <1>2, FS_Surjection
<1>4. IsFiniteSet(X) /\ Cardinality(X) = Span
  BY <1>1, FS_Interval
<1>5. f \in Injection(K, Q \X X)
  <2>1. \A h \in K : C!Bucket(h) \in Q /\ C!Bucket(h) \in Int /\ h - C!Bucket(h) \in X /\ h \in Int
    BY BucketFacts DEF StartsOf
  <2>2. \A h, k \in K : f[h] = f[k] => h = k
    BY <2>1
  <2> HIDE DEF Q, X
  <2>3. f \in [K -> Q \X X]
    BY <2>1
  <2> HIDE DEF f
  <2> QED
    BY <2>2, <2>3 DEF Injection, IsInjective
<1> HIDE DEF Q, X, f, g
<1>6. IsFiniteSet(Q \X X) /\ Cardinality(Q \X X) = Cardinality(Q) * Cardinality(X)
  BY <1>3, <1>4, FS_Product
<1>7. Cardinality(K) <= Cardinality(Q \X X)
  BY <1>5, <1>6, FS_Injection
<1>8. Cardinality(Q) \in Nat
  BY <1>3, FS_CardinalityType
<1> QED
  BY <1>3, <1>4, <1>6, <1>7, <1>8 DEF Q

-----------------------------------------------------------------------------
(* A candle is that of the trades of a set of times.                       *)
Figures == [at : Int, open : Int, high : Int, low : Int, close : Int, volume : Int]

Sums(c, H, t) ==
  /\ c \in Figures /\ H # {} /\ c.volume = Cardinality(H)
  /\ \E p \in H : (\A g \in H : p <= g) /\ c.open = t[p]
  /\ \E p \in H : (\A g \in H : g <= p) /\ c.close = t[p]
  /\ \A h \in H : c.low <= t[h] /\ t[h] <= c.high
  /\ \E h \in H : c.low = t[h]
  /\ \E h \in H : c.high = t[h]

InBucket(K, b) == {h \in K : C!Bucket(h) = b}

SumUp(buckets, K, t) ==
  /\ DOMAIN buckets = StartsOf(K)
  /\ \A b \in DOMAIN buckets : buckets[b].at = b /\ Sums(buckets[b], InBucket(K, b), t)

Single1(h, t) ==
  [at |-> h, open |-> t[h], high |-> t[h], low |-> t[h], close |-> t[h], volume |-> 1]

LEMMA MergedFields ==
  ASSUME NEW old \in Figures, NEW c \in Figures
  PROVE  /\ C!Merged(old, c) \in Figures
         /\ C!Merged(old, c).at = old.at /\ C!Merged(old, c).open = old.open
         /\ C!Merged(old, c).high = IF c.high > old.high THEN c.high ELSE old.high
         /\ C!Merged(old, c).low = IF c.low < old.low THEN c.low ELSE old.low
         /\ C!Merged(old, c).close = c.close
         /\ C!Merged(old, c).volume = old.volume + c.volume
<1> DEFINE high == IF c.high > old.high THEN c.high ELSE old.high
           low == IF c.low < old.low THEN c.low ELSE old.low
           volume == old.volume + c.volume
           close == c.close
           m == [old EXCEPT !.high = high, !.low = low, !.close = close, !.volume = volume]
<1>1. old.at \in Int /\ old.open \in Int /\ high \in Int /\ low \in Int /\ close \in Int /\ volume \in Int
  BY DEF Figures
<1>2. C!Merged(old, c) = m
  BY Zenon DEF C!Merged
<1> HIDE DEF high, low, volume, close
<1>3. m = [at |-> old.at, open |-> old.open, high |-> high, low |-> low,
           close |-> close, volume |-> volume]
  <2>1. old = [at |-> old.at, open |-> old.open, high |-> old.high, low |-> old.low,
               close |-> old.close, volume |-> old.volume]
    BY DEF Figures
  <2> DEFINE at == old.at
             open == old.open
             h == old.high
             l == old.low
             e == old.close
             v == old.volume
             R(x, y, z, w) == [at |-> at, open |-> open, high |-> x, low |-> y, close |-> z, volume |-> w]
  <2> HIDE DEF at, open, h, l, e, v
  <2>2. old = R(h, l, e, v)
    BY <2>1 DEF at, open, h, l, e, v
  <2>3. m = [[[[old EXCEPT !.high = high] EXCEPT !.low = low] EXCEPT !.close = close]
               EXCEPT !.volume = volume]
    OBVIOUS
  <2> HIDE DEF m
  <2>4. [R(h, l, e, v) EXCEPT !.high = high] = R(high, l, e, v)
    OBVIOUS
  <2>5. [R(high, l, e, v) EXCEPT !.low = low] = R(high, low, e, v)
    OBVIOUS
  <2>6. [R(high, low, e, v) EXCEPT !.close = close] = R(high, low, close, v)
    OBVIOUS
  <2>7. [R(high, low, close, v) EXCEPT !.volume = volume] = R(high, low, close, volume)
    OBVIOUS
  <2> HIDE DEF R
  <2>8. m = R(high, low, close, volume)
    BY <2>2, <2>3, <2>4, <2>5, <2>6, <2>7
  <2> QED
    BY <2>8 DEF R, at, open
<1> HIDE DEF m
<1>4. m \in Figures
  BY <1>1, <1>3 DEF Figures
<1> QED
  BY <1>2, <1>3, <1>4 DEF high, low, volume, close

LEMMA MergedSums ==
  ASSUME NEW old, NEW H \in SUBSET Int, IsFiniteSet(H), NEW h \in Int, NEW t,
         Sums(old, H, t), \A k \in H : k < h, \A k \in H \cup {h} : t[k] \in Int
  PROVE  /\ Sums(C!Merged(old, Single1(h, t)), H \cup {h}, t)
         /\ C!Merged(old, Single1(h, t)).at = old.at
<1> DEFINE c == Single1(h, t)
           m == C!Merged(old, c)
           J == H \cup {h}
<1>1. /\ c \in Figures /\ c.high = t[h] /\ c.low = t[h] /\ c.close = t[h] /\ c.volume = 1
  BY DEF Single1, Figures
<1>2. old \in Figures
  BY DEF Sums
<1>3. /\ old.high \in Int /\ old.low \in Int /\ old.volume \in Int /\ t[h] \in Int
  BY <1>2 DEF Figures
<1>4. /\ m \in Figures /\ m.at = old.at /\ m.open = old.open
      /\ m.high = (IF t[h] > old.high THEN t[h] ELSE old.high)
      /\ m.low = (IF t[h] < old.low THEN t[h] ELSE old.low)
      /\ m.close = t[h] /\ m.volume = old.volume + 1
  BY <1>1, <1>2, MergedFields
<1> HIDE DEF c, m
<1>5. Cardinality(J) = Cardinality(H) + 1
  BY FS_AddElement
<1>6. J # {} /\ m.volume = Cardinality(J)
  BY <1>4, <1>5 DEF Sums
<1>7. \E p \in J : (\A g \in J : p <= g) /\ m.open = t[p]
  <2>1. PICK p \in H : (\A g \in H : p <= g) /\ old.open = t[p]
    BY DEF Sums
  <2> QED
    BY <1>4, <2>1
<1>8. \E p \in J : (\A g \in J : g <= p) /\ m.close = t[p]
  <2>1. \A g \in J : g <= h
    OBVIOUS
  <2> QED
    BY <1>4, <2>1
<1>9. ASSUME NEW g \in J PROVE m.low <= t[g] /\ t[g] <= m.high
  <2>1. t[g] \in Int /\ (g = h \/ (old.low <= t[g] /\ t[g] <= old.high))
    BY DEF Sums
  <2> QED
    BY <1>3, <1>4, <2>1
<1>10. \E g \in J : m.low = t[g]
  BY <1>4 DEF Sums
<1>11. \E g \in J : m.high = t[g]
  BY <1>4 DEF Sums
<1> HIDE DEF J
<1>12. Sums(m, J, t)
  BY <1>4, <1>6, <1>7, <1>8, <1>9, <1>10, <1>11 DEF Sums
<1> QED
  BY <1>4, <1>12 DEF m, c, J

StartOf(h, t, b) == [Single1(h, t) EXCEPT !.at = b]

LEMMA StartsSums ==
  ASSUME NEW h \in Int, NEW t, t[h] \in Int, NEW b \in Int
  PROVE  Sums(StartOf(h, t, b), {h}, t) /\ StartOf(h, t, b).at = b
<1>1. StartOf(h, t, b)
      = [at |-> b, open |-> t[h], high |-> t[h], low |-> t[h], close |-> t[h], volume |-> 1]
  BY DEF Single1, StartOf
<1>2. Cardinality({h}) = 1
  BY FS_Singleton
<1> QED
  BY <1>1, <1>2 DEF Sums, Figures

LEMMA AddsCandle ==
  ASSUME C!ContractAssumption, NEW K \in SUBSET Nat, IsFiniteSet(K), NEW h \in Nat, NEW t, NEW buckets,
         \A k \in K : k < h, \A k \in K \cup {h} : t[k] \in Int, SumUp(buckets, K, t)
  PROVE  SumUp(C!Added(buckets, Single1(h, t)), K \cup {h}, t)
<1> DEFINE b == C!Bucket(h)
           c == Single1(h, t)
           new == C!Added(buckets, c)
           J == K \cup {h}
<1>1. c.at = h /\ b \in Int
  BY BucketFacts DEF Single1
<1>2. StartsOf(J) = StartsOf(K) \cup {b}
  BY DEF StartsOf
<1>3. \A d : d # b => InBucket(J, d) = InBucket(K, d)
  BY DEF InBucket
<1>4. InBucket(J, b) = InBucket(K, b) \cup {h}
  BY DEF InBucket
<1>5. new = IF b \in DOMAIN buckets THEN [buckets EXCEPT ![b] = C!Merged(@, c)]
            ELSE [d \in DOMAIN buckets \cup {b} |-> IF d = b THEN [c EXCEPT !.at = b] ELSE buckets[d]]
  BY <1>1 DEF C!Added
<1> HIDE DEF new, b, c, J
<1>6. DOMAIN buckets = StartsOf(K)
  BY DEF SumUp
<1>7. CASE b \in DOMAIN buckets
  <2>1. DOMAIN new = StartsOf(J)
    BY <1>2, <1>5, <1>6, <1>7
  <2>2. buckets[b].at = b /\ Sums(buckets[b], InBucket(K, b), t)
    BY <1>7 DEF SumUp
  <2>3. InBucket(K, b) \in SUBSET Int /\ IsFiniteSet(InBucket(K, b)) /\ InBucket(K, b) \subseteq K
    <3>1. InBucket(K, b) \subseteq K
      BY DEF InBucket
    <3>2. IsFiniteSet(InBucket(K, b))
      BY <3>1, FS_Subset
    <3>3. \A k \in K : k \in Int
      OBVIOUS
    <3> QED
      BY <3>1, <3>2, <3>3
  <2>4. new[b] = C!Merged(buckets[b], c)
    BY <1>5, <1>7
  <2>5. new[b].at = b /\ Sums(new[b], InBucket(J, b), t)
    BY <1>4, <2>2, <2>3, <2>4, MergedSums DEF c
  <2>6. \A d \in DOMAIN new : d # b => d \in DOMAIN buckets /\ new[d] = buckets[d]
    BY <1>5, <1>7
  <2>7. \A d \in DOMAIN new : d # b => new[d].at = d /\ Sums(new[d], InBucket(J, d), t)
    BY <1>3, <2>6 DEF SumUp
  <2> QED
    BY <2>1, <2>5, <2>7 DEF SumUp, new, c, J
<1>8. CASE b \notin DOMAIN buckets
  <2>1. DOMAIN new = StartsOf(J)
    BY <1>2, <1>5, <1>6, <1>8
  <2>2. InBucket(K, b) = {}
    BY <1>6, <1>8 DEF InBucket, StartsOf
  <2>3. InBucket(J, b) = {h}
    BY <1>4, <2>2
  <2>4. new[b] = [c EXCEPT !.at = b]
    BY <1>5, <1>8
  <2>5. new[b].at = b /\ Sums(new[b], InBucket(J, b), t)
    <3>1. h \in Int /\ t[h] \in Int
      OBVIOUS
    <3>2. new[b] = StartOf(h, t, b)
      BY <2>4 DEF c, StartOf
    <3>3. StartOf(h, t, b).at = b /\ Sums(StartOf(h, t, b), {h}, t)
      BY <1>1, <3>1, StartsSums
    <3> QED
      BY <2>3, <3>2, <3>3
  <2>6. \A d \in DOMAIN new : d # b => d \in DOMAIN buckets /\ new[d] = buckets[d]
    BY <1>5, <1>8
  <2>7. \A d \in DOMAIN new : d # b => new[d].at = d /\ Sums(new[d], InBucket(J, d), t)
    BY <1>3, <2>6 DEF SumUp
  <2> QED
    BY <2>1, <2>5, <2>7 DEF SumUp, new, c, J
<1> QED
  BY <1>7, <1>8

(* The buckets after each candle exist.                                    *)
IsBuckets(g, candles, N) ==
  g = [n \in 0..N |-> IF n = 0 THEN <<>> ELSE C!Added(g[n - 1], candles[n])]

LEMMA BucketsExist ==
  ASSUME NEW candles, NEW N \in Nat
  PROVE  \E g : IsBuckets(g, candles, N)
<1> DEFINE Steps(g, n) ==
             [i \in 0..n |-> IF i = 0 THEN <<>> ELSE C!Added(g[i - 1], candles[i])]
           Lacking == {n \in 0..N : ~ \E g : g = Steps(g, n)}
<1>1. Lacking = {}
  <2> SUFFICES ASSUME Lacking # {} PROVE FALSE
    OBVIOUS
  <2>1. PICK n \in Lacking : \A m \in Lacking : n <= m
    <3>1. Lacking \subseteq 0..N
      OBVIOUS
    <3> HIDE DEF Lacking
    <3>2. IsFiniteSet(0..N)
      BY FS_Interval
    <3>2a. IsFiniteSet(Lacking)
      BY <3>1, <3>2, FS_Subset
    <3>3. Lacking \subseteq Int
      BY <3>1
    <3> QED
      BY <3>2a, <3>3, LowestOf
  <2>2. n # 0
    <3> DEFINE g == [i \in 0..0 |-> <<>>]
    <3>1. g = Steps(g, 0)
      OBVIOUS
    <3> HIDE DEF g, Steps
    <3> QED
      BY <3>1
  <2>3. n \in Nat /\ n - 1 \in Nat /\ n - 1 \in 0..N /\ n - 1 \notin Lacking
    <3>1. n \in 0..N
      OBVIOUS
    <3> HIDE DEF Lacking
    <3> QED
      BY <2>1, <2>2, <3>1
  <2>4. PICK g : g = Steps(g, n - 1)
    BY <2>3
  <2> DEFINE h == Steps(g, n)
  <2>5. \A i \in 0..(n - 1) : h[i] = g[i]
    <3> SUFFICES ASSUME NEW i \in 0..(n - 1) PROVE h[i] = g[i]
      OBVIOUS
    <3>1. g[i] = IF i = 0 THEN <<>> ELSE C!Added(g[i - 1], candles[i])
      BY <2>4
    <3>2. i \in 0..n
      BY <2>3
    <3> QED
      BY <3>1, <3>2
  <2>6. \A i \in 0..n : i # 0 => i - 1 \in 0..(n - 1)
    BY <2>3
  <2>7. h = Steps(h, n)
    <3>1. \A i \in 0..n : i # 0 => h[i - 1] = g[i - 1]
      BY <2>5, <2>6
    <3> QED
      BY <3>1
  <2> HIDE DEF h, Steps
  <2> QED
    BY <2>1, <2>7
<1> QED
  BY <1>1, SMTT(30) DEF IsBuckets

(* The candles of a set of times, in order, make the candles of the        *)
(* buckets of these times.                                                 *)
LEMMA BucketsAre ==
  ASSUME C!ContractAssumption, NEW K \in SUBSET Nat, IsFiniteSet(K), NEW t, \A k \in K : t[k] \in Int
  PROVE  SumUp(C!Buckets([i \in 1..Cardinality(K) |-> Single1(Sorted(K)[i], t)]), K, t)
<1> DEFINE N == Cardinality(K)
           o == Sorted(K)
           candles == [i \in 1..N |-> Single1(o[i], t)]
           first(i) == {o[m] : m \in 1..i}
<1>1. /\ N \in Nat /\ o \in [1..N -> K]
      /\ \A i, j \in 1..N : i < j => o[i] < o[j]
      /\ \A k \in K : \E n \in 1..N : o[n] = k
  <2>1. K \in SUBSET Int
    OBVIOUS
  <2> QED
    BY <2>1, SortedFacts
<1> HIDE DEF N, o
<1>2. Len(candles) = N /\ \A i \in 1..N : candles[i] = Single1(o[i], t)
  <2> DEFINE V == {Single1(k, t) : k \in K}
  <2>1. \A i \in 1..N : Single1(o[i], t) \in V
    BY <1>1
  <2> HIDE DEF V
  <2>2. candles \in [1..N -> V]
    BY <2>1
  <2> QED
    BY <1>1, <2>2
<1> DEFINE Is(g) == IsBuckets(g, candles, N)
           after == CHOOSE g : Is(g)
<1>3. C!Buckets(candles) = after[N]
  BY <1>2 DEF C!Buckets, IsBuckets
<1>4. Is(after)
  <2>1. \E g : Is(g)
    BY <1>1, BucketsExist
  <2> HIDE DEF Is
  <2> QED
    BY <2>1
<1> HIDE DEF after, candles
<1>5. after[0] = <<>> /\ \A i \in 1..N : after[i] = C!Added(after[i - 1], Single1(o[i], t))
  BY <1>1, <1>2, <1>4 DEF IsBuckets
<1> DEFINE Right(i) == SumUp(after[i], first(i), t)
           Bad == {i \in 0..N : ~ Right(i)}
<1>6. Bad = {}
  <2> SUFFICES ASSUME Bad # {} PROVE FALSE
    OBVIOUS
  <2>1. PICK i \in Bad : \A j \in Bad : i <= j
    <3>1. Bad \subseteq 0..N
      OBVIOUS
    <3> HIDE DEF Bad
    <3>2. IsFiniteSet(0..N)
      BY <1>1, FS_Interval
    <3>2a. IsFiniteSet(Bad)
      BY <3>1, <3>2, FS_Subset
    <3>3. Bad \subseteq Int
      BY <3>1
    <3> QED
      BY <3>2a, <3>3, LowestOf
  <2>2. i \in 0..N /\ ~ Right(i)
    OBVIOUS
  <2>3. i # 0
    <3>1. first(0) = {}
      OBVIOUS
    <3>2. SumUp(<<>>, {}, t)
      BY DEF SumUp, StartsOf
    <3> QED
      BY <1>5, <2>2, <3>1, <3>2
  <2>4. i - 1 \in 0..N /\ i \in 1..N /\ i - 1 \notin Bad
    <3> HIDE DEF Bad
    <3> QED
      BY <1>1, <2>1, <2>2, <2>3
  <2>5. Right(i - 1)
    <3> HIDE DEF Right
    <3> QED
      BY <2>4
  <2> DEFINE P == first(i - 1)
             h == o[i]
  <2>6. h \in K /\ h \in Nat /\ P \subseteq K
    <3>1. h \in K
      BY <1>1, <2>4
    <3>2. \A m \in 1..(i - 1) : m \in 1..N
      BY <1>1, <2>4
    <3>3. P \subseteq K
      BY <1>1, <3>2
    <3> QED
      BY <3>1, <3>3
  <2>7. \A k \in P : k < h
    <3> SUFFICES ASSUME NEW m \in 1..(i - 1) PROVE o[m] < o[i]
      OBVIOUS
    <3>1. m \in 1..N /\ m < i
      BY <1>1, <2>4
    <3> QED
      BY <1>1, <2>4, <3>1
  <2>8. first(i) = P \cup {h}
    <3>1. \A m \in 1..i : m = i \/ m \in 1..(i - 1)
      BY <2>4
    <3>2. \A m \in 1..(i - 1) : m \in 1..i
      BY <2>4
    <3>3. i \in 1..i
      BY <2>4
    <3> QED
      BY <3>1, <3>2, <3>3
  <2>9. IsFiniteSet(P) /\ P \in SUBSET Nat
    BY <2>6, FS_Subset
  <2>10. \A k \in P \cup {h} : t[k] \in Int
    BY <2>6
  <2> HIDE DEF P, h
  <2>11. SumUp(C!Added(after[i - 1], Single1(h, t)), P \cup {h}, t)
    BY <2>5, <2>6, <2>7, <2>9, <2>10, AddsCandle DEF P
  <2> QED
    BY <1>5, <2>2, <2>4, <2>8, <2>11 DEF h
<1>7. first(N) = K
  BY <1>1
<1>8. Right(N)
  <2> HIDE DEF Right
  <2>1. N \in 0..N
    BY <1>1
  <2> QED
    BY <1>6, <2>1
<1> QED
  BY <1>3, <1>7, <1>8 DEF candles, N, o

-----------------------------------------------------------------------------
(* What a fetch answers, of all the times with a trade.                    *)
Cut == Limit * Span + Span > Cap

Whole(shown, X, t) ==
  /\ \A i \in DOMAIN shown : Sums(shown[i], InBucket(X, shown[i].at), t) \/ (Cut /\ i = 1)
  /\ shown # <<>> =>
       \A b \in StartsOf(X) : b >= shown[1].at => \E i \in DOMAIN shown : shown[i].at = b
  /\ ~Cut => Len(shown) = IF Cardinality(StartsOf(X)) < Limit THEN Cardinality(StartsOf(X)) ELSE Limit

(* What is not in the first bucket of the newest times is among them.      *)
LEMMA LaterIsNewer ==
  ASSUME C!ContractAssumption, NEW X \in SUBSET Nat, NEW K \in SUBSET X,
         \A i \in K, j \in X : i <= j => j \in K,
         NEW d \in StartsOf(K), NEW h \in X, d < C!Bucket(h)
  PROVE  h \in K
<1>1. PICK k \in K : d = C!Bucket(k)
  BY DEF StartsOf
<1>2. k \in Nat /\ h \in Nat
  OBVIOUS
<1>3. C!Bucket(k) \in Int /\ C!Bucket(h) \in Int
  BY <1>2, BucketFacts
<1>4. ~(h <= k)
  <2>1. h <= k => C!Bucket(h) <= C!Bucket(k)
    BY <1>2, BucketsRise
  <2> QED
    BY <1>1, <1>3, <2>1
<1>5. k <= h
  BY <1>2, <1>4
<1> QED
  BY <1>5

LEMMA WholeBucket ==
  ASSUME C!ContractAssumption, NEW X \in SUBSET Nat, NEW K \in SUBSET X,
         \A i \in K, j \in X : i <= j => j \in K,
         NEW d \in StartsOf(K), NEW b, d < b
  PROVE  InBucket(X, b) = InBucket(K, b)
<1>1. ASSUME NEW h \in X, C!Bucket(h) = b PROVE h \in K
  BY <1>1, LaterIsNewer
<1> QED
  BY <1>1 DEF InBucket

LEMMA StartsInts ==
  ASSUME C!ContractAssumption, NEW X \in SUBSET Nat
  PROVE  StartsOf(X) \in SUBSET Int
<1>1. ASSUME NEW h \in X PROVE C!Bucket(h) \in Int
  <2>1. h \in Nat
    OBVIOUS
  <2> QED
    BY <2>1, BucketFacts
<1> QED
  BY <1>1 DEF StartsOf

(* The hours of a fetch, unless the cap cuts into them, fill more buckets  *)
(* than are shown, or are all there are.                                   *)
LEMMA MoreThanShown ==
  ASSUME C!ContractAssumption, NEW K \in SUBSET Nat, IsFiniteSet(K),
         Cardinality(K) = Limit * Span + Span
  PROVE  Cardinality(StartsOf(K)) > Limit
<1>1. /\ Cardinality(StartsOf(K)) \in Nat
      /\ Cardinality(K) <= Cardinality(StartsOf(K)) * Span
  BY FewPerBucket
<1>2. Span \in Nat \ {0} /\ Limit \in Nat
  BY DEF C!ContractAssumption
<1> DEFINE n == Cardinality(StartsOf(K))
<1>3. SUFFICES ASSUME ~(n > Limit) PROVE FALSE
  OBVIOUS
<1> HIDE DEF n
<1>4. Limit + 1 >= n + 1 /\ n \in Int /\ Limit + 1 \in Int
  BY <1>1, <1>2, <1>3 DEF n
<1>5. Span * (Limit + 1) >= Span * n + Span
  BY <1>2, <1>4, MoreSpans
<1>6. Span * (Limit + 1) = Limit * Span + Span
  BY <1>2
<1>7. n * Span = Span * n /\ Span * n \in Int
  BY <1>2, <1>4
<1> QED
  BY <1>1, <1>2, <1>5, <1>6, <1>7 DEF n

LEMMA AggregatedWhole ==
  ASSUME C!ContractAssumption, NEW X \in SUBSET Nat, IsFiniteSet(X), NEW t,
         NEW K, K = C!Newest(X, C!Count), NEW made, SumUp(made, K, t)
  PROVE  LET o == C!Ordered(C!Newest(DOMAIN made, Limit))
             shown == [i \in DOMAIN o |-> made[o[i]]]
         IN  Whole(shown, X, t) /\ shown \in Seq(Figures) /\ Len(shown) <= Limit
<1> DEFINE D == DOMAIN made
           O == C!Newest(D, Limit)
           o == Sorted(O)
           N == Cardinality(O)
           shown == [i \in DOMAIN o |-> made[o[i]]]
<1>1. Span \in Nat \ {0} /\ Limit \in Nat /\ Cap \in Nat /\ C!Count \in Nat
  BY DEF C!ContractAssumption, C!Count
<1>2. /\ K \subseteq X /\ IsFiniteSet(K)
      /\ \A i \in K, j \in X : i <= j => j \in K
      /\ Cardinality(K) = IF Cardinality(X) < C!Count THEN Cardinality(X) ELSE C!Count
      /\ Cardinality(X) <= C!Count => K = X
  <2>1. X \in SUBSET Int
    OBVIOUS
  <2> QED
    BY <1>1, <2>1, NewestFacts
<1>3. D = StartsOf(K) /\ D \in SUBSET Int /\ IsFiniteSet(D) /\ Cardinality(D) \in Nat
  <2>1. D = StartsOf(K)
    BY DEF SumUp
  <2>2. K \in SUBSET Nat
    BY <1>2
  <2> QED
    BY <1>2, <2>1, <2>2, StartsInts, FewPerBucket
<1> HIDE DEF D
<1>4. /\ O \subseteq D /\ IsFiniteSet(O)
      /\ \A i \in O, j \in D : i <= j => j \in O
      /\ N = IF Cardinality(D) < Limit THEN Cardinality(D) ELSE Limit
      /\ Cardinality(D) <= Limit => O = D
  BY <1>1, <1>3, NewestFacts
<1>5. /\ N \in Nat /\ DOMAIN o = 1..N /\ o \in [1..N -> O]
      /\ \A i, j \in 1..N : i < j => o[i] < o[j]
      /\ \A b \in O : \E i \in 1..N : o[i] = b
  <2>1. O \in SUBSET Int
    BY <1>3, <1>4
  <2> QED
    BY <1>4, <2>1, SortedFacts
<1> HIDE DEF O, o, N
<1>6. \A b \in D : made[b].at = b /\ Sums(made[b], InBucket(K, b), t)
  BY DEF D, SumUp
<1>7. shown \in [1..N -> Figures]
  <2>1. \A b \in D : made[b] \in Figures
    BY <1>6 DEF Sums
  <2>2. \A i \in 1..N : o[i] \in D
    BY <1>4, <1>5
  <2> QED
    BY <1>5, <2>1, <2>2
<1>8. \A i \in 1..N : shown[i] = made[o[i]] /\ o[i] \in D /\ o[i] \in O
  BY <1>4, <1>5
<1>9. Len(shown) = N /\ DOMAIN shown = 1..N /\ shown \in Seq(Figures)
  BY <1>5, <1>7
<1> HIDE DEF shown
<1>10. ~Cut => K = X \/ (Cardinality(D) > Limit /\ Cardinality(StartsOf(X)) > Limit)
  <2> SUFFICES ASSUME ~Cut, K # X
               PROVE  Cardinality(D) > Limit /\ Cardinality(StartsOf(X)) > Limit
    OBVIOUS
  <2>1. C!Count = Limit * Span + Span
    BY <1>1 DEF Cut, C!Count
  <2>2. Cardinality(K) = Limit * Span + Span
    <3>1. Cardinality(X) \in Nat
      BY FS_CardinalityType
    <3> QED
      BY <1>1, <1>2, <2>1, <3>1
  <2>3. K \in SUBSET Nat
    BY <1>2
  <2>4. Cardinality(D) > Limit
    BY <1>2, <1>3, <2>2, <2>3, MoreThanShown
  <2>5. /\ D \subseteq StartsOf(X) /\ IsFiniteSet(StartsOf(X))
    BY <1>2, <1>3, FewPerBucket DEF StartsOf
  <2>6. Cardinality(D) <= Cardinality(StartsOf(X)) /\ Cardinality(StartsOf(X)) \in Nat
    BY <2>5, FS_Subset, FS_CardinalityType
  <2> QED
    BY <1>1, <1>3, <2>4, <2>6
<1>11. ASSUME NEW i \in 1..N, ~(Cut /\ i = 1)
       PROVE  Sums(shown[i], InBucket(X, shown[i].at), t)
  <2>1. shown[i].at = o[i] /\ Sums(shown[i], InBucket(K, o[i]), t)
    BY <1>6, <1>8
  <2>2. CASE K = X
    BY <2>1, <2>2
  <2>3. CASE \E d \in D : d < o[i]
    <3>1. InBucket(X, o[i]) = InBucket(K, o[i])
      BY <1>2, <1>3, <2>3, WholeBucket
    <3> QED
      BY <2>1, <3>1
  <2>4. CASE i # 1
    <3>1. 1 \in 1..N /\ 1 < i
      BY <1>5, <2>4
    <3>2. o[1] < o[i] /\ o[1] \in D
      BY <1>5, <1>8, <3>1
    <3> QED
      BY <2>3, <3>2
  <2>5. CASE K # X /\ ~Cut
    <3>1. Cardinality(D) > Limit /\ N = Limit
      BY <1>1, <1>3, <1>4, <1>10, <2>5
    <3>2. O # D
      BY <1>1, <1>5, <3>1 DEF N
    <3>3. PICK d \in D : d \notin O
      BY <1>4, <3>2
    <3>4. o[i] \in O /\ o[i] \in Int /\ d \in Int
      BY <1>3, <1>8
    <3>5. ~(o[i] <= d)
      BY <1>4, <3>3, <3>4
    <3>6. d < o[i]
      BY <3>4, <3>5
    <3> QED
      BY <2>3, <3>6
  <2> QED
    BY <1>11, <2>2, <2>4, <2>5
<1>12. ASSUME shown # <<>>, NEW b \in StartsOf(X), b >= shown[1].at
       PROVE  \E i \in 1..N : shown[i].at = b
  <2>1. 1 \in 1..N
    BY <1>5, <1>9, <1>12
  <2>2. shown[1].at = o[1] /\ o[1] \in D /\ o[1] \in Int
    BY <1>3, <1>6, <1>8, <2>1
  <2>3. b \in Int
    BY StartsInts
  <2>4. b \in D
    <3>1. CASE o[1] < b
      <4>1. PICK h \in X : b = C!Bucket(h)
        BY DEF StartsOf
      <4>2. h \in K
        BY <1>2, <1>3, <2>2, <3>1, <4>1, LaterIsNewer
      <4> QED
        BY <1>3, <4>1, <4>2 DEF StartsOf
    <3>2. CASE ~(o[1] < b)
      BY <1>12, <2>2, <2>3, <3>2
    <3> QED
      BY <3>1, <3>2
  <2>5. b \in O
    BY <1>4, <1>8, <1>12, <2>1, <2>2, <2>3, <2>4
  <2>6. PICK i \in 1..N : o[i] = b
    BY <1>5, <2>5
  <2> QED
    BY <1>6, <1>8, <2>6
<1>13. ASSUME ~Cut
       PROVE  N = IF Cardinality(StartsOf(X)) < Limit THEN Cardinality(StartsOf(X)) ELSE Limit
  <2>1. Cardinality(StartsOf(X)) \in Nat
    BY FewPerBucket
  <2>2. CASE K = X
    BY <1>3, <1>4, <2>2
  <2>3. CASE Cardinality(D) > Limit /\ Cardinality(StartsOf(X)) > Limit
    BY <1>1, <1>3, <1>4, <2>1, <2>3
  <2> QED
    BY <1>10, <1>13, <2>2, <2>3
<1>14. Whole(shown, X, t)
  BY <1>9, <1>11, <1>12, <1>13 DEF Whole
<1>15. Len(shown) <= Limit
  BY <1>1, <1>3, <1>4, <1>9
<1>16. C!Ordered(C!Newest(DOMAIN made, Limit)) = o
  BY CandlesOrdered DEF o, O, D
<1> QED
  BY <1>9, <1>14, <1>15, <1>16 DEF shown

Sold(t, at) == {h \in DOMAIN t : t[h] # 0 /\ h <= at}

LEMMA SourceIs ==
  ASSUME NEW n, NEW N, N = Cardinality(C!Newest(C!Traders, n)),
         DOMAIN Sorted(C!Newest(C!Traders, n)) = 1..N
  PROVE  C!Source(n) = [i \in 1..N |-> Single1(Sorted(C!Newest(C!Traders, n))[i], traded)]
BY CandlesOrdered DEF C!Source, Single1

LEMMA FetchedWhole ==
  ASSUME C!ContractAssumption, now \in Nat, traded \in [0..now -> Price \cup {0}]
  PROVE  Whole(C!Fetched, Sold(traded, now), traded)
<1> DEFINE X == C!Traders
           K == C!Newest(X, C!Count)
           N == Cardinality(K)
           candles == C!Source(C!Count)
           made == C!Buckets(candles)
           shown == C!Aggregated(candles)
<1>1. X = Sold(traded, now) /\ X \in SUBSET Nat
  BY DEF C!Traders, Sold
<1>2. IsFiniteSet(X)
  <2>1. IsFiniteSet(0..now) /\ X \subseteq 0..now
    BY FS_Interval DEF C!Traders
  <2> QED
    BY <2>1, FS_Subset
<1>3. \A h \in X : traded[h] \in Int
  BY DEF C!Traders, C!ContractAssumption
<1>4. C!Count \in Nat /\ Limit \in Nat
  BY DEF C!ContractAssumption, C!Count
<1> HIDE DEF X
<1>5. K \subseteq X /\ IsFiniteSet(K) /\ K \in SUBSET Nat
  <2>1. X \in SUBSET Int
    BY <1>1
  <2>2. K \subseteq X /\ IsFiniteSet(K)
    BY <1>2, <1>4, <2>1, NewestFacts
  <2> QED
    BY <1>1, <2>2
<1>6. DOMAIN Sorted(K) = 1..N
  <2>1. K \in SUBSET Int
    BY <1>5
  <2> QED
    BY <1>5, <2>1, SortedFacts
<1>7. candles = [i \in 1..N |-> Single1(Sorted(K)[i], traded)]
  BY <1>6, SourceIs DEF X
<1> HIDE DEF K
<1>8. \A k \in K : traded[k] \in Int
  BY <1>3, <1>5
<1>9. SumUp(C!Buckets([i \in 1..Cardinality(K) |-> Single1(Sorted(K)[i], traded)]), K, traded)
  BY <1>5, <1>8, BucketsAre
<1>10. SumUp(made, K, traded)
  BY <1>7, <1>9
<1> DEFINE o == C!Ordered(C!Newest(DOMAIN made, Limit))
           list == [i \in DOMAIN o |-> made[o[i]]]
<1>11. shown = list
  BY DEF C!Aggregated
<1> HIDE DEF made, candles, N
<1>12. Whole(list, X, traded) /\ list \in Seq(Figures) /\ Len(list) <= Limit
  BY <1>1, <1>2, <1>10, AggregatedWhole DEF K
<1> HIDE DEF list, shown
<1>13. C!LastOf(list, Limit) = list
  <2>1. Len(list) \in Nat /\ ~(Len(list) > Limit)
    BY <1>4, <1>12
  <2>2. C!LastOf(list, Limit) = SubSeq(list, 1, Len(list))
    BY <2>1 DEF C!LastOf
  <2>3. SubSeq(list, 1, Len(list)) = list
    BY <1>12
  <2> QED
    BY <2>2, <2>3
<1>14. C!Fetched = C!LastOf(shown, Limit)
  BY DEF C!Fetched, shown, candles
<1> QED
  BY <1>1, <1>11, <1>12, <1>13, <1>14

-----------------------------------------------------------------------------
(* What an answer holds is right for the time it was fetched at, and stays *)
(* so: the trades of that time do not change any more.                     *)
Right(v, n, t) == v.at \in 0..n /\ Whole(v.candles, Sold(t, v.at), t)

CandlesInv ==
  /\ now \in Nat /\ traded \in [0..now -> Price \cup {0}]
  /\ flight.pc = "price" => Right(flight.value, now, traded)
  /\ cache # C!NoCache => Right(cache.value, now, traded)
  /\ keptGood # C!Nothing => Right(keptGood, now, traded) /\ keptGood.candles # <<>>
  /\ answer.status \in {"success", "stale"} =>
       Right(answer.value, now, traded) /\ answer.value.candles # <<>>

LEMMA WholeStays ==
  ASSUME NEW shown, NEW X, NEW t, NEW u, \A h \in X : t[h] = u[h], Whole(shown, X, t)
  PROVE  Whole(shown, X, u)
<1>1. ASSUME NEW c, NEW b, Sums(c, InBucket(X, b), t) PROVE Sums(c, InBucket(X, b), u)
  <2>1. \A h \in InBucket(X, b) : t[h] = u[h]
    BY DEF InBucket
  <2> DEFINE H == InBucket(X, b)
  <2> HIDE DEF H
  <2>2. Sums(c, H, t) /\ \A h \in H : t[h] = u[h]
    BY <1>1, <2>1 DEF H
  <2>3. Sums(c, H, u)
    BY <2>2 DEF Sums
  <2> QED
    BY <2>3 DEF H
<1> QED
  BY <1>1 DEF Whole

LEMMA RightStays ==
  ASSUME NEW v, NEW n \in Nat, NEW t, NEW u, DOMAIN t = 0..n, DOMAIN u = 0..(n + 1),
         \A h \in 0..n : u[h] = t[h], Right(v, n, t)
  PROVE  Right(v, n + 1, u)
<1>1. v.at \in 0..n /\ v.at \in 0..(n + 1)
  BY DEF Right
<1>2. Sold(u, v.at) = Sold(t, v.at)
  <2>1. ASSUME NEW h \in 0..(n + 1), h <= v.at PROVE h \in 0..n
    BY <1>1, <2>1
  <2>2. \A h \in 0..n : h \in 0..(n + 1)
    OBVIOUS
  <2> QED
    BY <2>1, <2>2 DEF Sold
<1>3. \A h \in Sold(t, v.at) : t[h] = u[h]
  BY DEF Sold
<1>4. Whole(v.candles, Sold(t, v.at), t)
  BY DEF Right
<1>5. Whole(v.candles, Sold(t, v.at), u)
  BY <1>3, <1>4, WholeStays
<1> QED
  BY <1>1, <1>2, <1>5 DEF Right

LEMMA CandlesInit == ASSUME C!Init PROVE CandlesInv
<1>1. 0..0 = {0}
  OBVIOUS
<1> QED
  BY <1>1 DEF C!Init, CandlesInv, C!NoFlight, C!NoAnswer

LEMMA CandlesStep ==
  ASSUME C!ContractAssumption, CandlesInv, [C!Next]_C!vars
  PROVE  CandlesInv'
<1>1. ASSUME NEW c \in Caller, C!Asks(c) PROVE CandlesInv'
  <2>1. UNCHANGED <<now, traded, cache, keptGood>>
    BY <1>1 DEF C!Asks
  <2>2. flight' = flight \/ flight' = [C!NoFlight EXCEPT !.pc = "candles"]
    BY <1>1 DEF C!Asks
  <2>3. flight'.pc = "price" => flight' = flight
    BY <2>2 DEF C!NoFlight
  <2>4. \/ answer' = C!NoAnswer
        \/ /\ cache # C!NoCache
           /\ answer' = [status |-> IF cache.value.candles = <<>> THEN "empty" ELSE "success",
                         value |-> cache.value]
    BY <1>1 DEF C!Asks, C!Fresh, C!Shows, C!Answered
  <2>5. answer'.status \in {"success", "stale"} =>
          cache # C!NoCache /\ answer'.value = cache.value /\ cache.value.candles # <<>>
    BY <2>4 DEF C!NoAnswer
  <2> QED
    BY <2>1, <2>3, <2>5 DEF CandlesInv
<1>2. CASE C!CandlesArrive
  <2>1. UNCHANGED <<now, traded, cache, keptGood>> /\ answer' = C!NoAnswer
    BY <1>2 DEF C!CandlesArrive
  <2>2. flight'.value = [at |-> now, candles |-> C!Fetched, price |-> 0]
    BY <1>2 DEF C!CandlesArrive, C!Nothing
  <2>3. flight'.value.at = now /\ flight'.value.candles = C!Fetched
    BY <2>2
  <2>4. now \in Nat /\ traded \in [0..now -> Price \cup {0}]
    BY DEF CandlesInv
  <2>5. Right(flight'.value, now, traded)
    BY <2>3, <2>4, FetchedWhole DEF Right
  <2> QED
    BY <2>1, <2>5 DEF CandlesInv, C!NoAnswer
<1>3. CASE C!PriceArrives
  <2>1. /\ UNCHANGED <<now, traded>> /\ flight' = C!NoFlight /\ Right(flight.value, now, traded)
    BY <1>3 DEF C!PriceArrives, CandlesInv
  <2> DEFINE with(price) == [flight.value EXCEPT !.price = price]
  <2>2. PICK price :
           /\ cache' = [savedAt |-> now, value |-> with(price)]
           /\ keptGood' = IF with(price).candles # <<>> THEN with(price) ELSE keptGood
           /\ C!Shows(with(price))
    BY <1>3 DEF C!PriceArrives
  <2> DEFINE value == with(price)
  <2>3. value.at = flight.value.at /\ value.candles = flight.value.candles
    OBVIOUS
  <2>4. Right(value, now, traded)
    BY <2>1, <2>3 DEF Right
  <2> HIDE DEF with, value
  <2>5. /\ cache'.value = value /\ (keptGood' = keptGood \/ (keptGood' = value /\ value.candles # <<>>))
        /\ answer' = [status |-> IF value.candles = <<>> THEN "empty" ELSE "success", value |-> value]
    <3>1. cache' = [savedAt |-> now, value |-> value] /\ C!Shows(value)
      BY <2>2 DEF value
    <3>2. keptGood' = IF value.candles # <<>> THEN value ELSE keptGood
      BY <2>2 DEF value
    <3>3. answer' = [status |-> IF value.candles = <<>> THEN "empty" ELSE "success", value |-> value]
      BY <3>1 DEF C!Shows, C!Answered
    <3>4. cache'.value = value
      BY <3>1
    <3> QED
      BY <3>2, <3>3, <3>4
  <2>6. answer'.status \in {"success", "stale"} => answer'.value = value /\ value.candles # <<>>
    BY <2>5
  <2> QED
    BY <2>1, <2>4, <2>5, <2>6 DEF CandlesInv, C!NoFlight
<1>4. CASE C!LoadFails
  <2>1. UNCHANGED <<now, traded, cache, keptGood>> /\ flight' = C!NoFlight
    BY <1>4 DEF C!LoadFails
  <2>2. \/ answer' = [status |-> "failed", value |-> C!Nothing]
        \/ keptGood # C!Nothing /\ answer' = [status |-> "stale", value |-> keptGood]
    BY <1>4 DEF C!LoadFails, C!Answered
  <2> QED
    BY <2>1, <2>2 DEF CandlesInv, C!NoFlight
<1>5. CASE C!Tick
  <2>1. UNCHANGED <<cache, keptGood, flight>> /\ answer' = C!NoAnswer /\ now' = now + 1
    BY <1>5 DEF C!Tick
  <2>2. PICK price \in Price \cup {0} :
          traded' = [h \in 0..(now + 1) |-> IF h <= now THEN traded[h] ELSE price]
    BY <1>5 DEF C!Tick
  <2>3. now \in Nat /\ traded \in [0..now -> Price \cup {0}]
    BY DEF CandlesInv
  <2>4. /\ now' \in Nat /\ traded' \in [0..now' -> Price \cup {0}]
        /\ DOMAIN traded = 0..now /\ DOMAIN traded' = 0..(now + 1)
        /\ \A h \in 0..now : traded'[h] = traded[h]
    BY <2>1, <2>2, <2>3
  <2>5. ASSUME NEW v, Right(v, now, traded) PROVE Right(v, now', traded')
    BY <2>1, <2>3, <2>4, <2>5, RightStays
  <2> QED
    BY <2>1, <2>4, <2>5 DEF CandlesInv, C!NoAnswer
<1>6. CASE UNCHANGED C!vars
  BY <1>6 DEF C!vars, CandlesInv
<1> QED
  BY <1>1, <1>2, <1>3, <1>4, <1>5, <1>6 DEF C!Next

(* The earliest and the latest of a set of times are unique.               *)
LEMMA EndsOf ==
  ASSUME NEW H \in SUBSET Int, NEW c, NEW t, Sums(c, H, t)
  PROVE  /\ c.open = t[CHOOSE h \in H : \A g \in H : h <= g]
         /\ c.close = t[CHOOSE h \in H : \A g \in H : g <= h]
<1>1. PICK p \in H : (\A g \in H : p <= g) /\ c.open = t[p]
  BY DEF Sums
<1>2. PICK q \in H : (\A g \in H : g <= q) /\ c.close = t[q]
  BY DEF Sums
<1> DEFINE first == CHOOSE h \in H : \A g \in H : h <= g
           last == CHOOSE h \in H : \A g \in H : g <= h
<1>3. first \in H /\ \A g \in H : first <= g
  BY <1>1
<1>4. last \in H /\ \A g \in H : g <= last
  BY <1>2
<1> HIDE DEF first, last
<1>5. first = p
  BY <1>1, <1>3
<1>6. last = q
  BY <1>2, <1>4
<1> QED
  BY <1>1, <1>2, <1>5, <1>6 DEF first, last

LEMMA CandlesWholeIf == ASSUME C!ContractAssumption, CandlesInv PROVE C!CandlesWhole
<1> SUFFICES ASSUME answer.status \in {"success", "stale"} PROVE C!CandlesWhole
  BY DEF C!CandlesWhole
<1> DEFINE shown == answer.value.candles
           at == answer.value.at
           X == Sold(traded, at)
           hours(b) == {h \in X : C!Bucket(h) = b}
           first(H) == CHOOSE h \in H : \A g \in H : h <= g
           last(H) == CHOOSE h \in H : \A g \in H : g <= h
           whole(c) ==
             /\ hours(c.at) # {}
             /\ c.open = traded[first(hours(c.at))] /\ c.close = traded[last(hours(c.at))]
             /\ c.volume = C!Cardinality(hours(c.at))
             /\ \A h \in hours(c.at) : c.low <= traded[h] /\ traded[h] <= c.high
             /\ {c.low, c.high} \subseteq {traded[h] : h \in hours(c.at)}
<1>1. Right(answer.value, now, traded) /\ shown # <<>> /\ traded \in [0..now -> Price \cup {0}] /\ now \in Nat
  BY DEF CandlesInv
<1>2. Whole(shown, X, traded)
  BY <1>1 DEF Right
<1>3. X \in SUBSET Int
  BY <1>1 DEF Sold
<1> HIDE DEF shown, at, X
<1>4. ASSUME NEW c, Sums(c, InBucket(X, c.at), traded) PROVE whole(c)
  <2>1. hours(c.at) = InBucket(X, c.at) /\ InBucket(X, c.at) \in SUBSET Int
    BY <1>3 DEF InBucket
  <2> DEFINE H == hours(c.at)
  <2> HIDE DEF H
  <2>2. Sums(c, H, traded) /\ H \in SUBSET Int
    BY <1>4, <2>1 DEF H
  <2>3. c.open = traded[first(H)] /\ c.close = traded[last(H)]
    BY <2>2, EndsOf
  <2>4. H # {} /\ c.volume = C!Cardinality(H)
    BY <2>2, CandleSizes DEF Sums
  <2>5. \A h \in H : c.low <= traded[h] /\ traded[h] <= c.high
    BY <2>2 DEF Sums
  <2>6. {c.low, c.high} \subseteq {traded[h] : h \in H}
    BY <2>2 DEF Sums
  <2> QED
    BY <2>3, <2>4, <2>5, <2>6 DEF H
<1> HIDE DEF whole
<1>5. \A i \in DOMAIN shown : whole(shown[i]) \/ (Cut /\ i = 1)
  BY <1>2, <1>4 DEF Whole
<1>6. \A b \in StartsOf(X) : b >= shown[1].at => \E i \in DOMAIN shown : shown[i].at = b
  BY <1>1, <1>2 DEF Whole
<1>7. ~Cut => Len(shown) = IF C!Cardinality(StartsOf(X)) < Limit THEN C!Cardinality(StartsOf(X)) ELSE Limit
  BY <1>2, CandleSizes DEF Whole
<1> QED
  BY <1>5, <1>6, <1>7 DEF C!CandlesWhole, whole, shown, at, X, Sold, StartsOf, Cut

(* Every candle of an answer, fresh, cached or kept for a failure, is that *)
(* of all the trades of its time, no bucket between is left out, and only  *)
(* a limit that the exchange's cap cuts into leaves the first one short,   *)
(* for buckets of any length, any limit, cap, prices and hours without     *)
(* trades (aggregateCandles, getMarketCandleSnapshot).                     *)
THEOREM CandlesWholeHolds ==
  ASSUME C!ContractAssumption
  PROVE  C!Spec => []C!CandlesWhole
<1>1. C!Init => CandlesInv
  BY CandlesInit
<1>2. CandlesInv /\ [C!Next]_C!vars => CandlesInv'
  BY CandlesStep
<1>3. CandlesInv => C!CandlesWhole
  BY CandlesWholeIf
<1> QED
  BY <1>1, <1>2, <1>3, PTL DEF C!Spec
=====================================================================================================================================================
